---------------------------- MODULE AdminKeyFile ----------------------------
(***************************************************************************)
(* The admin key file (cmd/sep2server adminkey.go): servers started on one *)
(* directory at the same time read the key, or one of them creates it.  A  *)
(* start may end between creating the file and writing to it, and a write  *)
(* that fails takes the file away again.                                   *)
(***************************************************************************)
EXTENDS Integers, FiniteSets, TLAPS

CONSTANTS
    Starters,         \* starts of the server and runs of the admin-key command
    FoundFiles,       \* what the path may hold at first: see InitKeyFile
    MaxKeyFaults      \* bound: failed writes and crashes

ASSUME KeyFileConstants == MaxKeyFaults \in Nat

EmptyKey == <<>>
NoFile == [kind |-> "none", key |-> EmptyKey, id |-> 0]
Attempts == 2         \* loadOrCreateAdminKey

VARIABLES
    keyFile,     \* NoFile, or what it is and the key it holds
    inode,       \* counts the files created at the path
    starter,     \* starter -> what it is doing and the key it has
    torn,        \* keys whose file was removed after it had been written
    keyFaults

keyVars == <<keyFile, inode, starter, torn, keyFaults>>

InitKeyFile ==
    /\ keyFile \in FoundFiles \cup {NoFile} /\ inode = 0
    /\ starter \in [Starters -> [does : {"serve", "environment", "print"}, at : {"idle"}, tries : {0}, key : {EmptyKey}, made : {0}]]
    /\ torn = {} /\ keyFaults = MaxKeyFaults

Becomes(s, at) == starter' = [starter EXCEPT ![s].at = at]
KeyFault == keyFaults > 0 /\ keyFaults' = keyFaults - 1

\* The random key a creator writes: that of no other file.
KeyOf(s, r) == <<s, r.made>>

\* A regular file of the user's own that nobody else can read.
Sound(f) == f.kind = "regular"

\* The key is taken from the environment, when it is set there and usable,
\* and the file is let alone; or else from the file.
resolveAdminKey(s) ==
    /\ starter[s].at = "idle"
    /\ \/ starter[s].does = "serve" /\ Becomes(s, "reading")
       \/ starter[s].does = "environment" /\ \E at \in {"ownKey", "refused"} : Becomes(s, at)
    /\ UNCHANGED <<keyFile, inode, torn, keyFaults>>

runAdminKey(s) ==
    /\ starter[s].at = "idle" /\ starter[s].does = "print"
    /\ Becomes(s, "reading") /\ UNCHANGED <<keyFile, inode, torn, keyFaults>>

\* One read.  A file that is not there is created by a server, and reported
\* by the command.
readAdminKeyFile(s) ==
    /\ starter[s].at = "reading"
    /\ CASE keyFile = NoFile ->
               Becomes(s, IF starter[s].does = "serve" THEN "creating" ELSE "refused")
         [] keyFile # NoFile /\ ~ Sound(keyFile) -> Becomes(s, "refused")
         [] keyFile # NoFile /\ Sound(keyFile) /\ keyFile.key # EmptyKey ->
               starter' = [starter EXCEPT ![s].at = "hasKey", ![s].key = keyFile.key]
         [] OTHER -> FALSE
    /\ UNCHANGED <<keyFile, inode, torn, keyFaults>>

\* A file that stays empty for two seconds is refused; until then the reader
\* looks again.
readSettledAdminKeyFile(s) ==
    /\ starter[s].at = "reading" /\ keyFile # NoFile /\ Sound(keyFile) /\ keyFile.key = EmptyKey
    /\ Becomes(s, "refused")
    /\ UNCHANGED <<keyFile, inode, torn, keyFaults>>

\* What a creator that lost the race does: it reads once more.
Again(s) ==
    starter' = [starter EXCEPT ![s].tries = @ + 1,
                               ![s].at = IF starter[s].tries + 1 < Attempts THEN "reading" ELSE "refused"]

openOverwriting(s) ==
    /\ starter[s].at = "creating"
    /\ inode' = inode + 1 /\ keyFile' = [kind |-> "regular", key |-> EmptyKey, id |-> inode']
    /\ starter' = [starter EXCEPT ![s].at = "writing", ![s].made = inode']
    /\ UNCHANGED <<torn, keyFaults>>

\* O_EXCL: of two creators, one finds the other's file.
openExclusive(s) ==
    /\ starter[s].at = "creating"
    /\ IF keyFile = NoFile
       THEN /\ inode' = inode + 1 /\ keyFile' = [kind |-> "regular", key |-> EmptyKey, id |-> inode']
            /\ starter' = [starter EXCEPT ![s].at = "writing", ![s].made = inode']
       ELSE Again(s) /\ UNCHANGED <<inode, keyFile>>
    /\ UNCHANGED <<torn, keyFaults>>

\* The key is written, and the file synced and closed.
createAdminKeyFile(s) ==
    \/ /\ starter[s].at = "writing"
       /\ keyFile' = IF keyFile # NoFile /\ keyFile.id = starter[s].made THEN [keyFile EXCEPT !.key = KeyOf(s, starter[s])] ELSE keyFile
       /\ Becomes(s, "syncing") /\ UNCHANGED <<inode, torn, keyFaults>>
    \/ /\ starter[s].at = "syncing"
       /\ starter' = [starter EXCEPT ![s].at = "hasKey", ![s].key = KeyOf(s, starter[s])]
       /\ UNCHANGED <<keyFile, inode, torn, keyFaults>>

\* A failed write, sync or close: the path is removed and the start refused.
createFails(s) ==
    /\ starter[s].at \in {"writing", "syncing"} /\ KeyFault
    /\ torn' = IF starter[s].at = "syncing" THEN torn \cup {KeyOf(s, starter[s])} ELSE torn
    /\ keyFile' = NoFile /\ Becomes(s, "refused") /\ UNCHANGED inode

\* A process ends; what it has created stays.
StarterCrashes(s) ==
    /\ starter[s].at \in {"writing", "syncing", "hasKey"} /\ KeyFault
    /\ Becomes(s, "refused") /\ UNCHANGED <<keyFile, inode, torn>>

\* A refused start is tried again.
StartsAgain(s) ==
    /\ starter[s].at = "refused" /\ starter[s].does = "serve" /\ keyFaults < MaxKeyFaults
    /\ starter' = [starter EXCEPT ![s] = [@ EXCEPT !.at = "reading", !.tries = 0, !.key = EmptyKey]] /\ KeyFault
    /\ UNCHANGED <<keyFile, inode, torn>>

KeyFileNext ==
    \E s \in Starters :
        \/ resolveAdminKey(s) \/ runAdminKey(s) \/ readAdminKeyFile(s) \/ readSettledAdminKeyFile(s)
        \/ openExclusive(s) \/ createAdminKeyFile(s) \/ createFails(s) \/ StarterCrashes(s) \/ StartsAgain(s)

KeyFileSpec == InitKeyFile /\ [][KeyFileNext]_keyVars

-----------------------------------------------------------------------------
\* Servers started on one directory, and the command that prints the key,
\* agree on one key and it is the one in the file, however their starts
\* interleave or end early ("Losing the create race to another starter falls
\* back to reading the winner's key").  Excused is who read a key that its
\* creator took away again because the sync failed.
OneAdminKey ==
    \A s \in Starters : starter[s].at = "hasKey" =>
        \/ starter[s].key \in torn
        \/ keyFile # NoFile /\ keyFile.key = starter[s].key /\ Sound(keyFile)

-----------------------------------------------------------------------------
\* The strengthening OneAdminKey needs.  O_EXCL lets one starter at a time be
\* between creating the file and closing it; what it has written by then is
\* what the path holds, so a failed write takes an empty file away, which
\* nobody can have read a key from.
Keys == {EmptyKey} \cup (Starters \X Nat) \cup {f.key : f \in FoundFiles}
Stages == {"idle", "reading", "creating", "writing", "syncing", "hasKey", "ownKey", "refused"}
KeyStarters == [does : {"serve", "environment", "print"}, at : Stages, tries : Nat, key : Keys, made : Nat]
KeyFiles == FoundFiles \cup {NoFile} \cup [kind : {"regular"}, key : Keys, id : Nat]
Creating(s) == starter[s].at \in {"writing", "syncing"}
FileOf(s, r) == [kind |-> "regular", key |-> IF r.at = "writing" THEN EmptyKey ELSE KeyOf(s, r), id |-> r.made]

OneCreator ==
    /\ inode \in Nat /\ keyFile \in KeyFiles /\ starter \in [Starters -> KeyStarters]
    /\ \A s \in Starters : Creating(s) => keyFile = FileOf(s, starter[s])
    /\ \A s, t \in Starters : Creating(s) /\ Creating(t) => s = t
    /\ \A s \in Starters : starter[s].at = "hasKey" => starter[s].key # EmptyKey
    /\ OneAdminKey

\* How a step that makes r of starter s keeps OneCreator: a file changes only
\* when no other starter is creating it or has a key.
LEMMA StarterKeeps ==
    ASSUME OneCreator, NEW s \in Starters, NEW r \in KeyStarters, starter' = [starter EXCEPT ![s] = r],
           inode' \in Nat, keyFile' \in KeyFiles, torn \subseteq torn',
           r.at \in {"writing", "syncing"} =>
               keyFile' = FileOf(s, r) /\ \A t \in Starters \ {s} : ~ Creating(t),
           r.at = "hasKey" => r.key # EmptyKey /\ (r.key \in torn' \/ (keyFile' # NoFile /\ keyFile'.key = r.key /\ Sound(keyFile'))),
           \/ keyFile' = keyFile
           \/ \A t \in Starters \ {s} : ~ Creating(t) /\ (starter[t].at = "hasKey" => starter[t].key \in torn')
    PROVE  OneCreator'
<1>1. starter'[s] = r /\ starter' \in [Starters -> KeyStarters] /\ \A t \in Starters \ {s} : starter'[t] = starter[t]
    BY DEF OneCreator
<1>2. \A t \in Starters : Creating(t)' => keyFile' = FileOf(t, starter[t])'
    BY <1>1 DEF OneCreator, Creating, FileOf
<1>3. \A t, u \in Starters : Creating(t)' /\ Creating(u)' => t = u BY <1>1 DEF OneCreator, Creating
<1>4. \A t \in Starters : starter'[t].at = "hasKey" => starter'[t].key # EmptyKey BY <1>1 DEF OneCreator
<1>5. OneAdminKey' BY <1>1 DEF OneCreator, OneAdminKey, Sound
<1>6. KeyFiles' = KeyFiles /\ KeyStarters' = KeyStarters BY DEF KeyFiles, KeyStarters, Keys
<1> QED BY <1>1, <1>2, <1>3, <1>4, <1>5, <1>6 DEF OneCreator

\* A starter that only moves on, to a stage where it is not creating the file
\* and has no key.
LEMMA MovesOn ==
    ASSUME OneCreator, NEW s \in Starters, NEW at \in Stages \ {"writing", "syncing", "hasKey"}, Becomes(s, at),
           UNCHANGED <<keyFile, inode, torn>>
    PROVE  OneCreator'
<1>1. starter[s] \in KeyStarters BY DEF OneCreator
<1>2. PICK r : r = [starter[s] EXCEPT !.at = at] BY Zenon
<1>3. r \in KeyStarters /\ r.at = at BY <1>1, <1>2, Zenon DEF KeyStarters
<1>4. starter' = [starter EXCEPT ![s] = r] BY <1>2, Zenon DEF Becomes
<1> QED BY <1>3, <1>4, StarterKeeps, Zenon DEF OneCreator

\* Every step keeps OneCreator: openExclusive finds no file, so nobody is
\* creating one and nobody has a key.
LEMMA OneCreatorStep == ASSUME OneCreator, [KeyFileNext]_keyVars PROVE OneCreator'
<1>0. CASE UNCHANGED keyVars
    BY <1>0 DEF OneCreator, OneAdminKey, keyVars, Creating, Sound
<1> SUFFICES ASSUME NEW s \in Starters,
                    \/ resolveAdminKey(s) \/ runAdminKey(s) \/ readAdminKeyFile(s) \/ readSettledAdminKeyFile(s)
                    \/ openExclusive(s) \/ createAdminKeyFile(s) \/ createFails(s) \/ StarterCrashes(s) \/ StartsAgain(s)
             PROVE  OneCreator'
    BY <1>0 DEF KeyFileNext
<1>t. starter[s] \in KeyStarters /\ inode \in Nat /\ keyFile \in KeyFiles BY DEF OneCreator
<1>n. /\ Creating(s) => keyFile # NoFile /\ keyFile = FileOf(s, starter[s]) /\ \A t \in Starters \ {s} : ~ Creating(t)
      /\ keyFile = NoFile => \A t \in Starters : ~ Creating(t) /\ (starter[t].at = "hasKey" => starter[t].key \in torn)
      /\ starter[s].at = "writing" => \A t \in Starters : starter[t].at = "hasKey" => starter[t].key \in torn
    <2>1. \A t \in Starters : FileOf(t, starter[t]) # NoFile BY DEF FileOf, NoFile
    <2>2. Creating(s) => keyFile # NoFile /\ keyFile = FileOf(s, starter[s]) /\ \A t \in Starters \ {s} : ~ Creating(t)
        BY <2>1 DEF OneCreator
    <2>3. keyFile = NoFile => \A t \in Starters : ~ Creating(t) /\ (starter[t].at = "hasKey" => starter[t].key \in torn)
        BY <2>1 DEF OneCreator, OneAdminKey
    <2>4. starter[s].at = "writing" => keyFile.key = EmptyKey BY <2>2 DEF Creating, FileOf
    <2> QED BY <2>2, <2>3, <2>4 DEF OneCreator, OneAdminKey
<1>1. CASE resolveAdminKey(s) \/ runAdminKey(s) \/ readSettledAdminKeyFile(s)
    <2>1. \E at \in {"reading", "ownKey", "refused"} : Becomes(s, at) /\ UNCHANGED <<keyFile, inode, torn>>
        BY <1>1 DEF resolveAdminKey, runAdminKey, readSettledAdminKeyFile
    <2> QED BY <2>1, MovesOn DEF Stages
<1>2. CASE readAdminKeyFile(s)
    <2>1. UNCHANGED <<keyFile, inode, torn>> BY <1>2 DEF readAdminKeyFile
    <2>2. CASE \E at \in {"creating", "refused"} : Becomes(s, at) BY <2>1, <2>2, MovesOn DEF Stages
    <2>3. CASE /\ keyFile # NoFile /\ Sound(keyFile) /\ keyFile.key # EmptyKey
               /\ starter' = [starter EXCEPT ![s].at = "hasKey", ![s].key = keyFile.key]
        <3>1. keyFile.key \in Keys BY <1>t, <2>3 DEF KeyFiles, Keys
        <3>2. PICK r : r = [starter[s] EXCEPT !.at = "hasKey", !.key = keyFile.key] BY Zenon
        <3>3. r \in KeyStarters /\ r.at = "hasKey" /\ r.key = keyFile.key BY <1>t, <3>1, <3>2, Zenon DEF KeyStarters, Stages
        <3>4. starter' = [starter EXCEPT ![s] = r] BY <2>3, <3>2, Zenon
        <3> QED BY <1>t, <2>1, <2>3, <3>3, <3>4, StarterKeeps, Zenon
    <2> QED BY <1>2, <2>2, <2>3 DEF readAdminKeyFile
<1>3. CASE openExclusive(s)
    <2>1. CASE keyFile = NoFile
        <3>1. /\ inode' \in Nat /\ torn' = torn /\ keyFile' = [kind |-> "regular", key |-> EmptyKey, id |-> inode']
              /\ starter' = [starter EXCEPT ![s].at = "writing", ![s].made = inode']
            BY <1>3, <1>t, <2>1 DEF openExclusive
        <3>2. PICK r : r = [starter[s] EXCEPT !.at = "writing", !.made = inode'] BY Zenon
        <3>3. r \in KeyStarters /\ r.at = "writing" /\ r.made = inode' BY <1>t, <3>1, <3>2, Zenon DEF KeyStarters, Stages
        <3>4. starter' = [starter EXCEPT ![s] = r] BY <3>1, <3>2, Zenon
        <3>5. keyFile' = FileOf(s, r) /\ keyFile' \in KeyFiles BY <3>1, <3>3 DEF FileOf, KeyFiles, Keys
        <3> QED BY <1>n, <2>1, <3>1, <3>3, <3>4, <3>5, StarterKeeps, Zenon
    <2>2. CASE keyFile # NoFile
        <3>1. UNCHANGED <<keyFile, inode, torn>> /\ Again(s) BY <1>3, <2>2 DEF openExclusive
        <3>a. starter[s].tries + 1 \in Nat BY <1>t DEF KeyStarters
        <3>2. PICK n \in Nat, at \in {"reading", "refused"} : starter' = [starter EXCEPT ![s].tries = n, ![s].at = at]
            BY <3>1, <3>a, Zenon DEF Again
        <3>3. PICK r : r = [starter[s] EXCEPT !.tries = n, !.at = at] BY Zenon
        <3>4. r \in KeyStarters /\ r.at = at BY <1>t, <3>3, Zenon DEF KeyStarters, Stages
        <3>5. starter' = [starter EXCEPT ![s] = r] BY <3>2, <3>3, Zenon
        <3> QED BY <1>t, <3>1, <3>4, <3>5, StarterKeeps, Zenon
    <2> QED BY <2>1, <2>2
<1>4. CASE createAdminKeyFile(s)
    <2>1. inode' = inode /\ torn' = torn BY <1>4 DEF createAdminKeyFile
    <2>2. CASE starter[s].at = "writing"
        <3>1. keyFile = [kind |-> "regular", key |-> EmptyKey, id |-> starter[s].made] /\ keyFile # NoFile
            BY <1>n, <2>2 DEF Creating, FileOf
        <3>2. keyFile.id = starter[s].made BY <3>1
        <3>3. keyFile' = [keyFile EXCEPT !.key = KeyOf(s, starter[s])] /\ Becomes(s, "syncing")
            BY <1>4, <2>2, <3>1, <3>2 DEF createAdminKeyFile
        <3>4. keyFile' = [kind |-> "regular", key |-> KeyOf(s, starter[s]), id |-> starter[s].made] BY <3>1, <3>3
        <3>5. PICK r : r = [starter[s] EXCEPT !.at = "syncing"] BY Zenon
        <3>6. r \in KeyStarters /\ r.at = "syncing" /\ r.made = starter[s].made BY <1>t, <3>5, Zenon DEF KeyStarters, Stages
        <3>7. starter' = [starter EXCEPT ![s] = r] BY <3>3, <3>5, Zenon DEF Becomes
        <3>8. keyFile' = FileOf(s, r) /\ keyFile' \in KeyFiles BY <1>t, <3>4, <3>6 DEF FileOf, KeyOf, KeyFiles, Keys, KeyStarters
        <3> QED BY <1>n, <1>t, <2>1, <2>2, <3>6, <3>7, <3>8, StarterKeeps, Zenon DEF Creating
    <2>3. CASE starter[s].at = "syncing"
        <3>1. keyFile = [kind |-> "regular", key |-> KeyOf(s, starter[s]), id |-> starter[s].made] /\ keyFile # NoFile
            BY <1>n, <2>3 DEF Creating, FileOf
        <3>2. keyFile' = keyFile /\ starter' = [starter EXCEPT ![s].at = "hasKey", ![s].key = KeyOf(s, starter[s])]
            BY <1>4, <2>3 DEF createAdminKeyFile
        <3>3. PICK r : r = [starter[s] EXCEPT !.at = "hasKey", !.key = KeyOf(s, starter[s])] BY Zenon
        <3>4. KeyOf(s, starter[s]) \in Keys /\ KeyOf(s, starter[s]) # EmptyKey BY <1>t DEF Keys, EmptyKey, KeyOf, KeyStarters
        <3>5. r \in KeyStarters /\ r.at = "hasKey" /\ r.key = KeyOf(s, starter[s]) BY <1>t, <3>3, <3>4, Zenon DEF KeyStarters, Stages
        <3>6. starter' = [starter EXCEPT ![s] = r] BY <3>2, <3>3, Zenon
        <3> QED BY <1>t, <2>1, <3>1, <3>2, <3>4, <3>5, <3>6, StarterKeeps, Zenon DEF Sound
    <2> QED BY <1>4, <2>2, <2>3 DEF createAdminKeyFile
<1>5. CASE createFails(s)
    <2>1. /\ Creating(s) /\ keyFile' = NoFile /\ inode' = inode /\ Becomes(s, "refused")
          /\ torn' = IF starter[s].at = "syncing" THEN torn \cup {KeyOf(s, starter[s])} ELSE torn
        BY <1>5 DEF createFails, Creating
    <2>2. PICK r : r = [starter[s] EXCEPT !.at = "refused"] BY Zenon
    <2>3. r \in KeyStarters /\ r.at = "refused" BY <1>t, <2>2, Zenon DEF KeyStarters, Stages
    <2>4. starter' = [starter EXCEPT ![s] = r] BY <2>1, <2>2, Zenon DEF Becomes
    <2>5. NoFile \in KeyFiles BY DEF KeyFiles
    <2>6. torn \subseteq torn' BY <2>1
    <2>7. \A t \in Starters : starter[t].at = "hasKey" => starter[t].key \in torn'
        <3>1. CASE starter[s].at = "writing" BY <1>n, <2>6, <3>1
        <3>2. CASE starter[s].at = "syncing"
            <4>1. keyFile.key = KeyOf(s, starter[s]) BY <1>n, <2>1, <3>2 DEF FileOf
            <4>2. KeyOf(s, starter[s]) \in torn' BY <2>1, <3>2
            <4> QED BY <2>6, <4>1, <4>2 DEF OneCreator, OneAdminKey
        <3> QED BY <2>1, <3>1, <3>2 DEF Creating
    <2> QED BY <1>n, <1>t, <2>1, <2>3, <2>4, <2>5, <2>6, <2>7, StarterKeeps, Zenon
<1>6. CASE StarterCrashes(s) BY <1>6, MovesOn DEF StarterCrashes, Stages
<1>7. CASE StartsAgain(s)
    <2>1. UNCHANGED <<keyFile, inode, torn>> BY <1>7 DEF StartsAgain
    <2>2. PICK r : r = [starter[s] EXCEPT !.at = "reading", !.tries = 0, !.key = EmptyKey] BY Zenon
    <2>3. EmptyKey \in Keys BY DEF Keys
    <2>4. r \in KeyStarters /\ r.at = "reading" BY <1>t, <2>2, <2>3, Zenon DEF KeyStarters, Stages
    <2>5. starter' = [starter EXCEPT ![s] = r] BY <1>7, <2>2, Zenon DEF StartsAgain
    <2> QED BY <1>t, <2>1, <2>4, <2>5, StarterKeeps, Zenon
<1> QED BY <1>1, <1>2, <1>3, <1>4, <1>5, <1>6, <1>7

\* However many servers start on one directory, in whatever order, with
\* whatever file found there and however many writes failing or processes
\* ending, those that got a key share the one the file holds
\* (loadOrCreateAdminKey).
THEOREM SharedKey == KeyFileSpec => []OneAdminKey
<1>1. InitKeyFile => OneCreator
    BY DEF InitKeyFile, OneCreator, OneAdminKey, Keys, KeyStarters, KeyFiles, Stages, Creating
<1>2. OneCreator /\ [KeyFileNext]_keyVars => OneCreator' BY OneCreatorStep
<1>3. OneCreator => OneAdminKey BY DEF OneCreator
<1> QED BY <1>1, <1>2, <1>3, PTL DEF KeyFileSpec
=============================================================================

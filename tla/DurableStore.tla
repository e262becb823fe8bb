---------------------------- MODULE DurableStore ----------------------------
(***************************************************************************)
(* What src/persist.rs promises of the session files, without saying how: a *)
(* session is stored whole and at once, a crash loses only memory, a file   *)
(* goes only when it is too old or when enough newer ones exist, and a load *)
(* brings back exactly what was stored.  SessionStore implements it.        *)
(***************************************************************************)
EXTENDS Integers, FiniteSets

CONSTANTS
  Shim,        \* shim processes
  Sid,         \* session ids
  Keep,        \* MAX_SESSION_FILES
  MaxAge       \* MAX_SESSION_AGE

VARIABLES
  file,        \* the file of each session
  memory,      \* per process, version of each session it holds; 0: none
  now          \* clock

vars == <<file, memory, now>>

\* A file: the version it holds (0: nothing that loads), its mtime (0: no
\* file), and whether its data has reached the disk.
Entry == [ver : Nat, time : Nat, synced : BOOLEAN]
Absent == [ver |-> 0, time |-> 0, synced |-> TRUE]
Files == {s \in Sid : file[s].time > 0}

Old(s) == now - file[s].time > MaxAge
Newer(s) == {r \in Files : file[r].time > file[s].time}
Expendable(s) == s \in Files /\ (Old(s) \/ Cardinality(Newer(s)) >= Keep)

Init ==
  /\ file = [s \in Sid |-> Absent]
  /\ memory = [p \in Shim |-> [s \in Sid |-> 0]]
  /\ now = 1

Remember(p, s, v) == memory' = [memory EXCEPT ![p][s] = v]

Create(p, s) == Remember(p, s, 1) /\ UNCHANGED <<file, now>>

Change(p, s) ==
  /\ memory[p][s] > 0
  /\ Remember(p, s, memory[p][s] + 1)
  /\ UNCHANGED <<file, now>>

\* The version in memory replaces the file; the file is now the newest.
Store(p, s) ==
  /\ file' = [file EXCEPT ![s] = file'[s]]
  /\ file'[s].ver = memory[p][s] /\ memory[p][s] > 0
  /\ file'[s].time \in 1..now
  /\ \A r \in Sid : file[r].time < file'[s].time
  /\ UNCHANGED <<memory, now>>

Evict(s) ==
  /\ Expendable(s)
  /\ file' = [file EXCEPT ![s] = Absent]
  /\ UNCHANGED <<memory, now>>

Load(p, s) ==
  /\ file[s].ver > 0
  /\ Remember(p, s, file[s].ver)
  /\ UNCHANGED <<file, now>>

Crash(p) ==
  /\ memory' = [memory EXCEPT ![p] = [s \in Sid |-> 0]]
  /\ UNCHANGED <<file, now>>

\* Only data that never reached the disk is lost, and then it does not load.
PowerCut ==
  /\ memory' = [p \in Shim |-> [s \in Sid |-> 0]]
  /\ \A s \in Sid :
       \/ file'[s] = file[s]
       \/ ~file[s].synced /\ file'[s] = [file[s] EXCEPT !.ver = 0]
  /\ file' \in [Sid -> Entry]
  /\ UNCHANGED now

Tick == now' = now + 1 /\ UNCHANGED <<file, memory>>

Next ==
  \/ \E p \in Shim, s \in Sid : Create(p, s) \/ Change(p, s) \/ Store(p, s) \/ Load(p, s)
  \/ \E s \in Sid : Evict(s)
  \/ \E p \in Shim : Crash(p)
  \/ PowerCut
  \/ Tick

Spec == Init /\ [][Next]_vars
=============================================================================

-------------------------- MODULE SessionStoreProofs --------------------------
(***************************************************************************)
(* Theorems about SessionStore, for any session ids, caps, settings and      *)
(* length of the run: its types; and, for one process at a time on the       *)
(* directory, its invariants and that it implements DurableStore.            *)
(***************************************************************************)
EXTENDS SessionStore, FiniteSetTheorems, TLAPS

-----------------------------------------------------------------------------
(* Types.                                                                  *)

\* A process with an operation in hand has it on one session.
Busy == \A p \in Shim : ~At(p, "idle") => \E s \in Sid : job[p].sid = {s}

TypeInv == TypeOK /\ Busy

\* The session of an operation.
LEMMA TheSidType ==
  ASSUME TypeInv, NEW p \in Shim, ~At(p, "idle")
  PROVE  TheSid(p) \in Sid /\ job[p].sid = {TheSid(p)}
BY DEF TypeInv, Busy, TheSid

\* What a sweep picks is in the directory.
LEMMA DoomedType ==
  ASSUME NEW f, NEW t
  PROVE  Doomed(f, t) \subseteq Doom
<1> DEFINE Left == {s \in Sid : t[s].time > 0}
           Young == {s \in Sid : f[s].time > 0} \ OldFiles(f)
           Gone == OldFiles(f) \cup (Young \ Newest(f, Young))
<1>1. Doomed(f, t) = {<<"tmp", s>> : s \in Left} \cup {<<"json", s>> : s \in Gone}
  BY DEF Doomed
<1>2. Left \subseteq Sid /\ Gone \subseteq Sid
  BY DEF OldFiles
<1>3. \A s \in Sid : <<"tmp", s>> \in Doom /\ <<"json", s>> \in Doom
  BY DEF Doom
<1>4. SUFFICES ASSUME NEW d \in Doomed(f, t) PROVE d \in Doom
  OBVIOUS
<1> HIDE DEF Left, Gone
<1>5. (\E s \in Left : d = <<"tmp", s>>) \/ (\E s \in Gone : d = <<"json", s>>)
  BY <1>1
<1> QED BY <1>2, <1>3, <1>5

\* Types of a sweep that starts.
LEMMA SweepTypes ==
  ASSUME TypeInv, NEW p \in Shim, NEW f, NEW t, Sweep(p, f, t)
  PROVE  /\ doomed' \in [Shim -> SUBSET Doom] /\ missed' \in [Shim -> SUBSET Doom]
         /\ \A q \in Shim \ {p} : doomed'[q] = doomed[q]
BY DoomedType DEF Sweep, TypeInv, TypeOK

\* Moving one process to another step keeps the jobs well formed.
LEMMA GotoTypes ==
  ASSUME TypeInv, NEW p \in Shim, NEW step \in Steps, NEW s \in Sid, Goto(p, step, s)
  PROVE  /\ job' \in [Shim -> [at : Steps, sid : {{}} \cup {{r} : r \in Sid}]]
         /\ job'[p].at = step /\ job'[p].sid = {s}
         /\ \A q \in Shim \ {p} : job'[q] = job[q]
         /\ Busy'
BY DEF Goto, TypeInv, TypeOK, Busy, At

\* So does finishing its operation.
LEMMA DoneTypes ==
  ASSUME TypeInv, NEW p \in Shim, job' = [job EXCEPT ![p] = Idle]
  PROVE  /\ job' \in [Shim -> [at : Steps, sid : {{}} \cup {{r} : r \in Sid}]]
         /\ job'[p].at = "idle" /\ job'[p].sid = {}
         /\ \A q \in Shim \ {p} : job'[q] = job[q]
         /\ Busy'
BY DEF Idle, Steps, TypeInv, TypeOK, Busy, At

\* A process that is not sweeping has nothing doomed.
LEMMA NoSweep ==
  ASSUME TypeInv, NEW p \in Shim, ~At(p, "new"), ~At(p, "saved"), ~At(p, "load")
  PROVE  doomed[p] = {}
BY DEF TypeInv, TypeOK

\* The operations that may use the directory for the first time.
LEMMA FirstUseTypes ==
  ASSUME TypeInv, NEW p \in Shim, FirstUse(p)
  PROVE  /\ inited' \subseteq Shim
         /\ doomed' \in [Shim -> SUBSET Doom] /\ missed' \in [Shim -> SUBSET Doom]
         /\ \A q \in Shim \ {p} : doomed'[q] = doomed[q]
BY SweepTypes DEF FirstUse, sweepVars, TypeInv, TypeOK

\* A sweep belongs to one of the operations that wait for it.
SweepHeld == \A p \in Shim : doomed[p] # {} => job[p].at \in {"new", "saved", "load"}

\* Starting or carrying on a sweep in such an operation keeps it so.
LEMMA HeldKept ==
  ASSUME TypeInv, NEW p \in Shim,
         doomed'[p] # {} => job'[p].at \in {"new", "saved", "load"},
         \A q \in Shim \ {p} : doomed'[q] \subseteq doomed[q] /\ job'[q] = job[q]
  PROVE  SweepHeld'
BY DEF TypeInv, TypeOK, SweepHeld, At

\* Every step of a process preserves the types.
LEMMA TypeRequest ==
  ASSUME TypeInv, NEW p \in Shim, Request(p)
  PROVE  TypeInv'
<1>1. PICK s \in Sid : New(p, s) \/ Change(p, s) \/ Load(p, s)
  BY DEF Request
<1>2. "new" \in Steps /\ "create" \in Steps /\ "load" \in Steps
  BY DEF Steps
<1>3. CASE New(p, s)
  <2>1. UNCHANGED <<file, tmp, now, anchored, enabled>> /\ unsaved' = unsaved \ {s}
    BY <1>3 DEF New, dirVars
  <2>2. CASE FirstUse(p) /\ Goto(p, "new", s) /\ UNCHANGED memory
    <3>1. SweepHeld'
      BY <1>2, <2>2, FirstUseTypes, GotoTypes, HeldKept
    <3> QED BY <1>2, <2>1, <2>2, <3>1, FirstUseTypes, GotoTypes
            DEF TypeInv, TypeOK, SweepHeld, At
  <2>3. CASE memory' = [memory EXCEPT ![p][s] = 1] /\ UNCHANGED <<inited, sweepVars, job>>
    BY <2>1, <2>3 DEF TypeInv, TypeOK, At, Busy, sweepVars
  <2> QED BY <1>3, <2>2, <2>3 DEF New
<1>4. CASE Change(p, s)
  <2>1. /\ UNCHANGED <<file, tmp, now, anchored, inited, enabled, doomed, missed, unsaved>>
        /\ memory' = [memory EXCEPT ![p][s] = @ + 1] /\ At(p, "idle")
    BY <1>4 DEF Change, dirVars, sweepVars
  <2>2. memory' \in [Shim -> [Sid -> Nat]]
    BY <2>1 DEF TypeInv, TypeOK
  <2>3. CASE Goto(p, "create", s)
    <3>1. doomed[p] = {}
      BY <2>1, NoSweep DEF At
    <3> QED BY <1>2, <2>1, <2>2, <2>3, <3>1, GotoTypes DEF TypeInv, TypeOK, At
  <2>4. CASE UNCHANGED job
    BY <2>1, <2>2, <2>4 DEF TypeInv, TypeOK, At, Busy
  <2> QED BY <1>4, <2>3, <2>4 DEF Change
<1>5. CASE Load(p, s)
  <2>1. /\ UNCHANGED <<file, tmp, now, memory, anchored, enabled, unsaved>>
        /\ FirstUse(p) /\ Goto(p, "load", s)
    BY <1>5 DEF Load, dirVars
  <2>2. SweepHeld'
    BY <1>2, <2>1, FirstUseTypes, GotoTypes, HeldKept
  <2> QED BY <1>2, <2>1, <2>2, FirstUseTypes, GotoTypes
          DEF TypeInv, TypeOK, SweepHeld, At
<1> QED BY <1>1, <1>3, <1>4, <1>5

\* The steps of an operation in hand keep the types.
LEMMA TypeStep ==
  ASSUME TypeInv, NEW p \in Shim, Step(p)
  PROVE  TypeInv'
<1> DEFINE s == TheSid(p)
<1>2. Partial \in Durable!Entry /\ Absent \in Durable!Entry
  BY DEF Partial, Absent, Durable!Absent, Durable!Entry
<1>3. {"create", "write", "rename", "saved", "new", "load"} \subseteq Steps
  BY DEF Steps
<1>4. ~At(p, "idle") => s \in Sid /\ job[p].sid \subseteq Sid
  BY TheSidType
<1>5. CASE SweepOne(p)
  <2>1. PICK d \in doomed[p] :
          /\ doomed' = [doomed EXCEPT ![p] = @ \ {d}]
          /\ \/ /\ file' = IF d[1] = "json" THEN [file EXCEPT ![d[2]] = Absent] ELSE file
                /\ tmp' = IF d[1] = "tmp" THEN [tmp EXCEPT ![d[2]] = Absent] ELSE tmp
                /\ UNCHANGED missed
             \/ /\ missed' = [missed EXCEPT ![p] = @ \cup {d}]
                /\ UNCHANGED <<file, tmp>>
    BY <1>5 DEF SweepOne
  <2>2. UNCHANGED <<now, memory, anchored, inited, enabled, job, unsaved>>
    BY <1>5 DEF SweepOne, procVars
  <2>3. d \in Doom
    BY <2>1 DEF TypeInv, TypeOK
  <2>4. file' \in [Sid -> Durable!Entry] /\ tmp' \in [Sid -> Durable!Entry]
    BY <1>2, <2>1 DEF TypeInv, TypeOK
  <2>5. doomed' \in [Shim -> SUBSET Doom] /\ missed' \in [Shim -> SUBSET Doom]
    BY <2>1, <2>3 DEF TypeInv, TypeOK
  <2>6. SweepHeld'
    BY <2>1, <2>2, HeldKept DEF TypeInv, TypeOK, At
  <2> QED BY <2>2, <2>4, <2>5, <2>6 DEF TypeInv, TypeOK, SweepHeld, At, Busy
<1>6. CASE NewDone(p)
  <2>1. /\ UNCHANGED <<file, tmp, now, inited, enabled, doomed, missed, unsaved>>
        /\ memory' = [memory EXCEPT ![p][s] = 1] /\ ~At(p, "idle")
        /\ anchored' = [anchored EXCEPT ![p] = @ \cup {s}]
        /\ job' = [job EXCEPT ![p] = Idle] /\ doomed[p] = {}
    BY <1>6 DEF NewDone, dirVars, sweepVars, Done, At
  <2>2. SweepHeld'
    BY <2>1, DoneTypes, HeldKept
  <2>3. memory' \in [Shim -> [Sid -> Nat]] /\ anchored' \in [Shim -> SUBSET Sid]
    BY <1>4, <2>1 DEF TypeInv, TypeOK
  <2> QED BY <2>1, <2>2, <2>3, DoneTypes DEF TypeInv, TypeOK, SweepHeld, At
<1>7. CASE SaveFails(p) /\ ~At(p, "idle") /\ doomed[p] = {}
             /\ tmp' \in [Sid -> Durable!Entry] /\ file' \in [Sid -> Durable!Entry]
             /\ now' \in Nat
  <2>1. /\ UNCHANGED <<memory, anchored, inited, enabled, doomed, missed>>
        /\ job' = [job EXCEPT ![p] = Idle] /\ unsaved' = unsaved \cup job[p].sid
    BY <1>7 DEF SaveFails, procVars, sweepVars, Done
  <2>2. SweepHeld'
    BY <1>7, <2>1, DoneTypes, HeldKept
  <2> QED BY <1>4, <1>7, <2>1, <2>2, DoneTypes DEF TypeInv, TypeOK, SweepHeld, At
<1>8. CASE CreateTmp(p)
  <2>1. UNCHANGED <<file, now>> /\ ~At(p, "idle") /\ At(p, "create")
    BY <1>8 DEF CreateTmp, At
  <2>2. doomed[p] = {}
    BY <2>1, NoSweep DEF At
  <2>3. CASE tmp' = [tmp EXCEPT ![s] = Partial] /\ Goto(p, "write", s)
             /\ UNCHANGED <<procVars, sweepVars, unsaved>>
    <3>1. SweepHeld'
      BY <1>3, <1>4, <2>1, <2>2, <2>3, GotoTypes, HeldKept DEF sweepVars
    <3> QED BY <1>2, <1>3, <1>4, <2>1, <2>3, <3>1, GotoTypes
            DEF TypeInv, TypeOK, SweepHeld, At, procVars, sweepVars
  <2>4. CASE SaveFails(p) /\ UNCHANGED tmp
    BY <1>7, <2>1, <2>2, <2>4 DEF TypeInv, TypeOK
  <2> QED BY <1>8, <2>3, <2>4 DEF CreateTmp
<1>9. CASE WriteTmp(p)
  <2>1. UNCHANGED file /\ ~At(p, "idle") /\ At(p, "write")
    BY <1>9 DEF WriteTmp, At
  <2>2. doomed[p] = {}
    BY <2>1, NoSweep DEF At
  <2>3. CASE SaveFails(p) /\ UNCHANGED <<tmp, now>>
    BY <1>7, <2>1, <2>2, <2>3 DEF TypeInv, TypeOK
  <2>4. CASE ~(SaveFails(p) /\ UNCHANGED <<tmp, now>>)
    <3>1. /\ now' = now + 1 /\ Goto(p, "rename", s)
          /\ UNCHANGED <<procVars, sweepVars, unsaved>>
      BY <1>9, <2>4 DEF WriteTmp
    <3>2. PICK synced \in BOOLEAN :
            tmp' = [tmp EXCEPT ![s] =
              IF @.time = 0 THEN @
              ELSE [ver |-> memory[p][s], time |-> now + 1, synced |-> synced]]
      BY <1>9, <2>4 DEF WriteTmp
    <3>3. [ver |-> memory[p][s], time |-> now + 1, synced |-> synced] \in Durable!Entry
      BY <1>4, <2>1 DEF TypeInv, TypeOK, Durable!Entry
    <3>4. tmp' \in [Sid -> Durable!Entry]
      BY <1>4, <2>1, <3>2, <3>3 DEF TypeInv, TypeOK
    <3>5. SweepHeld'
      BY <1>3, <1>4, <2>1, <2>2, <3>1, GotoTypes, HeldKept DEF sweepVars
    <3>6. now' \in Nat
      BY <3>1 DEF TypeInv, TypeOK
    <3>7. /\ job' \in [Shim -> [at : Steps, sid : {{}} \cup {{r} : r \in Sid}]]
          /\ Busy'
      BY <1>3, <1>4, <2>1, <3>1, GotoTypes
    <3>8. UNCHANGED <<memory, anchored, inited, enabled, doomed, missed, unsaved>>
      BY <3>1 DEF procVars, sweepVars
    <3> QED BY <2>1, <3>4, <3>5, <3>6, <3>7, <3>8 DEF TypeInv, TypeOK, SweepHeld, At
  <2> QED BY <2>3, <2>4
<1>10. CASE Rename(p)
  <2>1. UNCHANGED now /\ ~At(p, "idle") /\ At(p, "rename")
    BY <1>10 DEF Rename, At
  <2>2. doomed[p] = {}
    BY <2>1, NoSweep DEF At
  <2>3. CASE SaveFails(p) /\ UNCHANGED <<file, tmp>>
    BY <1>7, <2>1, <2>2, <2>3 DEF TypeInv, TypeOK
  <2>4. CASE ~(SaveFails(p) /\ UNCHANGED <<file, tmp>>)
    <3>1. /\ file' = [file EXCEPT ![s] = tmp[s]] /\ tmp' = [tmp EXCEPT ![s] = Absent]
          /\ Sweep(p, file', tmp') /\ Goto(p, "saved", s)
          /\ unsaved' = unsaved \ {s} /\ UNCHANGED procVars
      BY <1>10, <2>4 DEF Rename
    <3>2. file' \in [Sid -> Durable!Entry] /\ tmp' \in [Sid -> Durable!Entry]
      BY <1>2, <1>4, <2>1, <3>1 DEF TypeInv, TypeOK
    <3>3. SweepHeld'
      BY <1>3, <1>4, <2>1, <3>1, GotoTypes, SweepTypes, HeldKept
    <3> QED BY <1>3, <1>4, <2>1, <3>1, <3>2, <3>3, GotoTypes, SweepTypes
            DEF TypeInv, TypeOK, SweepHeld, At, procVars
  <2> QED BY <2>3, <2>4
<1>11. CASE SaveDone(p)
  <2>1. /\ UNCHANGED <<dirVars, procVars, sweepVars, unsaved>> /\ doomed[p] = {}
        /\ job' = [job EXCEPT ![p] = Idle]
    BY <1>11 DEF SaveDone, Done
  <2>2. SweepHeld'
    BY <2>1, DoneTypes, HeldKept DEF sweepVars
  <2> QED BY <2>1, <2>2, DoneTypes
          DEF TypeInv, TypeOK, SweepHeld, At, dirVars, procVars, sweepVars
<1>12. CASE LoadDone(p)
  <2>1. /\ UNCHANGED <<file, tmp, now, inited, enabled, doomed, missed>>
        /\ job' = [job EXCEPT ![p] = Idle] /\ doomed[p] = {} /\ ~At(p, "idle")
    BY <1>12 DEF LoadDone, dirVars, sweepVars, Done, At
  <2>2. SweepHeld'
    BY <2>1, DoneTypes, HeldKept
  <2>3. /\ memory' \in [Shim -> [Sid -> Nat]] /\ anchored' \in [Shim -> SUBSET Sid]
        /\ unsaved' \subseteq Sid
    <3>1. CASE file[s].ver > 0
      <4>1. /\ memory' = [memory EXCEPT ![p][s] = file[s].ver]
            /\ anchored' = [anchored EXCEPT ![p] = @ \cup {s}]
            /\ unsaved' = unsaved \ {s}
        BY <1>12, <3>1 DEF LoadDone
      <4>2. file[s].ver \in Nat
        BY <1>4, <2>1 DEF TypeInv, TypeOK, Durable!Entry
      <4> QED BY <1>4, <2>1, <4>1, <4>2 DEF TypeInv, TypeOK
    <3>2. CASE ~(file[s].ver > 0)
      BY <1>12, <3>2 DEF LoadDone, TypeInv, TypeOK
    <3> QED BY <3>1, <3>2
  <2> QED BY <2>1, <2>2, <2>3, DoneTypes DEF TypeInv, TypeOK, SweepHeld, At
<1> QED BY <1>5, <1>6, <1>8, <1>9, <1>10, <1>11, <1>12 DEF Step

\* So do crashes, power cuts and the passing of time.
LEMMA TypeEnvironment ==
  ASSUME TypeInv, (\E p \in Shim : Crash(p)) \/ PowerCut \/ Tick \/ UNCHANGED vars
  PROVE  TypeInv'
<1>1. ASSUME NEW p \in Shim, Crash(p) PROVE TypeInv'
  <2>1. PICK on \in BOOLEAN : enabled' = [enabled EXCEPT ![p] = on]
    BY <1>1 DEF Crash
  <2>2. /\ UNCHANGED <<file, tmp, now, unsaved>> /\ inited' = inited \ {p}
        /\ memory' = [memory EXCEPT ![p] = [s \in Sid |-> 0]]
        /\ anchored' = [anchored EXCEPT ![p] = {}]
        /\ job' = [job EXCEPT ![p] = Idle]
        /\ doomed' = [doomed EXCEPT ![p] = {}] /\ missed' = [missed EXCEPT ![p] = {}]
    BY <1>1 DEF Crash, dirVars
  <2>3. SweepHeld'
    BY <2>2, DoneTypes, HeldKept DEF TypeInv, TypeOK
  <2> QED BY <2>1, <2>2, <2>3, DoneTypes DEF TypeInv, TypeOK, SweepHeld, At
<1>2. CASE PowerCut
  <2>1. PICK torn \in SUBSET {s \in Sid : ~file[s].synced} :
          file' = [s \in Sid |-> IF s \in torn THEN [file[s] EXCEPT !.ver = 0] ELSE file[s]]
    BY <1>2 DEF PowerCut
  <2>2. \A e \in Durable!Entry : [e EXCEPT !.ver = 0] \in Durable!Entry
    BY DEF Durable!Entry
  <2>3. file' \in [Sid -> Durable!Entry]
    BY <2>1, <2>2 DEF TypeInv, TypeOK
  <2>4. /\ memory' = [p \in Shim |-> [s \in Sid |-> 0]]
        /\ anchored' = [p \in Shim |-> {}] /\ inited' = {}
        /\ enabled' \in [Shim -> BOOLEAN]
        /\ job' = [p \in Shim |-> Idle]
        /\ doomed' = [p \in Shim |-> {}] /\ missed' = [p \in Shim |-> {}]
        /\ UNCHANGED <<tmp, now, unsaved>>
    BY <1>2 DEF PowerCut
  <2> QED BY <2>3, <2>4 DEF TypeInv, TypeOK, Busy, At, Idle, Steps
<1>3. CASE Tick
  BY <1>3 DEF Tick, procVars, sweepVars, TypeInv, TypeOK, Busy, At
<1>4. CASE UNCHANGED vars
  BY <1>4 DEF vars, dirVars, procVars, sweepVars, TypeInv, TypeOK, Busy, At
<1> QED BY <1>1, <1>2, <1>3, <1>4

\* Types and busy processes hold in every behaviour.
LEMMA TypesHold == Spec => []TypeInv
<1>1. Init => TypeInv
  <2> SUFFICES ASSUME Init PROVE TypeInv
    OBVIOUS
  <2>1. Absent \in Durable!Entry
    BY DEF Absent, Durable!Absent, Durable!Entry
  <2> QED BY <2>1 DEF Init, TypeInv, TypeOK, Busy, At, Idle, Steps
<1>2. TypeInv /\ [Next]_vars => TypeInv'
  BY TypeRequest, TypeStep, TypeEnvironment DEF Next
<1> QED BY <1>1, <1>2, PTL DEF Spec

\* Every reachable state has the stated types, however many processes share the
\* directory; what a sweep still has to delete belongs to an operation in hand.
THEOREM TypeCorrect == Spec => []TypeOK
<1>1. TypeInv => TypeOK
  BY DEF TypeInv
<1> QED BY <1>1, TypesHold, PTL
-----------------------------------------------------------------------------
(* One process on the directory.                                           *)

\* src/persist.rs:354-356 counts on it: operations are serialized, by the only
\* dispatcher there is.
OneShim == \A p, q \in Shim : p = q

Saving(p) == At(p, "create") \/ At(p, "write") \/ At(p, "rename")

\* No file is from the future, and no two files have the same mtime.
Clock == /\ now > 0
         /\ \A s \in Sid : file[s].time <= now
         /\ \A r, s \in Sid : file[r].time > 0 /\ file[r].time = file[s].time => r = s

\* What is about to be renamed is the session as it is, and newer than any file.
Ready ==
  \A p \in Shim : At(p, "rename") =>
    \A s \in job[p].sid : tmp[s].time > 0 =>
      /\ tmp[s].ver = memory[p][s] /\ tmp[s].time <= now
      /\ \A r \in Sid : file[r].time < tmp[s].time

\* Anchored sessions exist, in a process that persists; only they are saved.
Anchors ==
  \A p \in Shim :
    /\ \A s \in anchored[p] : memory[p][s] > 0 /\ enabled[p]
    /\ Saving(p) => job[p].sid \subseteq anchored[p]
    /\ At(p, "new") \/ At(p, "load") => enabled[p]

\* Each file a sweep has still to delete is old, or has Keep newer ones that the
\* sweep will spare: whatever the order of the deletions, none comes too soon.
Spared(p) == {s \in Files : <<"json", s>> \notin doomed[p]}
Justified ==
  \A p \in Shim : \A s \in Sid : <<"json", s>> \in doomed[p] =>
    /\ s \in Files
    /\ \/ now - file[s].time > MaxAge
       \/ Cardinality({r \in Spared(p) : file[r].time > file[s].time}) >= Keep

\* Once the process has swept, Keep files at most are neither doomed nor left over
\* from a deletion that failed.
Bounded ==
  \A p \in inited : Cardinality({s \in Spared(p) : <<"json", s>> \notin missed[p]}) <= Keep

\* WriteThrough, also while an operation is in hand.
Current ==
  \A p \in Shim : \A s \in Sid : memory[p][s] > 0 =>
    IF s \in anchored[p]
    THEN \/ file[s].ver = memory[p][s]
         \/ s \in unsaved \/ s \notin Files
         \/ memory[p][s] = 1
         \/ Saving(p) /\ s \in job[p].sid
    ELSE s \notin Files

StoreInv == Clock /\ Ready /\ Anchors /\ Justified /\ Bounded /\ Current
-----------------------------------------------------------------------------
(* evict_with.                                                             *)

\* Of some files one is the oldest.
LEMMA Oldest ==
  ASSUME NEW S, S # {}, NEW g, \A x \in S : g[x] \in Nat
  PROVE  \E m \in S : \A x \in S : g[m] <= g[x]
<1> DEFINE T == {g[x] : x \in S}
           R == OpToRel(<, Nat)
<1>1. IsWellFoundedOn(R, Nat)
  BY NatLessThanWellFounded
<1>2. T \subseteq Nat /\ T # {}
  OBVIOUS
<1>3. \E n \in T : \A k \in T : ~(<<k, n>> \in R)
  <2> HIDE DEF T, R
  <2> QED BY <1>1, <1>2, WFMin
<1>4. PICK n \in T : \A k \in T : ~(<<k, n>> \in R)
  BY <1>3
<1>5. \A k \in T : ~(k < n)
  BY <1>2, <1>4 DEF OpToRel
<1>6. PICK m \in S : n = g[m]
  OBVIOUS
<1> QED BY <1>2, <1>5, <1>6

\* And one the newest, for there is a latest time.
LEMMA Latest ==
  ASSUME NEW S, S # {}, NEW g, NEW b \in Nat, \A x \in S : g[x] \in Nat /\ g[x] <= b
  PROVE  \E m \in S : \A x \in S : g[x] <= g[m]
<1> DEFINE h == [x \in S |-> b - g[x]]
<1>1. \A x \in S : h[x] \in Nat
  OBVIOUS
<1>2. PICK m \in S : \A x \in S : h[m] <= h[x]
  <2> HIDE DEF h
  <2> QED BY <1>1, Oldest
<1>3. \A x \in S : g[x] <= g[m]
  BY <1>2
<1> QED BY <1>3

Times(f) == \A s \in Sid : f[s].time \in Nat /\ f[s].time <= now

\* Cardinalities of sets of sessions are numbers, and grow with the set.
LEMMA SidSets ==
  ASSUME NEW S, NEW T, S \subseteq T, T \subseteq Sid
  PROVE  Cardinality(S) \in Nat /\ Cardinality(T) \in Nat /\ Cardinality(S) <= Cardinality(T)
<1>1. IsFiniteSet(T)
  BY FS_Subset, SessionStoreAssumption
<1>2. IsFiniteSet(S) /\ Cardinality(S) <= Cardinality(T)
  BY <1>1, FS_Subset
<1> QED BY <1>1, <1>2, FS_CardinalityType

\* A file that is not among the Keep newest has Keep newer ones among them.
LEMMA NewestEnough ==
  ASSUME now \in Nat, NEW f, Times(f), NEW Y, Y \subseteq Sid, NEW s \in Y \ Newest(f, Y)
  PROVE  Cardinality({r \in Newest(f, Y) : f[r].time > f[s].time}) >= Keep
<1> DEFINE A(x) == {r \in Y : f[r].time > f[x].time}
           C == {x \in Y : Cardinality(A(x)) >= Keep /\ f[x].time >= f[s].time}
           g == [x \in C |-> f[x].time]
           G == {r \in Newest(f, Y) : f[r].time > f[s].time}
<1>1. \A x \in Y : Cardinality(A(x)) \in Nat
  BY SidSets
<1>2. \A x \in Y : x \in Newest(f, Y) <=> ~(Cardinality(A(x)) >= Keep)
  BY <1>1, SessionStoreAssumption DEF Newest
<1>3. s \in C
  BY <1>2 DEF Times
<1>4. PICK m \in C : \A x \in C : g[x] <= g[m]
  <2>1. \A x \in C : g[x] \in Nat /\ g[x] <= now
    BY DEF Times
  <2>2. C # {}
    BY <1>3
  <2> HIDE DEF C, g
  <2> QED BY <2>1, <2>2, Latest
<1>5. A(m) \subseteq G
  <2> SUFFICES ASSUME NEW r \in A(m) PROVE r \in G
    OBVIOUS
  <2>1. /\ f[r].time > f[m].time /\ f[m].time >= f[s].time
        /\ f[r].time \in Nat /\ f[m].time \in Nat /\ f[s].time \in Nat
    BY DEF Times
  <2>2. r \notin C
    BY <1>4, <2>1
  <2> QED BY <1>2, <2>1, <2>2
<1>6. Cardinality(A(m)) <= Cardinality(G) /\ Cardinality(A(m)) \in Nat /\ Cardinality(G) \in Nat
  <2>1. G \subseteq Sid
    BY DEF Newest
  <2> QED BY <1>5, <2>1, SidSets
<1> QED BY <1>4, <1>6, SessionStoreAssumption

\* And of files with different mtimes at most Keep are among the Keep newest.
LEMMA NewestBounded ==
  ASSUME NEW f, Times(f), NEW Y, Y \subseteq Sid,
         \A r, s \in Y : f[r].time = f[s].time => r = s
  PROVE  Cardinality(Newest(f, Y)) <= Keep
<1> DEFINE N == Newest(f, Y)
           A(x) == {r \in Y : f[r].time > f[x].time}
           g == [x \in N |-> f[x].time]
<1>1. N \subseteq Y
  BY DEF Newest
<1>2. CASE N = {}
  BY <1>2, FS_EmptySet, SessionStoreAssumption
<1>3. CASE N # {}
  <2>1. PICK m \in N : \A x \in N : g[m] <= g[x]
    <3>1. \A x \in N : g[x] \in Nat
      BY <1>1 DEF Times
    <3> HIDE DEF N, g
    <3> QED BY <1>3, <3>1, Oldest
  <2>2. N \ {m} \subseteq A(m)
    BY <1>1, <2>1 DEF Times
  <2>3. Cardinality(N \ {m}) <= Cardinality(A(m)) /\ Cardinality(A(m)) \in Nat
        /\ Cardinality(N \ {m}) \in Nat
    BY <2>2, SidSets
  <2>4. Cardinality(A(m)) < Keep
    BY DEF Newest
  <2>5. IsFiniteSet(N) /\ Cardinality(N) \in Nat
    BY <1>1, SessionStoreAssumption, FS_Subset, FS_CardinalityType
  <2>6. Cardinality(N \ {m}) = Cardinality(N) - 1
    BY <2>5, FS_RemoveElement
  <2> QED BY <2>3, <2>4, <2>5, <2>6, SessionStoreAssumption
<1> QED BY <1>2, <1>3

\* The files among what a sweep picks.
LEMMA DoomedFiles ==
  ASSUME NEW f, NEW t, NEW s \in Sid
  PROVE  LET young == {r \in Sid : f[r].time > 0} \ OldFiles(f)
         IN  <<"json", s>> \in Doomed(f, t) <=>
               s \in OldFiles(f) \/ s \in young \ Newest(f, young)
<1> DEFINE Left == {r \in Sid : t[r].time > 0}
           Young == {r \in Sid : f[r].time > 0} \ OldFiles(f)
           Out == OldFiles(f) \cup (Young \ Newest(f, Young))
<1>1. Doomed(f, t) = {<<"tmp", r>> : r \in Left} \cup {<<"json", r>> : r \in Out}
  BY DEF Doomed
<1>2. <<"json", s>> \in Doomed(f, t) <=> s \in Out
  <2> HIDE DEF Left, Out
  <2> QED BY <1>1
<1> QED BY <1>2

\* A sweep picks only files that are old or have Keep newer ones it spares, and
\* spares Keep at most.
LEMMA SweepPicks ==
  ASSUME now \in Nat, NEW f, Times(f), NEW t,
         \A r, s \in Sid : f[r].time > 0 /\ f[r].time = f[s].time => r = s
  PROVE  LET kept == {s \in Sid : f[s].time > 0 /\ <<"json", s>> \notin Doomed(f, t)}
         IN  /\ \A s \in Sid : <<"json", s>> \in Doomed(f, t) =>
                  /\ f[s].time > 0
                  /\ \/ now - f[s].time > MaxAge
                     \/ Cardinality({r \in kept : f[r].time > f[s].time}) >= Keep
             /\ Cardinality(kept) <= Keep
<1> DEFINE Young == {r \in Sid : f[r].time > 0} \ OldFiles(f)
           kept == {s \in Sid : f[s].time > 0 /\ <<"json", s>> \notin Doomed(f, t)}
<1>1. \A s \in Sid : <<"json", s>> \in Doomed(f, t) <=>
                       s \in OldFiles(f) \/ s \in Young \ Newest(f, Young)
  BY DoomedFiles
<1>2. kept = Newest(f, Young) /\ Newest(f, Young) \subseteq Sid
  BY <1>1 DEF Newest, OldFiles
<1>3. Cardinality(kept) <= Keep
  BY <1>2, NewestBounded
<1>4. ASSUME NEW s \in Sid, <<"json", s>> \in Doomed(f, t)
      PROVE  /\ f[s].time > 0
             /\ \/ now - f[s].time > MaxAge
                \/ Cardinality({r \in kept : f[r].time > f[s].time}) >= Keep
  <2>1. CASE s \in OldFiles(f)
    BY <2>1 DEF OldFiles
  <2>2. CASE s \in Young \ Newest(f, Young)
    <3>1. Cardinality({r \in Newest(f, Young) : f[r].time > f[s].time}) >= Keep
      BY <2>2, NewestEnough
    <3> QED BY <1>2, <2>2, <3>1
  <2> QED BY <1>1, <1>4, <2>1, <2>2
<1> QED BY <1>3, <1>4
-----------------------------------------------------------------------------
(* Every step preserves the invariant.                                     *)

\* The clock part in the words of the lemmas above.
LEMMA ClockTimes ==
  ASSUME TypeInv, Clock
  PROVE  now \in Nat /\ Times(file)
BY DEF TypeInv, TypeOK, Clock, Times, Durable!Entry

\* A sweep that starts is justified and leaves few enough files.
LEMMA SweepStarts ==
  ASSUME OneShim, TypeInv, NEW p \in Shim, NEW t, Sweep(p, file', t), now' = now,
         Times(file'), TypeOK',
         \A r, s \in Sid : file'[r].time > 0 /\ file'[r].time = file'[s].time => r = s
  PROVE  Justified' /\ Bounded'
<1>1. doomed'[p] = Doomed(file', t) /\ missed'[p] = {}
  BY DEF Sweep, TypeInv, TypeOK
<1>2. Spared(p)' = {s \in Sid : file'[s].time > 0 /\ <<"json", s>> \notin Doomed(file', t)}
  BY <1>1 DEF Spared, Files, Durable!Files
<1>3. now \in Nat
  BY DEF TypeInv, TypeOK
<1>4. /\ \A s \in Sid : <<"json", s>> \in doomed'[p] =>
           /\ file'[s].time > 0
           /\ \/ now' - file'[s].time > MaxAge
              \/ Cardinality({r \in Spared(p)' : file'[r].time > file'[s].time}) >= Keep
      /\ Cardinality(Spared(p)') <= Keep
  BY <1>1, <1>2, <1>3, SweepPicks
<1>5. {s \in Spared(p)' : <<"json", s>> \notin missed'[p]} = Spared(p)'
  BY <1>1
<1>6. \A q \in Shim : q = p
  BY DEF OneShim
<1>7. Justified'
  BY <1>4, <1>6 DEF Justified, Files, Durable!Files
<1>8. Bounded'
  <2>1. \A q \in inited' : q = p
    BY <1>6 DEF TypeOK
  <2> QED BY <1>4, <1>5, <2>1 DEF Bounded
<1> QED BY <1>7, <1>8

\* Nor does time undo what a sweep is entitled to.
LEMMA SweepStays ==
  ASSUME TypeInv, UNCHANGED <<file, doomed, missed>>, now' \in Nat, now' >= now,
         inited' \subseteq inited, Justified, Bounded
  PROVE  Justified' /\ Bounded'
<1>1. \A q \in Shim : Spared(q)' = Spared(q)
  BY DEF Spared, Files, Durable!Files
<1>2. \A s \in Sid : now - file[s].time > MaxAge => now' - file'[s].time > MaxAge
  <2>1. now \in Nat /\ \A s \in Sid : file[s].time \in Nat
    BY DEF TypeInv, TypeOK, Durable!Entry
  <2> QED BY <2>1, SessionStoreAssumption
<1>3. Justified'
  BY <1>1, <1>2 DEF Justified, Files, Durable!Files
<1>4. inited \subseteq Shim
  BY DEF TypeInv, TypeOK
<1> QED BY <1>1, <1>3, <1>4 DEF Bounded

\* The sweep of the first use, if it is the first.
LEMMA FirstUseSweeps ==
  ASSUME OneShim, TypeInv, TypeOK', NEW p \in Shim, FirstUse(p), Clock, Justified, Bounded,
         UNCHANGED <<file, now>>
  PROVE  Justified' /\ Bounded'
<1>1. Times(file') /\ \A r, s \in Sid : file'[r].time > 0 /\ file'[r].time = file'[s].time => r = s
  BY ClockTimes DEF Times, Clock
<1>2. CASE p \in inited
  <2>1. UNCHANGED <<doomed, missed>> /\ inited' = inited
    BY <1>2 DEF FirstUse, sweepVars
  <2>2. now \in Nat
    BY DEF TypeInv, TypeOK
  <2> QED BY <2>1, <2>2, SweepStays
<1>3. CASE p \notin inited
  <2>1. Sweep(p, file', tmp)
    BY <1>3 DEF FirstUse
  <2> QED BY <1>1, <2>1, SweepStarts
<1> QED BY <1>2, <1>3

\* Requests.
LEMMA StoreRequest ==
  ASSUME OneShim, TypeInv, TypeInv', StoreInv, NEW p \in Shim, Request(p)
  PROVE  StoreInv'
<1>1. PICK s \in Sid : New(p, s) \/ Change(p, s) \/ Load(p, s)
  BY DEF Request
<1>2. \A q \in Shim : q = p
  BY DEF OneShim
<1>3. At(p, "idle") /\ ~Saving(p) /\ UNCHANGED <<file, tmp, now>>
  BY <1>1 DEF New, Change, Load, dirVars, At, Saving
<1>4. now \in Nat /\ now' >= now
  BY <1>3 DEF TypeInv, TypeOK
<1>5. Clock'
  BY <1>3 DEF StoreInv, Clock
<1>6. CASE New(p, s) /\ Goto(p, "new", s)
  <2>1. /\ FirstUse(p) /\ UNCHANGED <<memory, anchored, enabled>>
        /\ unsaved' = unsaved \ {s} /\ memory[p][s] = 0 /\ enabled[p]
    <3>1. job' # job
      BY <1>3, <1>6 DEF Goto, At, TypeInv, TypeOK
    <3> QED BY <1>6, <3>1 DEF New, Fresh, resolve_storage_dir, At
  <2>2. job'[p].at = "new" /\ job'[p].sid = {s}
    BY <1>6 DEF Goto, TypeInv, TypeOK
  <2>3. Justified' /\ Bounded'
    BY <1>3, <2>1, FirstUseSweeps DEF StoreInv, TypeInv
  <2>4. Ready'
    BY <1>2, <2>2 DEF Ready, At
  <2>5. Anchors'
    BY <1>2, <2>1, <2>2 DEF StoreInv, Anchors, At, Saving
  <2>6. Current'
    BY <1>2, <1>3, <2>1 DEF StoreInv, Current, Files, Durable!Files
  <2> QED BY <1>5, <2>3, <2>4, <2>5, <2>6 DEF StoreInv
<1>7. CASE New(p, s) /\ UNCHANGED <<inited, sweepVars, job>>
  <2>1. /\ memory' = [memory EXCEPT ![p][s] = 1] /\ UNCHANGED <<anchored, enabled>>
        /\ unsaved' = unsaved \ {s} /\ memory[p][s] = 0 /\ file[s].time = 0
    <3>1. ~Goto(p, "new", s)
      BY <1>3, <1>7 DEF Goto, At, TypeInv, TypeOK
    <3> QED BY <1>7, <3>1 DEF New, Fresh
  <2>2. s \notin anchored[p] /\ s \notin Files
    BY <2>1 DEF StoreInv, Anchors, Files, Durable!Files
  <2>3. /\ \A r \in Sid \ {s} : memory'[p][r] = memory[p][r]
        /\ memory'[p][s] = 1
    BY <2>1 DEF TypeInv, TypeOK
  <2>4. Justified' /\ Bounded'
    BY <1>3, <1>4, <1>7, SweepStays DEF StoreInv, sweepVars
  <2>5. Ready'
    BY <1>2, <1>3, <1>7 DEF Ready, At
  <2>6. Anchors'
    BY <1>2, <1>3, <1>7, <2>1, <2>2, <2>3 DEF StoreInv, Anchors, At, Saving, TypeInv, TypeOK
  <2>7. Current'
    BY <1>2, <1>3, <2>1, <2>2, <2>3 DEF StoreInv, Current, Files, Durable!Files
  <2> QED BY <1>5, <2>4, <2>5, <2>6, <2>7 DEF StoreInv
<1>8. CASE Change(p, s)
  <2>1. /\ memory' = [memory EXCEPT ![p][s] = @ + 1] /\ memory[p][s] > 0
        /\ UNCHANGED <<anchored, inited, enabled, sweepVars, unsaved>>
        /\ IF s \in anchored[p] THEN Goto(p, "create", s) ELSE UNCHANGED job
    BY <1>8 DEF Change
  <2>2. /\ \A r \in Sid \ {s} : memory'[p][r] = memory[p][r]
        /\ memory'[p][s] > 0
    BY <2>1 DEF TypeInv, TypeOK
  <2>3. IF s \in anchored[p] THEN job'[p].at = "create" /\ job'[p].sid = {s}
                             ELSE job'[p] = job[p]
    BY <2>1 DEF Goto, TypeInv, TypeOK
  <2>4. Justified' /\ Bounded'
    BY <1>3, <1>4, <2>1, SweepStays DEF StoreInv, sweepVars
  <2>5. Ready'
    BY <1>2, <1>3, <2>3 DEF Ready, At
  <2>6. Anchors'
    BY <1>2, <1>3, <2>1, <2>2, <2>3 DEF StoreInv, Anchors, At, Saving, TypeInv, TypeOK
  <2>7. Current'
    BY <1>2, <1>3, <2>1, <2>2, <2>3 DEF StoreInv, Current, Files, Durable!Files, Saving, At
  <2> QED BY <1>5, <2>4, <2>5, <2>6, <2>7 DEF StoreInv
<1>9. CASE Load(p, s)
  <2>1. /\ FirstUse(p) /\ UNCHANGED <<memory, anchored, enabled, unsaved>> /\ enabled[p]
        /\ job'[p].at = "load"
    BY <1>9 DEF Load, resolve_storage_dir, Goto, TypeInv, TypeOK
  <2>2. Justified' /\ Bounded'
    BY <1>3, <2>1, FirstUseSweeps DEF StoreInv, TypeInv
  <2>3. Ready'
    BY <1>2, <2>1 DEF Ready, At
  <2>4. Anchors'
    BY <1>2, <2>1 DEF StoreInv, Anchors, At, Saving
  <2>5. Current'
    BY <1>2, <1>3, <2>1 DEF StoreInv, Current, Files, Durable!Files
  <2> QED BY <1>5, <2>2, <2>3, <2>4, <2>5 DEF StoreInv
<1>10. New(p, s) => Goto(p, "new", s) \/ UNCHANGED <<inited, sweepVars, job>>
  BY DEF New
<1> QED BY <1>1, <1>6, <1>7, <1>8, <1>9, <1>10

\* A write that fails is remembered as such.
LEMMA StoreFails ==
  ASSUME OneShim, TypeInv, StoreInv, NEW p \in Shim, SaveFails(p), UNCHANGED file,
         ~At(p, "idle"), now' \in Nat, now' >= now
  PROVE  StoreInv'
<1>1. /\ UNCHANGED <<memory, anchored, inited, enabled, doomed, missed>>
      /\ job'[p].at = "idle" /\ unsaved' = unsaved \cup job[p].sid
  BY DEF SaveFails, Done, procVars, sweepVars, Idle, TypeInv, TypeOK
<1>2. \A q \in Shim : q = p
  BY DEF OneShim
<1>3. Clock'
  BY DEF StoreInv, Clock, TypeInv, TypeOK, Durable!Entry
<1>4. Ready'
  BY <1>1, <1>2 DEF Ready, At
<1>5. Anchors'
  BY <1>1, <1>2 DEF StoreInv, Anchors, At, Saving
<1>6. Justified' /\ Bounded'
  BY <1>1, SweepStays DEF StoreInv
<1>7. Current'
  BY <1>1, <1>2 DEF StoreInv, Current, Files, Durable!Files
<1> QED BY <1>3, <1>4, <1>5, <1>6, <1>7 DEF StoreInv

\* The end of an operation, which leaves nothing to delete.
LEMMA StoreEnds ==
  ASSUME OneShim, TypeInv, StoreInv, NEW p \in Shim, NewDone(p) \/ SaveDone(p) \/ LoadDone(p)
  PROVE  StoreInv'
<1> DEFINE s == TheSid(p)
<1>1. /\ UNCHANGED <<file, tmp, now, inited, enabled, doomed, missed>>
      /\ job'[p].at = "idle" /\ ~At(p, "idle") /\ ~Saving(p)
  BY DEF NewDone, SaveDone, LoadDone, Done, dirVars, procVars, sweepVars, Idle, At, Saving,
         TypeInv, TypeOK
<1>2. \A q \in Shim : q = p
  BY DEF OneShim
<1>3. s \in Sid
  BY <1>1, TheSidType
<1>4. Clock' /\ Ready'
  BY <1>1, <1>2 DEF StoreInv, Clock, Ready, At
<1>5. Justified' /\ Bounded'
  <2>1. now' \in Nat /\ now' >= now
    BY <1>1 DEF TypeInv, TypeOK
  <2> QED BY <1>1, <2>1, SweepStays DEF StoreInv
<1>6. CASE SaveDone(p) \/ (LoadDone(p) /\ ~(file[s].ver > 0))
  <2>1. UNCHANGED <<memory, anchored, unsaved>>
    BY <1>6 DEF SaveDone, LoadDone, procVars
  <2>2. Anchors'
    BY <1>1, <1>2, <2>1 DEF StoreInv, Anchors, At, Saving
  <2>3. Current'
    BY <1>1, <1>2, <2>1 DEF StoreInv, Current, Files, Durable!Files
  <2> QED BY <1>4, <1>5, <2>2, <2>3 DEF StoreInv
<1>7. CASE NewDone(p) \/ (LoadDone(p) /\ file[s].ver > 0)
  <2>1. PICK v \in Nat :
          /\ memory' = [memory EXCEPT ![p][s] = v] /\ v > 0
          /\ v = 1 \/ v = file[s].ver
          /\ anchored' = [anchored EXCEPT ![p] = @ \cup {s}]
          /\ unsaved' \in {unsaved, unsaved \ {s}}
    <3>1. file[s].ver \in Nat
      BY <1>3 DEF TypeInv, TypeOK, Durable!Entry
    <3>2. CASE NewDone(p)
      <4>1. /\ memory' = [memory EXCEPT ![p][s] = 1] /\ unsaved' = unsaved
            /\ anchored' = [anchored EXCEPT ![p] = @ \cup {s}]
        BY <3>2 DEF NewDone
      <4> HIDE DEF s
      <4> QED BY <4>1, 1 \in Nat, 1 > 0
    <3>3. CASE LoadDone(p) /\ file[s].ver > 0
      BY <3>1, <3>3 DEF LoadDone
    <3> QED BY <1>7, <3>2, <3>3
  <2>2. enabled[p]
    BY <1>7 DEF NewDone, LoadDone, StoreInv, Anchors
  <2>3. /\ \A r \in Sid \ {s} : memory'[p][r] = memory[p][r]
        /\ memory'[p][s] = v /\ anchored'[p] = anchored[p] \cup {s}
    BY <1>3, <2>1 DEF TypeInv, TypeOK
  <2>4. Anchors'
    BY <1>1, <1>2, <2>1, <2>2, <2>3 DEF StoreInv, Anchors, At, Saving, TypeInv, TypeOK
  <2>5. Current'
    <3> SUFFICES ASSUME NEW r \in Sid, memory'[p][r] > 0
                 PROVE  IF r \in anchored'[p]
                        THEN \/ file'[r].ver = memory'[p][r]
                             \/ r \in unsaved' \/ r \notin Files'
                             \/ memory'[p][r] = 1
                        ELSE r \notin Files'
      BY <1>2 DEF Current
    <3>1. CASE r = s
      BY <1>1, <2>1, <2>3, <3>1
    <3>2. CASE r # s
      BY <1>1, <2>1, <2>3, <3>2 DEF StoreInv, Current, Files, Durable!Files
    <3> QED BY <3>1, <3>2
  <2> QED BY <1>4, <1>5, <2>4, <2>5 DEF StoreInv
<1> QED BY <1>6, <1>7

\* Deleting one file of a sweep: the files it spares stay, and one it cannot delete
\* no longer counts.
LEMMA StoreSweepOne ==
  ASSUME OneShim, TypeInv, TypeInv', StoreInv, NEW p \in Shim, SweepOne(p)
  PROVE  StoreInv'
<1>1. PICK d \in doomed[p] :
        /\ doomed' = [doomed EXCEPT ![p] = @ \ {d}]
        /\ \/ /\ file' = IF d[1] = "json" THEN [file EXCEPT ![d[2]] = Absent] ELSE file
              /\ tmp' = IF d[1] = "tmp" THEN [tmp EXCEPT ![d[2]] = Absent] ELSE tmp
              /\ UNCHANGED missed
           \/ /\ missed' = [missed EXCEPT ![p] = @ \cup {d}]
              /\ UNCHANGED <<file, tmp>>
  BY DEF SweepOne
<1>2. UNCHANGED <<now, memory, anchored, inited, enabled, job, unsaved>>
  BY DEF SweepOne, procVars
<1>3. \A q \in Shim : q = p
  BY DEF OneShim
<1>4. ~Saving(p) /\ d \in Doom
  BY <1>1 DEF TypeInv, TypeOK, At, Saving
<1>5. PICK k \in {"tmp", "json"}, s \in Sid : d = <<k, s>>
  BY <1>4 DEF Doom
<1>6. Absent.time = 0 /\ Absent.ver = 0
  BY DEF Absent, Durable!Absent
<1>7. \A r \in Sid : file'[r] = file[r] \/ (k = "json" /\ r = s /\ file'[r] = Absent)
  BY <1>1, <1>5 DEF TypeInv, TypeOK
<1>8. doomed'[p] = doomed[p] \ {d}
  BY <1>1 DEF TypeInv, TypeOK
<1>9. now \in Nat /\ \A r \in Sid : file[r].time \in Nat
  BY DEF TypeInv, TypeOK, Durable!Entry
<1>10. Clock'
  BY <1>2, <1>6, <1>7, <1>9 DEF StoreInv, Clock
<1>11. Ready' /\ Anchors'
  BY <1>2, <1>3, <1>4 DEF StoreInv, Ready, Anchors, At, Saving
<1>12. Current'
  <2>1. \A r \in Sid : file'[r] = file[r] \/ r \notin Files'
    BY <1>6, <1>7 DEF Files, Durable!Files
  <2> QED BY <1>2, <1>6, <1>7, <2>1 DEF StoreInv, Current, Files, Durable!Files, Saving, At
<1>13. CASE k = "json"
  <2>1. CASE file'[s] = Absent /\ UNCHANGED missed
    <3>1. Spared(p)' = Spared(p) /\ Files' = Files \ {s}
      BY <1>5, <1>6, <1>7, <1>8, <1>13, <2>1 DEF Spared, Files, Durable!Files, StoreInv, Justified
    <3>2. \A r \in Spared(p) : file'[r] = file[r]
      BY <1>1, <1>5, <1>7, <1>13 DEF Spared, Files, Durable!Files
    <3>3. \A r \in Sid : <<"json", r>> \in doomed'[p] =>
            <<"json", r>> \in doomed[p] /\ r # s /\ file'[r] = file[r]
      BY <1>5, <1>7, <1>8, <1>13
    <3>4. Justified'
      <4> SUFFICES ASSUME NEW r \in Sid, <<"json", r>> \in doomed'[p]
                   PROVE  /\ r \in Files'
                          /\ \/ now' - file'[r].time > MaxAge
                             \/ Cardinality({x \in Spared(p)' : file'[x].time > file'[r].time}) >= Keep
        BY <1>3 DEF Justified
      <4>1. {x \in Spared(p)' : file'[x].time > file'[r].time}
              = {x \in Spared(p) : file[x].time > file[r].time}
        BY <3>1, <3>2, <3>3
      <4>2. /\ r \in Files
            /\ \/ now - file[r].time > MaxAge
               \/ Cardinality({x \in Spared(p) : file[x].time > file[r].time}) >= Keep
        BY <3>3 DEF StoreInv, Justified
      <4> QED BY <1>2, <3>1, <3>3, <4>1, <4>2
    <3>5. Bounded'
      BY <1>2, <1>3, <2>1, <3>1 DEF StoreInv, Bounded, TypeInv, TypeOK
    <3> QED BY <1>10, <1>11, <1>12, <3>4, <3>5 DEF StoreInv
  <2>2. CASE UNCHANGED file /\ missed' = [missed EXCEPT ![p] = @ \cup {d}]
    <3>1. Spared(p) \subseteq Spared(p)' /\ Files' = Files /\ Spared(p)' \subseteq Sid
      BY <1>8, <2>2 DEF Spared, Files, Durable!Files
    <3>2. missed'[p] = missed[p] \cup {d}
      BY <2>2 DEF TypeInv, TypeOK
    <3>3. Justified'
      <4> SUFFICES ASSUME NEW r \in Sid, <<"json", r>> \in doomed'[p]
                   PROVE  /\ r \in Files'
                          /\ \/ now' - file'[r].time > MaxAge
                             \/ Cardinality({x \in Spared(p)' : file'[x].time > file'[r].time}) >= Keep
        BY <1>3 DEF Justified
      <4>1. /\ r \in Files
            /\ \/ now - file[r].time > MaxAge
               \/ Cardinality({x \in Spared(p) : file[x].time > file[r].time}) >= Keep
        BY <1>8 DEF StoreInv, Justified
      <4> DEFINE G == {x \in Spared(p) : file[x].time > file[r].time}
                 H == {x \in Spared(p)' : file'[x].time > file'[r].time}
      <4>2. G \subseteq H /\ H \subseteq Sid
        BY <2>2, <3>1
      <4>3. Cardinality(G) \in Nat /\ Cardinality(H) \in Nat /\ Cardinality(G) <= Cardinality(H)
        BY <4>2, SidSets
      <4> QED BY <1>2, <2>2, <3>1, <4>1, <4>3, SessionStoreAssumption
    <3>4. Bounded'
      <4>1. {r \in Spared(p)' : <<"json", r>> \notin missed'[p]}
              \subseteq {r \in Spared(p) : <<"json", r>> \notin missed[p]}
        BY <1>5, <1>8, <1>13, <2>2, <3>2 DEF Spared, Files, Durable!Files
      <4>2. {r \in Spared(p) : <<"json", r>> \notin missed[p]} \subseteq Sid
        BY DEF Spared, Files, Durable!Files
      <4> DEFINE G == {r \in Spared(p)' : <<"json", r>> \notin missed'[p]}
                 H == {r \in Spared(p) : <<"json", r>> \notin missed[p]}
      <4>3. Cardinality(G) \in Nat /\ Cardinality(H) \in Nat /\ Cardinality(G) <= Cardinality(H)
        <5> HIDE DEF G, H
        <5> QED BY <4>1, <4>2, SidSets DEF G, H
      <4>4. p \in inited => Cardinality(H) <= Keep
        BY DEF StoreInv, Bounded
      <4>5. p \in inited' => Cardinality(G) <= Keep
        BY <1>2, <4>3, <4>4, SessionStoreAssumption
      <4>6. inited' \subseteq Shim
        BY DEF TypeInv, TypeOK
      <4> QED BY <1>3, <4>5, <4>6 DEF Bounded
    <3> QED BY <1>10, <1>11, <1>12, <3>3, <3>4 DEF StoreInv
  <2> QED BY <1>1, <1>5, <1>13, <2>1, <2>2 DEF TypeInv, TypeOK
<1>14. CASE k = "tmp"
  <2>1. UNCHANGED file
    BY <1>1, <1>5, <1>14
  <2>2. Spared(p)' = Spared(p)
    BY <1>5, <1>8, <1>14, <2>1 DEF Spared, Files, Durable!Files
  <2>3. Justified'
    BY <1>2, <1>3, <1>8, <2>1, <2>2 DEF StoreInv, Justified, Files, Durable!Files
  <2>4. \A r \in Sid : <<"json", r>> \in missed'[p] <=> <<"json", r>> \in missed[p]
    BY <1>1, <1>5, <1>14 DEF TypeInv, TypeOK
  <2>5. {r \in Spared(p)' : <<"json", r>> \notin missed'[p]}
          = {r \in Spared(p) : <<"json", r>> \notin missed[p]}
    BY <2>2, <2>4 DEF Spared, Files, Durable!Files
  <2>6. Bounded'
    BY <1>2, <1>3, <2>5 DEF StoreInv, Bounded, TypeInv, TypeOK
  <2> QED BY <1>10, <1>11, <1>12, <2>3, <2>6 DEF StoreInv
<1> QED BY <1>13, <1>14

\* Writing the temporary file: what is written is the session as it is.
LEMMA StoreWrites ==
  ASSUME OneShim, TypeInv, TypeInv', StoreInv, NEW p \in Shim, CreateTmp(p) \/ WriteTmp(p)
  PROVE  StoreInv'
<1> DEFINE s == TheSid(p)
<1>1. UNCHANGED file /\ Saving(p) /\ ~At(p, "idle")
  BY DEF CreateTmp, WriteTmp, At, Saving
<1>2. \A q \in Shim : q = p
  BY DEF OneShim
<1>3. s \in Sid /\ job[p].sid = {s}
  BY <1>1, TheSidType
<1>4. now \in Nat /\ \A r \in Sid : file[r].time \in Nat
  BY DEF TypeInv, TypeOK, Durable!Entry
<1>5. CASE SaveFails(p)
  <2>1. now' \in Nat /\ now' >= now
    BY <1>4 DEF CreateTmp, WriteTmp
  <2> QED BY <1>1, <1>5, <2>1, StoreFails
<1>6. CASE ~SaveFails(p)
  <2>1. /\ UNCHANGED <<memory, anchored, inited, enabled, doomed, missed, unsaved>>
        /\ now' \in Nat /\ now' >= now
        /\ Goto(p, "write", s) \/ (Goto(p, "rename", s) /\ WriteTmp(p))
    BY <1>4, <1>6 DEF CreateTmp, WriteTmp, procVars, sweepVars
  <2>2. job'[p].sid = {s} /\ Saving(p)'
    BY <2>1 DEF Goto, Saving, At, TypeInv, TypeOK
  <2>3. Clock'
    BY <1>1, <1>4, <2>1 DEF StoreInv, Clock
  <2>4. Justified' /\ Bounded'
    BY <1>1, <2>1, SweepStays DEF StoreInv
  <2>5. Anchors'
    BY <1>1, <1>2, <1>3, <2>1, <2>2 DEF StoreInv, Anchors, At, Saving
  <2>6. Current'
    BY <1>1, <1>2, <1>3, <2>1, <2>2 DEF StoreInv, Current, Files, Durable!Files
  <2>7. Ready'
    <3>1. CASE Goto(p, "write", s)
      <4>1. job'[p].at = "write"
        BY <3>1 DEF Goto, TypeInv, TypeOK
      <4> QED BY <1>2, <4>1 DEF Ready, At
    <3>2. CASE WriteTmp(p)
      <4>1. now' = now + 1
        BY <1>6, <3>2 DEF WriteTmp
      <4>2. PICK synced \in BOOLEAN :
              tmp' = [tmp EXCEPT ![s] =
                IF @.time = 0 THEN @
                ELSE [ver |-> memory[p][s], time |-> now + 1, synced |-> synced]]
        BY <1>6, <3>2 DEF WriteTmp
      <4>3. tmp'[s].time > 0 => tmp'[s].ver = memory[p][s] /\ tmp'[s].time = now'
        BY <1>3, <4>1, <4>2 DEF TypeInv, TypeOK
      <4>4. \A r \in Sid : file'[r].time < now'
        BY <1>1, <1>4, <4>1 DEF StoreInv, Clock
      <4> QED BY <1>2, <2>1, <2>2, <4>3, <4>4 DEF Ready
    <3> QED BY <2>1, <3>1, <3>2
  <2> QED BY <2>3, <2>4, <2>5, <2>6, <2>7 DEF StoreInv
<1> QED BY <1>5, <1>6

\* The rename puts the session as it is in place, and starts a sweep.
LEMMA StoreRename ==
  ASSUME OneShim, TypeInv, TypeInv', StoreInv, NEW p \in Shim, Rename(p)
  PROVE  StoreInv'
<1> DEFINE s == TheSid(p)
<1>1. At(p, "rename") /\ ~At(p, "idle") /\ Saving(p) /\ now' = now
  BY DEF Rename, At, Saving
<1>2. \A q \in Shim : q = p
  BY DEF OneShim
<1>3. s \in Sid /\ job[p].sid = {s}
  BY <1>1, TheSidType
<1>4. now \in Nat /\ \A r \in Sid : file[r].time \in Nat
  BY DEF TypeInv, TypeOK, Durable!Entry
<1>5. CASE SaveFails(p) /\ UNCHANGED <<file, tmp>>
  BY <1>1, <1>4, <1>5, StoreFails
<1>6. CASE ~(SaveFails(p) /\ UNCHANGED <<file, tmp>>)
  <2>1. /\ tmp[s].time > 0 /\ file' = [file EXCEPT ![s] = tmp[s]]
        /\ Sweep(p, file', tmp') /\ Goto(p, "saved", s)
        /\ unsaved' = unsaved \ {s} /\ UNCHANGED <<memory, anchored, inited, enabled>>
    BY <1>6 DEF Rename, procVars
  <2>2. /\ tmp[s].ver = memory[p][s] /\ tmp[s].time <= now
        /\ \A r \in Sid : file[r].time < tmp[s].time
    BY <1>1, <1>3, <2>1 DEF StoreInv, Ready
  <2>3. file'[s] = tmp[s] /\ \A r \in Sid \ {s} : file'[r] = file[r]
    BY <1>3, <2>1 DEF TypeInv, TypeOK
  <2>4. job'[p].at = "saved"
    BY <2>1 DEF Goto, TypeInv, TypeOK
  <2>5. tmp[s].time \in Nat
    BY <1>3 DEF TypeInv, TypeOK, Durable!Entry
  <2>6. Clock'
    BY <1>1, <1>4, <2>2, <2>3, <2>5 DEF StoreInv, Clock
  <2>7. Times(file')
    BY <1>4, <2>2, <2>3, <2>5 DEF StoreInv, Clock, Times
  <2>8. Justified' /\ Bounded'
    <3>1. TypeOK'
      BY DEF TypeInv
    <3> QED BY <1>1, <2>1, <2>6, <2>7, <3>1, SweepStarts DEF Clock
  <2>9. Ready'
    BY <1>2, <2>4 DEF Ready, At
  <2>10. Anchors'
    BY <1>2, <2>1, <2>4 DEF StoreInv, Anchors, At, Saving
  <2>11. Current'
    <3> SUFFICES ASSUME NEW r \in Sid, memory[p][r] > 0
                 PROVE  IF r \in anchored[p]
                        THEN \/ file'[r].ver = memory[p][r]
                             \/ r \in unsaved' \/ r \notin Files'
                             \/ memory[p][r] = 1
                        ELSE r \notin Files'
      BY <1>2, <2>1 DEF Current
    <3>1. CASE r = s
      BY <1>1, <1>3, <2>2, <2>3, <3>1 DEF StoreInv, Anchors
    <3>2. CASE r # s
      BY <1>3, <2>1, <2>3, <3>2 DEF StoreInv, Current, Files, Durable!Files
    <3> QED BY <3>1, <3>2
  <2> QED BY <2>6, <2>8, <2>9, <2>10, <2>11 DEF StoreInv
<1> QED BY <1>5, <1>6

\* Crashes, power cuts and the passing of time.
LEMMA StoreEnvironment ==
  ASSUME OneShim, TypeInv, TypeInv', StoreInv,
         (\E p \in Shim : Crash(p)) \/ PowerCut \/ Tick \/ UNCHANGED vars
  PROVE  StoreInv'
<1>1. now \in Nat /\ \A r \in Sid : file[r].time \in Nat
  BY DEF TypeInv, TypeOK, Durable!Entry
<1>2. CASE (\E p \in Shim : Crash(p)) \/ PowerCut
  <2>1. /\ now' = now /\ inited' = {}
        /\ \A q \in Shim : /\ anchored'[q] = {} /\ job'[q].at = "idle" /\ doomed'[q] = {}
                           /\ \A r \in Sid : memory'[q][r] = 0
    <3>1. ASSUME NEW p \in Shim, Crash(p)
          PROVE  /\ now' = now /\ inited' = {}
                 /\ anchored'[p] = {} /\ job'[p].at = "idle" /\ doomed'[p] = {}
                 /\ \A r \in Sid : memory'[p][r] = 0
      <4>1. inited' = inited \ {p} /\ inited \subseteq Shim
        BY <3>1 DEF Crash, TypeInv, TypeOK
      <4>2. inited' = {}
        BY <4>1 DEF OneShim
      <4> QED BY <3>1, <4>2 DEF Crash, dirVars, Idle, TypeInv, TypeOK
    <3>2. CASE PowerCut
      BY <3>2 DEF PowerCut, Idle
    <3> QED BY <1>2, <3>1, <3>2 DEF OneShim
  <2>2. \A r \in Sid : file'[r].time = file[r].time
    <3>1. CASE PowerCut
      BY <3>1 DEF PowerCut, TypeInv, TypeOK, Durable!Entry
    <3>2. CASE \E p \in Shim : Crash(p)
      BY <3>2 DEF Crash, dirVars
    <3> QED BY <1>2, <3>1, <3>2
  <2>3. Clock'
    BY <2>1, <2>2 DEF StoreInv, Clock
  <2>4. Ready' /\ Anchors'
    BY <2>1 DEF Ready, Anchors, At, Saving
  <2>5. Justified' /\ Bounded' /\ Current'
    BY <2>1 DEF Justified, Bounded, Current
  <2> QED BY <2>3, <2>4, <2>5 DEF StoreInv
<1>3. CASE Tick \/ UNCHANGED vars
  <2>1. /\ UNCHANGED <<file, tmp, memory, anchored, inited, enabled, doomed, missed, job, unsaved>>
        /\ now' \in Nat /\ now' >= now
        /\ now' = now \/ \A p \in Shim : At(p, "idle")
    BY <1>1, <1>3 DEF Tick, vars, dirVars, procVars, sweepVars
  <2>2. Clock'
    BY <1>1, <2>1 DEF StoreInv, Clock
  <2>3. Ready'
    BY <2>1 DEF StoreInv, Ready, At
  <2>4. Anchors'
    BY <2>1 DEF StoreInv, Anchors, At, Saving
  <2>5. Justified' /\ Bounded'
    BY <2>1, SweepStays DEF StoreInv
  <2>6. Current'
    BY <2>1 DEF StoreInv, Current, Files, Durable!Files, Saving, At
  <2> QED BY <2>2, <2>3, <2>4, <2>5, <2>6 DEF StoreInv
<1> QED BY <1>2, <1>3

\* The invariant of one process, in every behaviour.
LEMMA StoreHolds ==
  ASSUME OneShim
  PROVE  Spec => [](TypeInv /\ StoreInv)
<1>1. Init => StoreInv
  <2> SUFFICES ASSUME Init PROVE StoreInv
    OBVIOUS
  <2>1. Absent.time = 0
    BY DEF Absent, Durable!Absent
  <2>2. /\ \A s \in Sid : file[s].time = 0
        /\ now = 1 /\ inited = {}
        /\ \A p \in Shim : /\ anchored[p] = {} /\ job[p].at = "idle" /\ doomed[p] = {}
                           /\ \A s \in Sid : memory[p][s] = 0
    BY <2>1 DEF Init, Idle
  <2>3. Clock
    BY <2>2 DEF Clock
  <2>4. Ready /\ Anchors /\ Justified /\ Bounded /\ Current
    BY <2>2 DEF Ready, Anchors, Justified, Bounded, Current, At, Saving
  <2> QED BY <2>3, <2>4 DEF StoreInv
<1>2. TypeInv /\ TypeInv' /\ StoreInv /\ [Next]_vars => StoreInv'
  <2> SUFFICES ASSUME TypeInv, TypeInv', StoreInv, [Next]_vars PROVE StoreInv'
    OBVIOUS
  <2>1. ASSUME NEW p \in Shim, Request(p) PROVE StoreInv'
    BY <2>1, StoreRequest
  <2>2. ASSUME NEW p \in Shim, Step(p) PROVE StoreInv'
    BY <2>2, StoreSweepOne, StoreEnds, StoreWrites, StoreRename DEF Step
  <2>3. CASE (\E p \in Shim : Crash(p)) \/ PowerCut \/ Tick \/ UNCHANGED vars
    BY <2>3, StoreEnvironment
  <2> QED BY <2>1, <2>2, <2>3 DEF Next
<1> QED BY <1>1, <1>2, TypesHold, PTL DEF Spec
-----------------------------------------------------------------------------
(* What the invariant gives.                                               *)

\* With one process the directory holds Keep files between operations, but for the
\* files a sweep failed to delete, however the operations before were cut short.
THEOREM DirectoryBounded ==
  ASSUME OneShim
  PROVE  Spec => []DirBounded
<1>1. TypeInv /\ StoreInv => DirBounded
  <2> SUFFICES ASSUME TypeInv, StoreInv, NEW p \in inited, At(p, "idle")
               PROVE  Cardinality({s \in Files : <<"json", s>> \notin missed[p]}) <= Keep
    BY DEF DirBounded
  <2>1. p \in Shim
    BY DEF TypeInv, TypeOK
  <2>2. doomed[p] = {}
    BY <2>1, NoSweep DEF At
  <2>3. Spared(p) = Files
    BY <2>2 DEF Spared
  <2> QED BY <2>3 DEF StoreInv, Bounded
<1> QED BY <1>1, StoreHolds, PTL

\* With one process the file of a session is the session, between operations: no
\* sequence of turns, loads, crashes and failed writes leaves an older one unnoticed.
THEOREM WrittenThrough ==
  ASSUME OneShim
  PROVE  Spec => []WriteThrough
<1>1. StoreInv => WriteThrough
  <2> SUFFICES ASSUME StoreInv, NEW p \in Shim, At(p, "idle"), NEW s \in Sid, memory[p][s] > 0
               PROVE  IF s \in anchored[p]
                      THEN /\ enabled[p]
                           /\ \/ file[s].ver = memory[p][s]
                              \/ s \in unsaved \/ s \notin Files
                              \/ memory[p][s] = 1
                      ELSE s \notin Files
    BY DEF WriteThrough
  <2>1. ~Saving(p)
    BY DEF Saving, At
  <2> QED BY <2>1 DEF StoreInv, Current, Anchors
<1> QED BY <1>1, StoreHolds, PTL

\* With one process a temporary file that a sweep removes is dead, as the comment on
\* evict_with says: the sweep and the write are operations of one dispatcher.
THEOREM LeftoversAreDead ==
  ASSUME OneShim
  PROVE  Spec => []LeftoversDead
<1>1. TypeInv => LeftoversDead
  <2> SUFFICES ASSUME TypeInv, NEW p \in Shim, NEW s \in Sid, <<"tmp", s>> \in doomed[p],
                      NEW q \in Shim, At(q, "write") \/ At(q, "rename")
               PROVE  FALSE
    BY DEF LeftoversDead
  <2>1. p = q
    BY DEF OneShim
  <2>2. At(p, "new") \/ At(p, "saved") \/ At(p, "load")
    BY DEF TypeInv, TypeOK
  <2> QED BY <2>1, <2>2 DEF At
<1> QED BY <1>1, TypesHold, PTL
-----------------------------------------------------------------------------
(* SessionStore implements DurableStore.                                   *)

\* Requests create or change a session in memory, or only begin.
LEMMA RequestImplements ==
  ASSUME TypeInv, NEW p \in Shim, Request(p)
  PROVE  [Durable!Next]_(Durable!vars)
<1>1. PICK s \in Sid : New(p, s) \/ Change(p, s) \/ Load(p, s)
  BY DEF Request
<1>2. UNCHANGED <<file, now>>
  BY <1>1 DEF New, Change, Load, dirVars
<1>3. CASE New(p, s)
  <2>1. UNCHANGED memory \/ memory' = [memory EXCEPT ![p][s] = 1]
    BY <1>3 DEF New
  <2>2. CASE memory' = [memory EXCEPT ![p][s] = 1]
    <3>1. Durable!Create(p, s)
      BY <1>2, <2>2 DEF Durable!Create, Durable!Remember
    <3> QED BY <3>1 DEF Durable!Next
  <2> QED BY <1>2, <2>1, <2>2 DEF Durable!vars
<1>4. CASE Change(p, s)
  <2>1. Durable!Change(p, s)
    BY <1>2, <1>4 DEF Change, Durable!Change, Durable!Remember
  <2> QED BY <2>1 DEF Durable!Next
<1>5. CASE Load(p, s)
  BY <1>2, <1>5 DEF Load, Durable!vars
<1> QED BY <1>1, <1>3, <1>4, <1>5

\* A deletion shows as an eviction that the caps justify.
LEMMA SweepImplements ==
  ASSUME TypeInv, StoreInv, NEW p \in Shim, SweepOne(p)
  PROVE  [Durable!Next]_(Durable!vars)
<1>1. PICK d \in doomed[p] :
        \/ file' = IF d[1] = "json" THEN [file EXCEPT ![d[2]] = Absent] ELSE file
        \/ UNCHANGED file
  BY DEF SweepOne
<1>2. UNCHANGED <<memory, now>>
  BY DEF SweepOne, procVars
<1>3. d \in Doom
  BY <1>1 DEF TypeInv, TypeOK
<1>4. CASE UNCHANGED file
  BY <1>2, <1>4 DEF Durable!vars
<1>5. CASE ~UNCHANGED file
  <2>1. PICK s \in Sid : d = <<"json", s>> /\ file' = [file EXCEPT ![s] = Absent]
    BY <1>1, <1>3, <1>5 DEF Doom
  <2>2. /\ s \in Files
        /\ \/ now - file[s].time > MaxAge
           \/ Cardinality({r \in Spared(p) : file[r].time > file[s].time}) >= Keep
    BY <1>1, <2>1 DEF StoreInv, Justified
  <2> DEFINE G == {r \in Spared(p) : file[r].time > file[s].time}
  <2>3. G \subseteq Durable!Newer(s) /\ Durable!Newer(s) \subseteq Sid
    BY DEF Spared, Files, Durable!Newer, Durable!Files
  <2>4. Cardinality(G) \in Nat /\ Cardinality(Durable!Newer(s)) \in Nat
        /\ Cardinality(G) <= Cardinality(Durable!Newer(s))
    BY <2>3, SidSets
  <2>5. Durable!Expendable(s)
    <3>1. CASE now - file[s].time > MaxAge
      BY <2>2, <3>1 DEF Durable!Expendable, Durable!Old, Files
    <3>2. CASE Cardinality(G) >= Keep
      <4>1. Cardinality(Durable!Newer(s)) >= Keep
        <5> HIDE DEF G
        <5> QED BY <2>4, <3>2, SessionStoreAssumption
      <4>2. Durable!Cardinality(Durable!Newer(s)) = Cardinality(Durable!Newer(s))
        BY DEF Durable!Cardinality, Cardinality
      <4> QED BY <2>2, <4>1, <4>2 DEF Durable!Expendable, Files
    <3> QED BY <2>2, <3>1, <3>2
  <2>6. Durable!Evict(s)
    BY <1>2, <2>1, <2>5 DEF Durable!Evict, Absent
  <2> QED BY <2>6 DEF Durable!Next
<1> QED BY <1>4, <1>5

\* The rename shows as the store of a session, whole and at once.
LEMMA RenameImplements ==
  ASSUME TypeInv, StoreInv, NEW p \in Shim, Rename(p)
  PROVE  [Durable!Next]_(Durable!vars)
<1> DEFINE s == TheSid(p)
<1>1. UNCHANGED <<memory, now>> /\ At(p, "rename") /\ ~At(p, "idle") /\ Saving(p)
  BY DEF Rename, SaveFails, procVars, At, Saving
<1>2. s \in Sid /\ job[p].sid = {s}
  BY <1>1, TheSidType
<1>3. CASE UNCHANGED file
  BY <1>1, <1>3 DEF Durable!vars
<1>4. CASE ~UNCHANGED file
  <2>1. tmp[s].time > 0 /\ file' = [file EXCEPT ![s] = tmp[s]]
    BY <1>4 DEF Rename
  <2>2. /\ tmp[s].ver = memory[p][s] /\ tmp[s].time <= now
        /\ \A r \in Sid : file[r].time < tmp[s].time
    BY <1>1, <1>2, <2>1 DEF StoreInv, Ready
  <2>3. memory[p][s] > 0
    BY <1>1, <1>2 DEF StoreInv, Anchors
  <2>4. file'[s] = tmp[s] /\ tmp[s].time \in Nat /\ now \in Nat
    BY <1>2, <2>1 DEF TypeInv, TypeOK, Durable!Entry
  <2>5. file' = [file EXCEPT ![s] = file'[s]]
    BY <2>1, <2>4
  <2>6. /\ file'[s].ver = memory[p][s] /\ file'[s].time \in 1..now
        /\ \A r \in Sid : file[r].time < file'[s].time
    BY <2>1, <2>2, <2>4
  <2>7. Durable!Store(p, s)
    BY <1>1, <2>3, <2>5, <2>6 DEF Durable!Store
  <2> QED BY <1>2, <2>7 DEF Durable!Next
<1> QED BY <1>3, <1>4

\* The other steps of an operation touch memory or the clock at most.
LEMMA StepImplements ==
  ASSUME TypeInv, StoreInv, NEW p \in Shim, Step(p)
  PROVE  [Durable!Next]_(Durable!vars)
<1> DEFINE s == TheSid(p)
<1>1. ~At(p, "idle") => s \in Sid
  BY TheSidType
<1>2. CASE NewDone(p)
  <2>1. Durable!Create(p, s) /\ s \in Sid
    BY <1>1, <1>2 DEF NewDone, dirVars, Durable!Create, Durable!Remember, At
  <2> QED BY <2>1 DEF Durable!Next
<1>3. CASE CreateTmp(p) \/ SaveDone(p)
  <2>1. UNCHANGED <<file, memory, now>>
    BY <1>3 DEF CreateTmp, SaveDone, SaveFails, dirVars, procVars
  <2> QED BY <2>1 DEF Durable!vars
<1>4. CASE WriteTmp(p)
  <2>1. UNCHANGED <<file, memory>> /\ (now' = now + 1 \/ UNCHANGED now)
    BY <1>4 DEF WriteTmp, SaveFails, procVars
  <2> QED BY <2>1 DEF Durable!vars, Durable!Next, Durable!Tick
<1>5. CASE LoadDone(p)
  <2>1. s \in Sid /\ UNCHANGED <<file, now>>
    BY <1>1, <1>5 DEF LoadDone, dirVars, At
  <2>2. CASE file[s].ver > 0
    <3>1. Durable!Load(p, s)
      BY <1>5, <2>1, <2>2 DEF LoadDone, Durable!Load, Durable!Remember
    <3> QED BY <2>1, <3>1 DEF Durable!Next
  <2>3. CASE ~(file[s].ver > 0)
    BY <1>5, <2>1, <2>3 DEF LoadDone, Durable!vars
  <2> QED BY <2>2, <2>3
<1> QED BY <1>2, <1>3, <1>4, <1>5, SweepImplements, RenameImplements DEF Step

\* Crashes, power cuts and the passing of time are those of DurableStore.
LEMMA EnvironmentImplements ==
  ASSUME TypeInv, TypeInv',
         (\E p \in Shim : Crash(p)) \/ PowerCut \/ Tick \/ UNCHANGED vars
  PROVE  [Durable!Next]_(Durable!vars)
<1>1. CASE \E p \in Shim : Crash(p)
  <2>1. PICK p \in Shim : Durable!Crash(p)
    BY <1>1 DEF Crash, dirVars, Durable!Crash
  <2> QED BY <2>1 DEF Durable!Next
<1>2. CASE PowerCut
  <2>1. PICK torn \in SUBSET {s \in Sid : ~file[s].synced} :
          file' = [s \in Sid |-> IF s \in torn THEN [file[s] EXCEPT !.ver = 0] ELSE file[s]]
    BY <1>2 DEF PowerCut
  <2>2. \A s \in Sid : \/ file'[s] = file[s]
                       \/ ~file[s].synced /\ file'[s] = [file[s] EXCEPT !.ver = 0]
    BY <2>1
  <2>3. file' \in [Sid -> Durable!Entry]
    BY DEF TypeInv, TypeOK
  <2>4. Durable!PowerCut
    BY <1>2, <2>2, <2>3 DEF PowerCut, Durable!PowerCut
  <2> QED BY <2>4 DEF Durable!Next
<1>3. CASE Tick
  <2>1. Durable!Tick
    BY <1>3 DEF Tick, procVars, Durable!Tick
  <2> QED BY <2>1 DEF Durable!Next
<1>4. CASE UNCHANGED vars
  BY <1>4 DEF vars, dirVars, procVars, Durable!vars
<1> QED BY <1>1, <1>2, <1>3, <1>4

\* With one process on the directory, saving by temporary file and rename, sweeping by
\* age and number, loading, crashes and power cuts implement DurableStore: a session
\* is stored whole and at once, and no file goes before the caps allow it.
THEOREM StoreImplementsDurable ==
  ASSUME OneShim
  PROVE  Spec => Refinement
<1>1. Init => Durable!Init
  BY DEF Init, Durable!Init, Absent
<1>2. TypeInv /\ TypeInv' /\ StoreInv /\ [Next]_vars => [Durable!Next]_(Durable!vars)
  <2> SUFFICES ASSUME TypeInv, TypeInv', StoreInv, [Next]_vars
               PROVE  [Durable!Next]_(Durable!vars)
    OBVIOUS
  <2> QED BY RequestImplements, StepImplements, EnvironmentImplements DEF Next
<1> QED BY <1>1, <1>2, StoreHolds, PTL DEF Spec, Refinement, Durable!Spec
=============================================================================

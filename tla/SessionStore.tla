---------------------------- MODULE SessionStore ----------------------------
(***************************************************************************)
(* src/persist.rs and its callers in src/acp/server.rs: the file of a       *)
(* session is written through a temporary one and a rename, files are swept *)
(* by age and by number, and session/load rebuilds a session from its file. *)
(* A shim may crash between any two file operations; the power may fail.    *)
(*                                                                         *)
(* A session is its version: 1 when created, one more at each turn end or   *)
(* configuration change.  Each write gets a later mtime than those before.  *)
(* Definitions marked Fault are plausible slips, not the code: the           *)
(* properties are shown to notice them.                                     *)
(***************************************************************************)
EXTENDS Integers, FiniteSets

CONSTANTS
  Shim,        \* shim processes sharing the directory
  Sid,         \* session ids
  Keep,        \* MAX_SESSION_FILES
  MaxAge,      \* MAX_SESSION_AGE
  StateDir,    \* NWIRO_SHIM_STATE_DIR: "unset", "absolute" or "relative"
  MaxVer,      \* bound: versions of a session
  MaxTime      \* bound: the clock

ASSUME SessionStoreAssumption ==
  /\ Keep \in Nat \ {0} /\ MaxAge \in Nat \ {0}
  /\ MaxVer \in Nat \ {0} /\ MaxTime \in Nat \ {0}
  /\ StateDir \in {"unset", "absolute", "relative"}
  /\ IsFiniteSet(Sid)

VARIABLES
  file, memory, now,      \* as in DurableStore
  tmp,         \* the temporary file of each session
  anchored,    \* per process, sessions with a PersistHandle
  inited,      \* processes that have swept the directory once
  enabled,     \* per process, NWIRO_SHIM_PERSIST is not off
  job,         \* per process, the operation in hand and its session
  doomed,      \* per process, what the running sweep will delete
  missed,      \* per process, what its last sweep failed to delete
  unsaved      \* sessions whose last write failed (history variable)

dirVars == <<file, tmp, now>>
procVars == <<memory, anchored, inited, enabled>>
sweepVars == <<doomed, missed>>
vars == <<dirVars, procVars, sweepVars, job, unsaved>>

Durable == INSTANCE DurableStore WITH file <- file, memory <- memory, now <- now
Absent == Durable!Absent
Files == Durable!Files

\* A temporary file is missing, cut short, or a whole entry.
Partial == [ver |-> 0, time |-> 1, synced |-> FALSE]
Idle == [at |-> "idle", sid |-> {}]
At(p, step) == job[p].at = step
Goto(p, step, s) == job' = [job EXCEPT ![p] = [at |-> step, sid |-> {s}]]
Done(p) == job' = [job EXCEPT ![p] = Idle]
TheSid(p) == CHOOSE s \in Sid : s \in job[p].sid

Init ==
  /\ file = [s \in Sid |-> Absent] /\ tmp = [s \in Sid |-> Absent] /\ now = 1
  /\ memory = [p \in Shim |-> [s \in Sid |-> 0]]
  /\ anchored = [p \in Shim |-> {}] /\ inited = {}
  /\ enabled \in [Shim -> BOOLEAN]
  /\ job = [p \in Shim |-> Idle]
  /\ doomed = [p \in Shim |-> {}] /\ missed = [p \in Shim |-> {}]
  /\ unsaved = {}

(***************************************************************************)
(* evict_with: leftovers, files past the age cap, files past the count cap. *)
(***************************************************************************)
OldFiles(f) == {s \in Sid : f[s].time > 0 /\ now - f[s].time > MaxAge}

Newest(f, set) ==
  {s \in set : Cardinality({r \in set : f[r].time > f[s].time}) < Keep}

\* Fault: no count cap.
Doomed_AgeOnly(f, t) ==
  {<<"tmp", s>> : s \in {s \in Sid : t[s].time > 0}}
  \cup {<<"json", s>> : s \in OldFiles(f)}

Doomed(f, t) ==
  LET young == {s \in Sid : f[s].time > 0} \ OldFiles(f)
  IN  {<<"tmp", s>> : s \in {s \in Sid : t[s].time > 0}}
      \cup {<<"json", s>> : s \in OldFiles(f) \cup (young \ Newest(f, young))}

Sweep(p, f, t) ==
  /\ doomed' = [doomed EXCEPT ![p] = Doomed(f, t)]
  /\ missed' = [missed EXCEPT ![p] = {}]

\* Deletions come one by one, in any order here; one may fail.
SweepOne(p) ==
  /\ \E d \in doomed[p] :
       /\ doomed' = [doomed EXCEPT ![p] = @ \ {d}]
       /\ \/ /\ file' = IF d[1] = "json" THEN [file EXCEPT ![d[2]] = Absent] ELSE file
             /\ tmp' = IF d[1] = "tmp" THEN [tmp EXCEPT ![d[2]] = Absent] ELSE tmp
             /\ UNCHANGED missed
          \/ /\ missed' = [missed EXCEPT ![p] = @ \cup {d}]
             /\ UNCHANGED <<file, tmp>>
  /\ UNCHANGED <<now, procVars, job, unsaved>>

\* init_storage_dir: a sweep the first time this process uses the directory.
FirstUse(p) ==
  /\ inited' = inited \cup {p}
  /\ IF p \in inited THEN UNCHANGED sweepVars ELSE Sweep(p, file, tmp)

(***************************************************************************)
(* The dispatcher's operations, one at a time.                             *)
(***************************************************************************)
Fresh(s) ==
  file[s].time = 0 /\ tmp[s].time = 0
  /\ \A p \in Shim : memory[p][s] = 0 /\ s \notin job[p].sid

\* What a request may say of its working directory.
Cwds == {"absent", "relative", "missing", "directory"}

\* resolve_storage_dir: whether a request gets a directory, the one modelled here.
resolve_storage_dir(p, cwd) ==
  /\ enabled[p]
  /\ StateDir = "absolute" \/ (StateDir = "unset" /\ cwd = "directory")

\* session/new: a fresh id; without a directory the session is never anchored.
New(p, s) ==
  /\ At(p, "idle") /\ Fresh(s)
  /\ \E cwd \in Cwds :
       IF resolve_storage_dir(p, cwd)
       THEN FirstUse(p) /\ Goto(p, "new", s) /\ UNCHANGED memory
       ELSE /\ memory' = [memory EXCEPT ![p][s] = 1]
            /\ UNCHANGED <<inited, sweepVars, job>>
  /\ unsaved' = unsaved \ {s}
  /\ UNCHANGED <<dirVars, anchored, enabled>>

NewDone(p) ==
  /\ At(p, "new") /\ doomed[p] = {}
  /\ memory' = [memory EXCEPT ![p][TheSid(p)] = 1]
  /\ anchored' = [anchored EXCEPT ![p] = @ \cup {TheSid(p)}]
  /\ Done(p)
  /\ UNCHANGED <<dirVars, inited, enabled, sweepVars, unsaved>>

\* Fault: some changes are not saved.
Change_Unsaved(p, s) ==
  /\ At(p, "idle") /\ memory[p][s] > 0 /\ memory[p][s] < MaxVer
  /\ memory' = [memory EXCEPT ![p][s] = @ + 1]
  /\ (s \in anchored[p] /\ Goto(p, "create", s)) \/ UNCHANGED job
  /\ UNCHANGED <<dirVars, anchored, inited, enabled, sweepVars, unsaved>>

\* A turn ends or the configuration changes, and the session is saved.
Change(p, s) ==
  /\ At(p, "idle") /\ memory[p][s] > 0 /\ memory[p][s] < MaxVer
  /\ memory' = [memory EXCEPT ![p][s] = @ + 1]
  /\ IF s \in anchored[p] THEN Goto(p, "create", s) ELSE UNCHANGED job
  /\ UNCHANGED <<dirVars, anchored, inited, enabled, sweepVars, unsaved>>

\* save fails: logged, and the turn goes on.
SaveFails(p) ==
  /\ Done(p)
  /\ unsaved' = unsaved \cup job[p].sid
  /\ UNCHANGED <<procVars, sweepVars>>

\* Fault: the file itself is opened and truncated.
CreateTmp_InPlace(p) ==
  /\ At(p, "create")
  /\ tmp' = [tmp EXCEPT ![TheSid(p)] = Partial]
  /\ file' = [file EXCEPT ![TheSid(p)] = Partial]
  /\ Goto(p, "write", TheSid(p))
  /\ UNCHANGED <<now, procVars, sweepVars, unsaved>>

CreateTmp(p) ==
  /\ At(p, "create")
  /\ \/ /\ tmp' = [tmp EXCEPT ![TheSid(p)] = Partial]
        /\ Goto(p, "write", TheSid(p))
        /\ UNCHANGED <<procVars, sweepVars, unsaved>>
     \/ SaveFails(p) /\ UNCHANGED tmp
  /\ UNCHANGED <<file, now>>

\* The whole envelope, synced if the system lets it; a full disk cuts it short.
\* Another process may have swept the name away.
WriteTmp(p) ==
  /\ At(p, "write")
  /\ \/ /\ now < MaxTime /\ now' = now + 1
        /\ \E synced \in BOOLEAN :
             LET entry == [ver |-> memory[p][TheSid(p)], time |-> now + 1,
                           synced |-> synced]
             IN  tmp' = [tmp EXCEPT ![TheSid(p)] = IF @.time = 0 THEN @ ELSE entry]
        /\ Goto(p, "rename", TheSid(p))
        /\ UNCHANGED <<procVars, sweepVars, unsaved>>
     \/ SaveFails(p) /\ UNCHANGED <<tmp, now>>
  /\ UNCHANGED file

\* The rename replaces the file at once, and a sweep follows.
Rename(p) ==
  /\ At(p, "rename")
  /\ LET s == TheSid(p) IN
       \/ /\ tmp[s].time > 0
          /\ file' = [file EXCEPT ![s] = tmp[s]]
          /\ tmp' = [tmp EXCEPT ![s] = Absent]
          /\ Sweep(p, file', tmp')
          /\ Goto(p, "saved", s)
          /\ unsaved' = unsaved \ {s}
          /\ UNCHANGED procVars
       \/ SaveFails(p) /\ UNCHANGED <<file, tmp>>
  /\ UNCHANGED now

\* Fault: the handler returns before the sweep is over.
SaveDone_Early(p) ==
  /\ At(p, "saved") /\ Done(p)
  /\ UNCHANGED <<dirVars, procVars, sweepVars, unsaved>>

SaveDone(p) ==
  /\ At(p, "saved") /\ doomed[p] = {}
  /\ Done(p)
  /\ UNCHANGED <<dirVars, procVars, sweepVars, unsaved>>

\* session/load, of an id this process may already hold.  Without a directory it
\* is refused and nothing changes.
Load(p, s) ==
  /\ At(p, "idle")
  /\ \E cwd \in Cwds : resolve_storage_dir(p, cwd)
  /\ FirstUse(p) /\ Goto(p, "load", s)
  /\ UNCHANGED <<dirVars, memory, anchored, enabled, unsaved>>

\* A file that is missing, torn or of another version or id is refused.
LoadDone(p) ==
  /\ At(p, "load") /\ doomed[p] = {}
  /\ LET s == TheSid(p) IN
       IF file[s].ver > 0
       THEN /\ memory' = [memory EXCEPT ![p][s] = file[s].ver]
            /\ anchored' = [anchored EXCEPT ![p] = @ \cup {s}]
            /\ unsaved' = unsaved \ {s}
       ELSE UNCHANGED <<memory, anchored, unsaved>>
  /\ Done(p)
  /\ UNCHANGED <<dirVars, inited, enabled, sweepVars>>

(***************************************************************************)
(* The environment.                                                        *)
(***************************************************************************)
\* The process ends, at end of input or by a crash, and another takes over, with
\* settings of its own.
Crash(p) ==
  /\ memory' = [memory EXCEPT ![p] = [s \in Sid |-> 0]]
  /\ anchored' = [anchored EXCEPT ![p] = {}]
  /\ inited' = inited \ {p}
  /\ \E on \in BOOLEAN : enabled' = [enabled EXCEPT ![p] = on]
  /\ job' = [job EXCEPT ![p] = Idle]
  /\ doomed' = [doomed EXCEPT ![p] = {}] /\ missed' = [missed EXCEPT ![p] = {}]
  /\ UNCHANGED <<dirVars, unsaved>>

\* Unsynced data is lost; the directory's entries are taken to survive.
PowerCut ==
  /\ memory' = [p \in Shim |-> [s \in Sid |-> 0]]
  /\ anchored' = [p \in Shim |-> {}] /\ inited' = {}
  /\ enabled' \in [Shim -> BOOLEAN]
  /\ job' = [p \in Shim |-> Idle]
  /\ doomed' = [p \in Shim |-> {}] /\ missed' = [p \in Shim |-> {}]
  /\ \E torn \in SUBSET {s \in Sid : ~file[s].synced} :
       file' = [s \in Sid |-> IF s \in torn THEN [file[s] EXCEPT !.ver = 0] ELSE file[s]]
  /\ UNCHANGED <<tmp, now, unsaved>>

\* Time that files age by passes between operations: none takes days.
Tick ==
  /\ \A p \in Shim : At(p, "idle")
  /\ now < MaxTime /\ now' = now + 1
  /\ UNCHANGED <<file, tmp, procVars, sweepVars, job, unsaved>>

Step(p) == SweepOne(p) \/ NewDone(p) \/ CreateTmp(p) \/ WriteTmp(p) \/ Rename(p)
           \/ SaveDone(p) \/ LoadDone(p)
Request(p) == \E s \in Sid : New(p, s) \/ Change(p, s) \/ Load(p, s)
Next == (\E p \in Shim : Request(p) \/ Step(p) \/ Crash(p)) \/ PowerCut \/ Tick

Spec == Init /\ [][Next]_vars

(***************************************************************************)
(* Properties.                                                             *)
(***************************************************************************)
Steps == {"idle", "new", "create", "write", "rename", "saved", "load"}
Doom == {"tmp", "json"} \X Sid

\* Types; a sweep belongs to an operation, and an idle dispatcher has none.
TypeOK ==
  /\ file \in [Sid -> Durable!Entry] /\ tmp \in [Sid -> Durable!Entry]
  /\ now \in Nat
  /\ memory \in [Shim -> [Sid -> Nat]]
  /\ anchored \in [Shim -> SUBSET Sid] /\ inited \subseteq Shim
  /\ enabled \in [Shim -> BOOLEAN]
  /\ job \in [Shim -> [at : Steps, sid : {{}} \cup {{s} : s \in Sid}]]
  /\ doomed \in [Shim -> SUBSET Doom] /\ missed \in [Shim -> SUBSET Doom]
  /\ unsaved \subseteq Sid
  /\ \A p \in Shim : doomed[p] # {} => At(p, "new") \/ At(p, "saved") \/ At(p, "load")

\* Between operations the directory holds Keep files at most, but for those the
\* last sweep could not delete.
DirBounded ==
  \A p \in inited : At(p, "idle") =>
    Cardinality({s \in Files : <<"json", s>> \notin missed[p]}) <= Keep

\* Between operations the file of an anchored session is that session, unless its
\* last write failed, it was swept away, or nothing has been written yet; a session
\* without an anchor has no file, and a process that does not persist no anchors.
WriteThrough ==
  \A p \in Shim : At(p, "idle") =>
    \A s \in Sid : memory[p][s] > 0 =>
      IF s \in anchored[p]
      THEN /\ enabled[p]
           /\ \/ file[s].ver = memory[p][s]
              \/ s \in unsaved \/ s \notin Files
              \/ memory[p][s] = 1
      ELSE s \notin Files

\* The steps of saving, sweeping, loading and crashing show as DurableStore's:
\* no crash leaves a torn file, no file goes too soon, a load restores what was
\* stored.
Refinement == Durable!Spec

\* Claimed: a leftover temporary file is dead when a sweep removes it, for no
\* write is in flight.
LeftoversDead ==
  \A p \in Shim : \A s \in Sid :
    <<"tmp", s>> \in doomed[p] =>
      \A q \in Shim : ~(s \in job[q].sid /\ (At(q, "write") \/ At(q, "rename")))
=============================================================================

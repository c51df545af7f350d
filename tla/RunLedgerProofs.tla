--------------------------- MODULE RunLedgerProofs ----------------------------
(***************************************************************************)
(* Proofs about RunLedger, for every number of processes, plans and        *)
(* requests.                                                               *)
(*                                                                         *)
(* None of the properties is inductive: that a row or a plan has an owner  *)
(* depends on what the record of the command holds at each point of it.    *)
(* The invariant LedgerInv adds that (Local and Recorded), and that a plan *)
(* that is held is EXECUTING and held by one process (HoldersAgree).       *)
(*                                                                         *)
(* Every step is of one process and touches the tables in one of a few     *)
(* ways; StepKeeps says that a step of such a shape preserves LedgerInv,   *)
(* and each action has a lemma that gives it its shape.                    *)
(***************************************************************************)
EXTENDS RunLedger, FiniteSetTheorems, TLAPS

\* A row of ops.runs, and the local state of a command.
RunRow == [kind : {"INGESTION", "BACKFILL"},
           status : {"RUNNING", "STOPPED", "FAILED", "COMPLETED"},
           config : Configs \cup {None}, started : Nat]
Pcs == {"idle", "start", "run", "reload", "replace", "stop", "open", "claim", "request", "sent",
        "complete", "fail", "finish", "end"}
Process == [op : {None, "ingest", "single", "set"}, pc : Pcs, at : Nat,
            config : Configs \cup {None}, run : Nat, candidate : Nat, reloads : Nat, plan : Nat,
            request : Nat, returned : SUBSET Bases, claimed : BOOLEAN, completed : BOOLEAN,
            seen : SUBSET Plans, status : {"STOPPED", "FAILED", "COMPLETED"}]

\* Types.
LedgerTypeOK ==
    /\ run \in Seq(RunRow)
    /\ plan \in [Plans -> {"ABSENT", "PLANNED", "EXECUTING", "FAILED", "COMPLETED"}]
    /\ covered \in [Plans -> {None, "DATA", "EMPTY"}]
    /\ proc \in [Procs -> Process]
    /\ now \in Nat
    /\ lost \in [runs : SUBSET Nat, plans : SUBSET Plans]

\* The usage row of a request that was completed.
Done(r, b, q) == [row |-> [run |-> r, plan |-> b, request |-> q], completed |-> TRUE]

\* How far a command has come says what its record holds.
Local(s) ==
    /\ s.op = None <=> s.pc \in {"idle", "end"}
    /\ s.op = "ingest" <=> s.pc \in {"start", "run", "reload", "replace", "stop"}
    /\ s.pc = "claim" => s.op = "set"
    /\ s.pc \in {"idle", "end", "start", "open"} => s.run = 0
    /\ s.pc \notin {"replace", "stop"} => s.candidate = 0
    /\ s.op \in {None, "ingest"} => ~s.claimed /\ ~s.completed
    /\ s.op = "set" /\ s.pc = "open" => ~s.claimed
    /\ s.op = "single" /\ s.pc = "open" => s.claimed /\ ~s.completed
    /\ s.pc = "claim" => ~s.claimed \/ s.completed
    /\ s.pc \in {"request", "sent", "complete"} => s.claimed /\ ~s.completed
    /\ s.claimed => s.plan \in Plans
    /\ s.pc \in {"request", "sent"} => s.request \in Requests
    /\ s.pc = "complete" => s.request = Cardinality(Requests) + 1

\* ... and what the tables hold of it.
Recorded(s) ==
    /\ s.run \in 0 .. Len(run) /\ s.candidate \in 0 .. Len(run)
    /\ s.pc \in {"claim", "request", "sent", "complete", "run", "reload", "replace"} => s.run \in 1 .. Len(run)
    /\ s.pc = "replace" => s.candidate \in 1 .. Len(run)
    /\ s.pc = "stop" => s.candidate = 0 \/ s.candidate \in lost.runs
    /\ s.pc \in {"request", "sent", "complete"} =>
          \A q \in 1 .. s.request - 1 : Done(s.run, s.plan, q) \in usage

Commands == \A p \in Procs : Local(proc[p]) /\ Recorded(proc[p])

\* Who holds a plan, holds it alone and EXECUTING.
HoldersAgree ==
    /\ \A p \in Procs, b \in Plans : Holds(p, b) => plan[b] = "EXECUTING"
    /\ \A p, q \in Procs, b \in Plans : Holds(p, b) /\ Holds(q, b) => p = q
    /\ \A b \in Plans : plan[b] = "EXECUTING" => (\E p \in Procs : Holds(p, b)) \/ b \in lost.plans

LedgerInv == LedgerTypeOK /\ Commands /\ HoldersAgree /\ RunsAreOwned /\ CompletedIsAccounted

----------------------------------------------------------------------------
(* What a step of process p does, and that such a step keeps the invariant. *)

\* No other process moves.
Alone(p) == proc' \in [Procs -> Process] /\ \A q \in Procs \ {p} : proc'[q] = proc[q]

\* The tables other than plan only grow.
Grows ==
    /\ run' \in Seq(RunRow) /\ Len(run) =< Len(run')
    /\ now' \in Nat /\ lost' \in [runs : SUBSET Nat, plans : SUBSET Plans]
    /\ lost.runs \subseteq lost'.runs
    /\ \A r, b, q : Done(r, b, q) \in usage => Done(r, b, q) \in usage'

\* p keeps the plan it holds; claims one; completes or fails it; dies with it;
\* claims one and does not know it.
HoldKept(p) ==
    /\ plan' = plan /\ lost'.plans = lost.plans
    /\ \A b \in Plans : Holds(p, b)' <=> Holds(p, b)

HoldTaken(p, b) ==
    /\ Claimable(b) /\ plan' = [plan EXCEPT ![b] = "EXECUTING"] /\ lost'.plans = lost.plans
    /\ \A c \in Plans : ~Holds(p, c) /\ (Holds(p, c)' <=> c = b)

HoldDropped(p, b) ==
    /\ Holds(p, b)
    /\ \E x \in {"COMPLETED", "FAILED"} : plan' = [plan EXCEPT ![b] = x]
    /\ lost'.plans = lost.plans
    /\ \A c \in Plans : ~Holds(p, c)'

HoldLost(p) ==
    /\ plan' = plan /\ lost'.plans = lost.plans \cup {b \in Plans : Holds(p, b)}
    /\ \A c \in Plans : ~Holds(p, c)'

HoldMissed(p, b) ==
    /\ Claimable(b) /\ plan' = [plan EXCEPT ![b] = "EXECUTING"]
    /\ lost'.plans = lost.plans \cup {b}
    /\ \A c \in Plans : ~Holds(p, c) /\ ~Holds(p, c)'

PlanStep(p) == \/ HoldKept(p) \/ HoldLost(p)
               \/ \E b \in Plans : HoldTaken(p, b) \/ HoldDropped(p, b) \/ HoldMissed(p, b)

Owns(p, i) == Alive(p) /\ i \in {proc[p].run, proc[p].candidate}

\* A row that is RUNNING afterwards was so before, and p has not let go of it,
\* or it belongs to p now.
RunStep(p) ==
    \A i \in DOMAIN run' : Running(i)' =>
        \/ Running(i) /\ ~Owns(p, i)
        \/ Owns(p, i)'
        \/ i \in lost'.runs

Accounted(b) ==
    \E i \in DOMAIN run : \A q \in Requests : Done(i, b, q) \in usage

\* A plan that is COMPLETED afterwards was so before, or is accounted for now.
CoverStep ==
    /\ covered' \in [Plans -> {None, "DATA", "EMPTY"}]
    /\ \A b \in Plans : plan'[b] = "COMPLETED" =>
          \/ plan[b] = "COMPLETED" /\ covered'[b] = covered[b]
          \/ covered'[b] # None /\ Accounted(b)'

\* A step of one process that treats each table in one of these ways preserves
\* the invariant.
LEMMA StepKeeps ==
    ASSUME LedgerInv, NEW p \in Procs, Alone(p), Grows, PlanStep(p), RunStep(p), CoverStep,
           Local(proc'[p]), Recorded(proc[p])'
    PROVE  LedgerInv'
  <1> USE DEF LedgerInv
  <1>1. LedgerTypeOK'
    BY DEF LedgerTypeOK, Alone, Grows, PlanStep, HoldKept, HoldLost, HoldTaken, HoldDropped,
       HoldMissed, CoverStep
  <1>2. Commands'
    <2>1. ASSUME NEW q \in Procs, q # p PROVE Recorded(proc[q])'
      <3>1. proc'[q] = proc[q] /\ Recorded(proc[q])
        BY <2>1 DEF Alone, Commands
      <3>2. Len(run) \in Nat /\ Len(run') \in Nat /\ Len(run) =< Len(run')
        BY DEF Grows, LedgerTypeOK
      <3> QED
        BY <3>1, <3>2 DEF Recorded, Grows
    <2>2. ASSUME NEW q \in Procs, q # p PROVE Local(proc[q])'
      BY <2>2 DEF Alone, Commands, Local
    <2> QED
      BY <2>1, <2>2 DEF Commands, Local
  <1>3. HoldersAgree'
    <2>1. \A q \in Procs, b \in Plans : q # p => (Holds(q, b)' <=> Holds(q, b))
      BY DEF Holds, Alive, Alone
    <2>2. CASE HoldKept(p)
      BY <2>1, <2>2 DEF HoldersAgree, HoldKept
    <2>3. CASE HoldLost(p)
      BY <2>1, <2>3 DEF HoldersAgree, HoldLost
    <2>4. ASSUME NEW b \in Plans, HoldTaken(p, b) PROVE HoldersAgree'
      BY <2>1, <2>4 DEF HoldersAgree, HoldTaken, Claimable, LedgerTypeOK
    <2>5. ASSUME NEW b \in Plans, HoldDropped(p, b) PROVE HoldersAgree'
      <3>1. \A q \in Procs, c \in Plans : Holds(q, c)' => q # p /\ Holds(q, c) /\ c # b
        BY <2>1, <2>5 DEF HoldersAgree, HoldDropped
      <3>2. \A c \in Plans : c # b => plan'[c] = plan[c]
        BY <2>5 DEF HoldDropped, LedgerTypeOK
      <3>3. plan'[b] # "EXECUTING"
        BY <2>5 DEF HoldDropped, LedgerTypeOK
      <3>4. \A c \in Plans : Holds(p, c) => c = b
        BY <2>5 DEF HoldDropped, Holds
      <3> QED
        BY <2>1, <2>5, <3>1, <3>2, <3>3, <3>4 DEF HoldersAgree, HoldDropped
    <2>6. ASSUME NEW b \in Plans, HoldMissed(p, b) PROVE HoldersAgree'
      BY <2>1, <2>6 DEF HoldersAgree, HoldMissed, Claimable, LedgerTypeOK
    <2> QED
      BY <2>2, <2>3, <2>4, <2>5, <2>6 DEF PlanStep
  <1>4. RunsAreOwned'
    <2>1. \A q \in Procs : \A i : q # p => (Owns(q, i)' <=> Owns(q, i))
      BY DEF Owns, Alive, Alone
    <2>2. \A i : Running(i) => i \in DOMAIN run
      BY DEF Running
    <2>3. \A i \in DOMAIN run : Running(i) => (\E q \in Procs : Owns(q, i)) \/ i \in lost.runs
      BY DEF RunsAreOwned, Owns
    <2>4. \A i \in DOMAIN run' : Running(i)' => (\E q \in Procs : Owns(q, i)') \/ i \in lost'.runs
      BY <2>1, <2>2, <2>3 DEF RunStep, Grows
    <2> QED
      BY <2>4 DEF RunsAreOwned, Owns
  <1>5. CompletedIsAccounted'
    <2>1. \A b \in Plans : Accounted(b) => Accounted(b)'
      <3>1. DOMAIN run \subseteq DOMAIN run'
        BY DEF Grows, LedgerTypeOK
      <3> QED
        BY <3>1 DEF Accounted, Grows
    <2>2. \A b \in Plans : plan[b] = "COMPLETED" => covered[b] # None /\ Accounted(b)
      BY DEF CompletedIsAccounted, Accounted, Done
    <2>3. \A b \in Plans : plan'[b] = "COMPLETED" => covered'[b] # None /\ Accounted(b)'
      BY <2>1, <2>2 DEF CoverStep
    <2> QED
      BY <2>3 DEF CompletedIsAccounted, Accounted, Done
  <1> QED
    BY <1>1, <1>2, <1>3, <1>4, <1>5


LEMMA ProcStep ==
    ASSUME proc \in [Procs -> Process], NEW p \in Procs, NEW s \in Process,
           proc' = [proc EXCEPT ![p] = s]
    PROVE  Alone(p) /\ proc'[p] = s
  BY DEF Alone

\* What the invariant says of the process that acts.
LEMMA Known ==
    ASSUME LedgerInv, NEW p \in Procs
    PROVE  /\ proc \in [Procs -> Process] /\ proc[p] \in Process
           /\ run \in Seq(RunRow) /\ Len(run) \in Nat /\ now \in Nat
           /\ lost \in [runs : SUBSET Nat, plans : SUBSET Plans]
           /\ plan \in [Plans -> {"ABSENT", "PLANNED", "EXECUTING", "FAILED", "COMPLETED"}]
           /\ covered \in [Plans -> {None, "DATA", "EMPTY"}]
           /\ Local(proc[p]) /\ Recorded(proc[p])
  BY DEF LedgerInv, LedgerTypeOK, Commands

\* Plans and requests are numbered from 1.
LEMMA Numbers ==
    /\ Cardinality(Plans) \in Nat /\ Plans \subseteq Nat
    /\ Cardinality(Requests) \in Nat /\ Requests \subseteq Nat /\ 1 \in Requests
  <1>1. Cardinality(Plans) \in Nat /\ Cardinality(Requests) \in Nat
    BY RunLedgerAssumption, FS_CardinalityType
  <1> QED
    BY <1>1, RunLedgerAssumption

\* A step that writes to no table but usage and lets go of nothing.
LEMMA QuietStep ==
    ASSUME LedgerInv, NEW p \in Procs, Alone(p),
           UNCHANGED <<run, plan, covered, now, lost>>,
           \A r, b, q : Done(r, b, q) \in usage => Done(r, b, q) \in usage',
           \A b \in Plans : Holds(p, b)' <=> Holds(p, b),
           Alive(p) => /\ Alive(p)' /\ proc'[p].run = proc[p].run
                       /\ proc'[p].candidate = proc[p].candidate,
           Local(proc'[p]), Recorded(proc[p])'
    PROVE  LedgerInv'
  <1>1. Grows
    BY Known DEF Grows
  <1>2. PlanStep(p)
    BY DEF PlanStep, HoldKept
  <1>3. RunStep(p)
    BY DEF RunStep, Running, Owns
  <1>4. CoverStep
    BY Known DEF CoverStep
  <1> QED
    BY <1>1, <1>2, <1>3, <1>4, StepKeeps

LEMMA IngestStartKeeps ==
    ASSUME LedgerInv, NEW p \in Procs, NEW c \in Configs, IngestStart(p, c)
    PROVE  LedgerInv'
  <1> USE RunLedgerAssumption
  <1> DEFINE s == [proc[p] EXCEPT !.op = "ingest", !.pc = "start", !.at = now, !.config = c]
  <1>0. /\ proc \in [Procs -> Process] /\ proc[p] \in Process
        /\ Local(proc[p]) /\ Recorded(proc[p]) /\ Len(run) \in Nat
    BY Known
  <1>1. s \in Process
    <2>1. "start" \in Pcs /\ now \in Nat
      BY Known DEF Pcs
    <2> QED
      BY <1>0, <2>1 DEF Process
  <1>2. Alone(p) /\ proc'[p] = s
    <2>1. proc' = [proc EXCEPT ![p] = s]
      BY <1>0 DEF IngestStart
    <2> QED
      BY <1>0, <1>1, <2>1, ProcStep
  <1>3. Local(s)
    BY <1>0 DEF Local, Process, IngestStart, At
  <1>4. UNCHANGED <<run, plan, covered, usage, now, lost>>
    BY DEF IngestStart
  <1>5. Recorded(proc[p])'
    BY <1>0, <1>2, <1>4 DEF Recorded, Process, IngestStart, At, Local
  <1>6. \A b \in Plans : Holds(p, b)' <=> Holds(p, b)
    BY <1>0, <1>2 DEF Holds, Alive, Process, IngestStart, At, Local
  <1>7. Alive(p) => /\ Alive(p)' /\ proc'[p].run = proc[p].run
                    /\ proc'[p].candidate = proc[p].candidate
    BY <1>0, <1>2 DEF Alive, Process, IngestStart, At, Local
  <1> HIDE DEF s
  <1> QED
    BY <1>2, <1>3, <1>4, <1>5, <1>6, <1>7, QuietStep

LEMMA ReloadStartKeeps ==
    ASSUME LedgerInv, NEW p \in Procs, ReloadStart(p)
    PROVE  LedgerInv'
  <1> USE RunLedgerAssumption
  <1> DEFINE s == [proc[p] EXCEPT !.pc = "reload", !.at = now, !.reloads = proc[p].reloads + 1]
  <1>0. /\ proc \in [Procs -> Process] /\ proc[p] \in Process
        /\ Local(proc[p]) /\ Recorded(proc[p]) /\ Len(run) \in Nat
    BY Known
  <1>1. s \in Process
    <2>1. "reload" \in Pcs /\ now \in Nat /\ proc[p].reloads + 1 \in Nat
      BY Known DEF Pcs, Process
    <2> QED
      BY <1>0, <2>1 DEF Process
  <1>2. Alone(p) /\ proc'[p] = s
    <2>1. proc' = [proc EXCEPT ![p] = s]
      BY <1>0 DEF ReloadStart
    <2> QED
      BY <1>0, <1>1, <2>1, ProcStep
  <1>3. Local(s)
    BY <1>0 DEF Local, Process, ReloadStart, At
  <1>4. UNCHANGED <<run, plan, covered, usage, now, lost>>
    BY DEF ReloadStart
  <1>5. Recorded(proc[p])'
    BY <1>0, <1>2, <1>4 DEF Recorded, Process, ReloadStart, At, Local
  <1>6. \A b \in Plans : Holds(p, b)' <=> Holds(p, b)
    BY <1>0, <1>2 DEF Holds, Alive, Process, ReloadStart, At, Local
  <1>7. Alive(p) => /\ Alive(p)' /\ proc'[p].run = proc[p].run
                    /\ proc'[p].candidate = proc[p].candidate
    BY <1>0, <1>2 DEF Alive, Process, ReloadStart, At, Local
  <1> HIDE DEF s
  <1> QED
    BY <1>2, <1>3, <1>4, <1>5, <1>6, <1>7, QuietStep

LEMMA ReloadGivenUpKeeps ==
    ASSUME LedgerInv, NEW p \in Procs, ReloadGivenUp(p)
    PROVE  LedgerInv'
  <1> USE RunLedgerAssumption
  <1> DEFINE s == [proc[p] EXCEPT !.pc = "run"]
  <1>0. /\ proc \in [Procs -> Process] /\ proc[p] \in Process
        /\ Local(proc[p]) /\ Recorded(proc[p]) /\ Len(run) \in Nat
    BY Known
  <1>1. s \in Process
    <2>1. "run" \in Pcs
      BY DEF Pcs
    <2> QED
      BY <1>0, <2>1 DEF Process
  <1>2. Alone(p) /\ proc'[p] = s
    <2>1. proc' = [proc EXCEPT ![p] = s]
      BY <1>0 DEF ReloadGivenUp, Goto
    <2> QED
      BY <1>0, <1>1, <2>1, ProcStep
  <1>3. Local(s)
    BY <1>0 DEF Local, Process, ReloadGivenUp, At
  <1>4. UNCHANGED <<run, plan, covered, usage, now, lost>>
    BY DEF ReloadGivenUp
  <1>5. Recorded(proc[p])'
    BY <1>0, <1>2, <1>4 DEF Recorded, Process, ReloadGivenUp, At, Local
  <1>6. \A b \in Plans : Holds(p, b)' <=> Holds(p, b)
    BY <1>0, <1>2 DEF Holds, Alive, Process, ReloadGivenUp, At, Local
  <1>7. Alive(p) => /\ Alive(p)' /\ proc'[p].run = proc[p].run
                    /\ proc'[p].candidate = proc[p].candidate
    BY <1>0, <1>2 DEF Alive, Process, ReloadGivenUp, At, Local
  <1> HIDE DEF s
  <1> QED
    BY <1>2, <1>3, <1>4, <1>5, <1>6, <1>7, QuietStep

LEMMA SetStartKeeps ==
    ASSUME LedgerInv, NEW p \in Procs, SetStart(p)
    PROVE  LedgerInv'
  <1> USE RunLedgerAssumption
  <1> DEFINE s == [proc[p] EXCEPT !.op = "set", !.pc = "open", !.seen = {b \in Plans : plan[b] = "COMPLETED"}]
  <1>0. /\ proc \in [Procs -> Process] /\ proc[p] \in Process
        /\ Local(proc[p]) /\ Recorded(proc[p]) /\ Len(run) \in Nat
    BY Known
  <1>1. s \in Process
    <2>1. "open" \in Pcs
      BY DEF Pcs
    <2> QED
      BY <1>0, <2>1 DEF Process
  <1>2. Alone(p) /\ proc'[p] = s
    <2>1. proc' = [proc EXCEPT ![p] = s]
      BY <1>0 DEF SetStart
    <2> QED
      BY <1>0, <1>1, <2>1, ProcStep
  <1>3. Local(s)
    BY <1>0 DEF Local, Process, SetStart, At
  <1>4. UNCHANGED <<run, plan, covered, usage, now, lost>>
    BY DEF SetStart
  <1>5. Recorded(proc[p])'
    BY <1>0, <1>2, <1>4 DEF Recorded, Process, SetStart, At, Local
  <1>6. \A b \in Plans : Holds(p, b)' <=> Holds(p, b)
    BY <1>0, <1>2 DEF Holds, Alive, Process, SetStart, At, Local
  <1>7. Alive(p) => /\ Alive(p)' /\ proc'[p].run = proc[p].run
                    /\ proc'[p].candidate = proc[p].candidate
    BY <1>0, <1>2 DEF Alive, Process, SetStart, At, Local
  <1> HIDE DEF s
  <1> QED
    BY <1>2, <1>3, <1>4, <1>5, <1>6, <1>7, QuietStep

LEMMA SetSkipKeeps ==
    ASSUME LedgerInv, NEW p \in Procs, SetSkip(p)
    PROVE  LedgerInv'
  <1> USE RunLedgerAssumption
  <1> DEFINE s == [proc[p] EXCEPT !.plan = proc[p].plan + 1]
  <1>0. /\ proc \in [Procs -> Process] /\ proc[p] \in Process
        /\ Local(proc[p]) /\ Recorded(proc[p]) /\ Len(run) \in Nat
    BY Known
  <1>1. s \in Process
    <2>1. proc[p].plan + 1 \in Nat
      BY <1>0 DEF Process
    <2> QED
      BY <1>0, <2>1 DEF Process
  <1>2. Alone(p) /\ proc'[p] = s
    <2>1. proc' = [proc EXCEPT ![p] = s]
      BY <1>0 DEF SetSkip
    <2> QED
      BY <1>0, <1>1, <2>1, ProcStep
  <1>3. Local(s)
    BY <1>0, Numbers DEF Local, Process, SetSkip, At
  <1>4. UNCHANGED <<run, plan, covered, usage, now, lost>>
    BY DEF SetSkip
  <1>5. Recorded(proc[p])'
    BY <1>0, <1>2, <1>4 DEF Recorded, Process, SetSkip, At, Local
  <1>6. \A b \in Plans : Holds(p, b)' <=> Holds(p, b)
    BY <1>0, <1>2 DEF Holds, Alive, Process, SetSkip, At, Local
  <1>7. Alive(p) => /\ Alive(p)' /\ proc'[p].run = proc[p].run
                    /\ proc'[p].candidate = proc[p].candidate
    BY <1>0, <1>2 DEF Alive, Process, SetSkip, At, Local
  <1> HIDE DEF s
  <1> QED
    BY <1>2, <1>3, <1>4, <1>5, <1>6, <1>7, QuietStep

LEMMA SetRefusedKeeps ==
    ASSUME LedgerInv, NEW p \in Procs, SetRefused(p)
    PROVE  LedgerInv'
  <1> USE RunLedgerAssumption
  <1> DEFINE s == [proc[p] EXCEPT !.pc = "fail", !.plan = proc[p].plan + 1, !.claimed = FALSE, !.completed = FALSE]
  <1>0. /\ proc \in [Procs -> Process] /\ proc[p] \in Process
        /\ Local(proc[p]) /\ Recorded(proc[p]) /\ Len(run) \in Nat
    BY Known
  <1>1. s \in Process
    <2>1. "fail" \in Pcs /\ proc[p].plan + 1 \in Nat
      BY <1>0 DEF Process, Pcs
    <2> QED
      BY <1>0, <2>1 DEF Process
  <1>2. Alone(p) /\ proc'[p] = s
    <2>1. proc' = [proc EXCEPT ![p] = s]
      BY <1>0 DEF SetRefused
    <2> QED
      BY <1>0, <1>1, <2>1, ProcStep
  <1>3. Local(s)
    BY <1>0 DEF Local, Process, SetRefused, At
  <1>4. UNCHANGED <<run, plan, covered, usage, now, lost>>
    BY DEF SetRefused
  <1>5. Recorded(proc[p])'
    BY <1>0, <1>2, <1>4 DEF Recorded, Process, SetRefused, At, Local
  <1>6. \A b \in Plans : Holds(p, b)' <=> Holds(p, b)
    BY <1>0, <1>2 DEF Holds, Alive, Process, SetRefused, At, Local
  <1>7. Alive(p) => /\ Alive(p)' /\ proc'[p].run = proc[p].run
                    /\ proc'[p].candidate = proc[p].candidate
    BY <1>0, <1>2 DEF Alive, Process, SetRefused, At, Local
  <1> HIDE DEF s
  <1> QED
    BY <1>2, <1>3, <1>4, <1>5, <1>6, <1>7, QuietStep

LEMMA SetDoneKeeps ==
    ASSUME LedgerInv, NEW p \in Procs, SetDone(p)
    PROVE  LedgerInv'
  <1> USE RunLedgerAssumption
  <1> DEFINE s == [proc[p] EXCEPT !.pc = "finish", !.status = "COMPLETED"]
  <1>0. /\ proc \in [Procs -> Process] /\ proc[p] \in Process
        /\ Local(proc[p]) /\ Recorded(proc[p]) /\ Len(run) \in Nat
    BY Known
  <1>1. s \in Process
    <2>1. "finish" \in Pcs
      BY DEF Pcs
    <2> QED
      BY <1>0, <2>1 DEF Process
  <1>2. Alone(p) /\ proc'[p] = s
    <2>1. proc' = [proc EXCEPT ![p] = s]
      BY <1>0 DEF SetDone
    <2> QED
      BY <1>0, <1>1, <2>1, ProcStep
  <1>3. Local(s)
    BY <1>0 DEF Local, Process, SetDone, At, Backfill
  <1>4. UNCHANGED <<run, plan, covered, usage, now, lost>>
    BY DEF SetDone
  <1>5. Recorded(proc[p])'
    BY <1>0, <1>2, <1>4 DEF Recorded, Process, SetDone, At, Backfill, Local
  <1>6. \A b \in Plans : Holds(p, b)' <=> Holds(p, b)
    BY <1>0, <1>2 DEF Holds, Alive, Process, SetDone, At, Backfill, Local
  <1>7. Alive(p) => /\ Alive(p)' /\ proc'[p].run = proc[p].run
                    /\ proc'[p].candidate = proc[p].candidate
    BY <1>0, <1>2 DEF Alive, Process, SetDone, At, Backfill, Local
  <1> HIDE DEF s
  <1> QED
    BY <1>2, <1>3, <1>4, <1>5, <1>6, <1>7, QuietStep

LEMMA RaisesKeeps ==
    ASSUME LedgerInv, NEW p \in Procs, Raises(p)
    PROVE  LedgerInv'
  <1> USE RunLedgerAssumption
  <1> DEFINE s == [proc[p] EXCEPT !.pc = "fail"]
  <1>0. /\ proc \in [Procs -> Process] /\ proc[p] \in Process
        /\ Local(proc[p]) /\ Recorded(proc[p]) /\ Len(run) \in Nat
    BY Known
  <1>1. s \in Process
    <2>1. "fail" \in Pcs
      BY DEF Pcs
    <2> QED
      BY <1>0, <2>1 DEF Process
  <1>2. Alone(p) /\ proc'[p] = s
    <2>1. proc' = [proc EXCEPT ![p] = s]
      BY <1>0 DEF Raises, Goto
    <2> QED
      BY <1>0, <1>1, <2>1, ProcStep
  <1>3. Local(s)
    BY <1>0 DEF Local, Process, Raises, At, Backfill
  <1>4. UNCHANGED <<run, plan, covered, usage, now, lost>>
    BY DEF Raises
  <1>5. Recorded(proc[p])'
    BY <1>0, <1>2, <1>4 DEF Recorded, Process, Raises, At, Backfill, Local
  <1>6. \A b \in Plans : Holds(p, b)' <=> Holds(p, b)
    BY <1>0, <1>2 DEF Holds, Alive, Process, Raises, At, Backfill, Local
  <1>7. Alive(p) => /\ Alive(p)' /\ proc'[p].run = proc[p].run
                    /\ proc'[p].candidate = proc[p].candidate
    BY <1>0, <1>2 DEF Alive, Process, Raises, At, Backfill, Local
  <1> HIDE DEF s
  <1> QED
    BY <1>2, <1>3, <1>4, <1>5, <1>6, <1>7, QuietStep

LEMMA RequestStartKeeps ==
    ASSUME LedgerInv, NEW p \in Procs, RequestStart(p)
    PROVE  LedgerInv'
  <1> USE RunLedgerAssumption
  <1> DEFINE s == [proc[p] EXCEPT !.pc = "sent"]
  <1>0. /\ proc \in [Procs -> Process] /\ proc[p] \in Process
        /\ Local(proc[p]) /\ Recorded(proc[p]) /\ Len(run) \in Nat
    BY Known
  <1>1. s \in Process
    <2>1. "sent" \in Pcs
      BY DEF Pcs
    <2> QED
      BY <1>0, <2>1 DEF Process
  <1>2. Alone(p) /\ proc'[p] = s
    <2>1. proc' = [proc EXCEPT ![p] = s]
      BY <1>0 DEF RequestStart, Goto
    <2> QED
      BY <1>0, <1>1, <2>1, ProcStep
  <1>3. Local(s)
    BY <1>0 DEF Local, Process, RequestStart, At, Backfill
  <1>4. UNCHANGED <<run, plan, covered, now, lost>> /\ usage \subseteq usage'
    BY DEF RequestStart
  <1>5. Recorded(proc[p])'
    BY <1>0, <1>2, <1>4 DEF Recorded, Process, RequestStart, At
  <1>6. \A b \in Plans : Holds(p, b)' <=> Holds(p, b)
    BY <1>0, <1>2 DEF Holds, Alive, Process, RequestStart, At
  <1>7. Alive(p)' /\ proc'[p].run = proc[p].run /\ proc'[p].candidate = proc[p].candidate
    BY <1>0, <1>2 DEF Alive, Process
  <1> HIDE DEF s
  <1> QED
    BY <1>2, <1>3, <1>4, <1>5, <1>6, <1>7, QuietStep

LEMMA RequestDoneKeeps ==
    ASSUME LedgerInv, NEW p \in Procs, NEW bases \in SUBSET Bases, RequestDone(p, bases)
    PROVE  LedgerInv'
  <1> USE RunLedgerAssumption
  <1> DEFINE s == [proc[p] EXCEPT !.pc = AfterRequest(p), !.request = proc[p].request + 1,
                              !.returned = proc[p].returned \cup bases]
  <1>0. /\ proc \in [Procs -> Process] /\ proc[p] \in Process
        /\ Local(proc[p]) /\ Recorded(proc[p]) /\ Len(run) \in Nat
    BY Known
  <1>1. s \in Process
    <2>1. AfterRequest(p) \in Pcs /\ proc[p].request + 1 \in Nat
      BY <1>0 DEF AfterRequest, Pcs, Process
    <2> QED
      BY <1>0, <2>1 DEF Process
  <1>2. Alone(p) /\ proc'[p] = s
    <2>1. proc' = [proc EXCEPT ![p] = s]
      BY <1>0 DEF RequestDone
    <2> QED
      BY <1>0, <1>1, <2>1, ProcStep
  <1>3. /\ proc[p].pc = "sent" /\ proc[p].request \in Requests
        /\ AfterRequest(p) = IF proc[p].request + 1 \in Requests THEN "request" ELSE "complete"
    BY <1>0 DEF RequestDone, At, Local, AfterRequest
  <1>4. Local(s)
    <2>1. /\ s.op = proc[p].op /\ s.pc = AfterRequest(p) /\ s.run = proc[p].run
          /\ s.candidate = proc[p].candidate /\ s.claimed = proc[p].claimed
          /\ s.completed = proc[p].completed /\ s.plan = proc[p].plan
          /\ s.request = proc[p].request + 1
      BY <1>0 DEF Process
    <2>2. /\ proc[p].op \in {"single", "set"} /\ proc[p].candidate = 0 /\ proc[p].claimed
          /\ ~proc[p].completed /\ proc[p].plan \in Plans
      BY <1>0, <1>3 DEF Local, RequestDone, At, Backfill
    <2>3. s.pc = "request" => s.request \in Requests
      BY <1>3, <2>1
    <2>4. s.pc = "complete" => s.request = Cardinality(Requests) + 1
      BY <1>3, <2>1, Numbers
    <2>5. s.pc \in {"request", "complete"}
      BY <1>3, <2>1
    <2> HIDE DEF s
    <2> QED
      BY <2>1, <2>2, <2>3, <2>4, <2>5 DEF Local
  <1>5. UNCHANGED <<run, plan, covered, now, lost>>
    BY DEF RequestDone
  <1>6. /\ \A r, b, q : Done(r, b, q) \in usage => Done(r, b, q) \in usage'
        /\ Done(proc[p].run, proc[p].plan, proc[p].request) \in usage'
    BY DEF RequestDone, Done, UsageRow
  <1>7. Recorded(proc[p])'
    <2>1. /\ proc'[p].run = proc[p].run /\ proc'[p].plan = proc[p].plan
          /\ proc'[p].candidate = proc[p].candidate
          /\ proc'[p].request = proc[p].request + 1 /\ proc'[p].pc \in {"request", "complete"}
      BY <1>0, <1>2, <1>3 DEF Process
    <2>2. \A q \in 1 .. proc[p].request : Done(proc[p].run, proc[p].plan, q) \in usage'
      BY <1>0, <1>3, <1>6, Numbers DEF Recorded
    <2>3. \A q \in 1 .. proc'[p].request - 1 : Done(proc'[p].run, proc'[p].plan, q) \in usage'
      BY <1>3, <2>1, <2>2, Numbers
    <2> QED
      BY <1>0, <1>3, <1>5, <2>1, <2>3 DEF Recorded
  <1>8. \A b \in Plans : Holds(p, b)' <=> Holds(p, b)
    BY <1>0, <1>2, <1>3 DEF Holds, Alive, Process
  <1>9. Alive(p)' /\ proc'[p].run = proc[p].run /\ proc'[p].candidate = proc[p].candidate
    BY <1>0, <1>2, <1>3 DEF Alive, Process
  <1> HIDE DEF s
  <1> QED
    BY <1>2, <1>4, <1>5, <1>6, <1>7, <1>8, <1>9, QuietStep

----------------------------------------------------------------------------
(* The run rows: one is added, one is closed.                              *)

\* start_run adds a RUNNING row and changes no other.
LEMMA NewRow ==
    ASSUME run \in Seq(RunRow), NEW kind \in {"INGESTION", "BACKFILL"},
           NEW config \in Configs \cup {None}, NEW at \in Nat, StartRun(kind, config, at)
    PROVE  /\ run' \in Seq(RunRow) /\ Len(run') = Len(run) + 1
           /\ \A i \in DOMAIN run : i \in DOMAIN run' /\ run'[i] = run[i]
           /\ \A i \in DOMAIN run' : Running(i)' => Running(i) \/ i = Len(run) + 1
  <1> DEFINE row == [kind |-> kind, status |-> "RUNNING", config |-> config, started |-> at]
  <1>1. row \in RunRow /\ run' = Append(run, row)
    BY DEF StartRun, RunRow
  <1> HIDE DEF row
  <1>2. /\ run' \in Seq(RunRow) /\ Len(run') = Len(run) + 1
        /\ \A i \in DOMAIN run : i \in DOMAIN run' /\ run'[i] = run[i]
        /\ \A i \in DOMAIN run' : i \in DOMAIN run \/ i = Len(run) + 1
    BY <1>1
  <1> QED
    BY <1>2 DEF Running

\* finish_run changes one row, which is not RUNNING any more.
LEMMA ClosedRow ==
    ASSUME run \in Seq(RunRow), NEW i \in Nat, NEW status \in {"STOPPED", "FAILED", "COMPLETED"},
           Finished(i, status)
    PROVE  /\ run' \in Seq(RunRow) /\ Len(run') = Len(run)
           /\ \A j \in DOMAIN run : j # i => run'[j] = run[j]
           /\ \A j \in DOMAIN run' : Running(j)' => Running(j) /\ j # i
  <1>1. i \in DOMAIN run /\ run[i] \in RunRow
    BY DEF Finished, Running
  <1>2. [run[i] EXCEPT !.status = status] \in RunRow
        /\ [run[i] EXCEPT !.status = status].status = status
    BY <1>1 DEF RunRow
  <1>3. run' = [run EXCEPT ![i] = [run[i] EXCEPT !.status = status]]
    BY <1>1 DEF Finished
  <1> DEFINE row == [run[i] EXCEPT !.status = status]
  <1> HIDE DEF row
  <1>4. /\ run' \in Seq(RunRow) /\ Len(run') = Len(run)
        /\ \A j \in DOMAIN run : j # i => run'[j] = run[j]
        /\ run'[i] = row
    BY <1>1, <1>2, <1>3 DEF row
  <1>5. run'[i].status # "RUNNING"
    BY <1>2, <1>4 DEF row
  <1> QED
    BY <1>1, <1>4, <1>5 DEF Running

\* A step on the run rows that leaves the plans alone.
LEMMA RowStep ==
    ASSUME LedgerInv, NEW p \in Procs, Alone(p), UNCHANGED <<plan, covered, usage, now>>,
           run' \in Seq(RunRow), Len(run) =< Len(run'),
           lost' \in [runs : SUBSET Nat, plans : SUBSET Plans],
           lost.runs \subseteq lost'.runs, lost'.plans = lost.plans,
           \A b \in Plans : Holds(p, b)' <=> Holds(p, b),
           RunStep(p), Local(proc'[p]), Recorded(proc[p])'
    PROVE  LedgerInv'
  <1>1. Grows
    BY Known DEF Grows
  <1>2. PlanStep(p)
    BY DEF PlanStep, HoldKept
  <1>3. CoverStep
    BY Known DEF CoverStep
  <1> QED
    BY <1>1, <1>2, <1>3, StepKeeps

LEMMA IngestRunKeeps ==
    ASSUME LedgerInv, NEW p \in Procs, IngestRun(p)
    PROVE  LedgerInv'
  <1> USE RunLedgerAssumption
  <1> DEFINE s == [proc[p] EXCEPT !.pc = "run", !.run = Len(run) + 1]
  <1>0. /\ proc \in [Procs -> Process] /\ proc[p] \in Process
        /\ Local(proc[p]) /\ Recorded(proc[p]) /\ Len(run) \in Nat
    BY Known
  <1>1. s \in Process
    <2>1. "run" \in Pcs /\ Len(run) + 1 \in Nat
      BY <1>0 DEF Pcs
    <2> QED
      BY <1>0, <2>1 DEF Process
  <1>2. Alone(p) /\ proc'[p] = s
    <2>1. proc' = [proc EXCEPT ![p] = s]
      BY <1>0 DEF IngestRun, NewRun
    <2> QED
      BY <1>0, <1>1, <2>1, ProcStep
  <1>3. Local(s)
    BY <1>0 DEF Local, Process, IngestRun, At, Backfill
  <1>4. UNCHANGED <<plan, covered, usage, now>>
    BY DEF IngestRun
  <1>5. /\ run' \in Seq(RunRow) /\ Len(run') = Len(run) + 1
        /\ \A i \in DOMAIN run' : Running(i)' => Running(i) \/ i = Len(run) + 1
    BY <1>0, Known, NewRow DEF IngestRun, Process
  <1>6. /\ lost' \in [runs : SUBSET Nat, plans : SUBSET Plans]
        /\ lost'.runs = lost.runs /\ lost'.plans = lost.plans
    BY <1>0, Known DEF IngestRun, NewRun, Process
  <1>7. Recorded(proc[p])'
    <2>1. /\ proc'[p].pc = "run" /\ proc'[p].run = Len(run) + 1 /\ proc'[p].candidate = 0
          /\ proc[p].run \in 0 .. Len(run) /\ (proc[p].pc = "reload" => proc[p].run \in 1 .. Len(run))
          /\ proc[p].pc \in {"start", "reload"}
      BY <1>0, <1>2 DEF Process, IngestRun, At, Local, Recorded
    <2>2. Len(run') = Len(run) + 1 /\ Len(run) \in Nat
      BY <1>0, <1>5
    <2> QED
      BY <2>1, <2>2 DEF Recorded
  <1>8. \A b \in Plans : Holds(p, b)' <=> Holds(p, b)
    BY <1>0, <1>2 DEF Holds, Alive, Process, IngestRun, At, Local, Backfill
  <1>9. RunStep(p)
    <2>1. /\ proc'[p].pc = "run" /\ proc'[p].run = Len(run) + 1 /\ proc'[p].candidate = proc[p].candidate
          /\ proc[p].run = 0 /\ proc[p].candidate = 0
      BY <1>0, <1>2 DEF Process, IngestRun, At, Local, Backfill, NewRun
    <2>2. \A i : Running(i) => i \in DOMAIN run /\ i # 0
      BY <1>0, Known DEF Running
    <2> QED
      BY <1>0, <1>5, <1>6, <2>1, <2>2 DEF RunStep, Owns, Alive, Local, Recorded
  <1> HIDE DEF s
  <1> QED
    BY <1>0, <1>2, <1>3, <1>4, <1>5, <1>6, <1>7, <1>8, <1>9, RowStep

LEMMA ReloadRunKeeps ==
    ASSUME LedgerInv, NEW p \in Procs, NEW c \in Configs, ReloadRun(p, c)
    PROVE  LedgerInv'
  <1> USE RunLedgerAssumption
  <1> DEFINE s == [proc[p] EXCEPT !.pc = "replace", !.candidate = Len(run) + 1]
  <1>0. /\ proc \in [Procs -> Process] /\ proc[p] \in Process
        /\ Local(proc[p]) /\ Recorded(proc[p]) /\ Len(run) \in Nat
    BY Known
  <1>1. s \in Process
    <2>1. "replace" \in Pcs /\ Len(run) + 1 \in Nat
      BY <1>0 DEF Pcs
    <2> QED
      BY <1>0, <2>1 DEF Process
  <1>2. Alone(p) /\ proc'[p] = s
    <2>1. proc' = [proc EXCEPT ![p] = s]
      BY <1>0 DEF ReloadRun, NewRun
    <2> QED
      BY <1>0, <1>1, <2>1, ProcStep
  <1>3. Local(s)
    BY <1>0 DEF Local, Process, ReloadRun, At, Backfill
  <1>4. UNCHANGED <<plan, covered, usage, now>>
    BY DEF ReloadRun
  <1>5. /\ run' \in Seq(RunRow) /\ Len(run') = Len(run) + 1
        /\ \A i \in DOMAIN run' : Running(i)' => Running(i) \/ i = Len(run) + 1
    BY <1>0, Known, NewRow DEF ReloadRun, Process
  <1>6. /\ lost' \in [runs : SUBSET Nat, plans : SUBSET Plans]
        /\ lost'.runs = lost.runs /\ lost'.plans = lost.plans
    BY <1>0, Known DEF ReloadRun, NewRun, Process
  <1>7. Recorded(proc[p])'
    <2>1. /\ proc'[p].pc = "replace" /\ proc'[p].run = proc[p].run /\ proc'[p].candidate = Len(run) + 1
          /\ proc[p].run \in 0 .. Len(run) /\ (proc[p].pc = "reload" => proc[p].run \in 1 .. Len(run))
          /\ proc[p].pc \in {"start", "reload"}
      BY <1>0, <1>2 DEF Process, ReloadRun, At, Local, Recorded
    <2>2. Len(run') = Len(run) + 1 /\ Len(run) \in Nat
      BY <1>0, <1>5
    <2> QED
      BY <2>1, <2>2, <1>0 DEF Recorded, ReloadRun, At
  <1>8. \A b \in Plans : Holds(p, b)' <=> Holds(p, b)
    BY <1>0, <1>2 DEF Holds, Alive, Process, ReloadRun, At, Local, Backfill
  <1>9. RunStep(p)
    <2>1. /\ proc'[p].pc = "replace" /\ proc'[p].run = proc[p].run /\ proc'[p].candidate = Len(run) + 1
          /\ proc[p].candidate = 0
      BY <1>0, <1>2 DEF Process, ReloadRun, At, Local, Backfill, NewRun
    <2>2. \A i : Running(i) => i \in DOMAIN run /\ i # 0
      BY <1>0, Known DEF Running
    <2> QED
      BY <1>0, <1>5, <1>6, <2>1, <2>2 DEF RunStep, Owns, Alive, Local, Recorded
  <1> HIDE DEF s
  <1> QED
    BY <1>0, <1>2, <1>3, <1>4, <1>5, <1>6, <1>7, <1>8, <1>9, RowStep

LEMMA ReloadRunCutKeeps ==
    ASSUME LedgerInv, NEW p \in Procs, NEW c \in Configs, ReloadRunCut(p, c)
    PROVE  LedgerInv'
  <1> USE RunLedgerAssumption
  <1> DEFINE s == [proc[p] EXCEPT !.pc = "stop", !.status = "STOPPED"]
  <1>0. /\ proc \in [Procs -> Process] /\ proc[p] \in Process
        /\ Local(proc[p]) /\ Recorded(proc[p]) /\ Len(run) \in Nat
    BY Known
  <1>1. s \in Process
    <2>1. "stop" \in Pcs
      BY DEF Pcs
    <2> QED
      BY <1>0, <2>1 DEF Process
  <1>2. Alone(p) /\ proc'[p] = s
    <2>1. proc' = [proc EXCEPT ![p] = s]
      BY <1>0 DEF ReloadRunCut, NewRun
    <2> QED
      BY <1>0, <1>1, <2>1, ProcStep
  <1>3. Local(s)
    BY <1>0 DEF Local, Process, ReloadRunCut, At, Backfill
  <1>4. UNCHANGED <<plan, covered, usage, now>>
    BY DEF ReloadRunCut
  <1>5. /\ run' \in Seq(RunRow) /\ Len(run') = Len(run) + 1
        /\ \A i \in DOMAIN run' : Running(i)' => Running(i) \/ i = Len(run) + 1
    BY <1>0, Known, NewRow DEF ReloadRunCut, Process
  <1>6. /\ lost' \in [runs : SUBSET Nat, plans : SUBSET Plans]
        /\ lost'.runs = lost.runs \cup {Len(run) + 1} /\ lost'.plans = lost.plans
    <2>1. lost' = [lost EXCEPT !.runs = lost.runs \cup {Len(run) + 1}] /\ Len(run) + 1 \in Nat
      BY <1>0 DEF ReloadRunCut, NewRun
    <2> QED
      BY <2>1, Known
  <1>7. Recorded(proc[p])'
    BY <1>0, <1>2, <1>4, <1>5, <1>6 DEF Recorded, Process, ReloadRunCut, At, Local, Backfill
  <1>8. \A b \in Plans : Holds(p, b)' <=> Holds(p, b)
    BY <1>0, <1>2 DEF Holds, Alive, Process, ReloadRunCut, At, Local, Backfill
  <1>9. RunStep(p)
    <2>1. /\ proc'[p].pc = "stop" /\ proc'[p].run = proc[p].run /\ proc'[p].candidate = proc[p].candidate
          /\ proc[p].candidate = 0
      BY <1>0, <1>2 DEF Process, ReloadRunCut, At, Local, Backfill, NewRun
    <2>2. \A i : Running(i) => i \in DOMAIN run /\ i # 0
      BY <1>0, Known DEF Running
    <2> QED
      BY <1>0, <1>5, <1>6, <2>1, <2>2 DEF RunStep, Owns, Alive, Local, Recorded
  <1> HIDE DEF s
  <1> QED
    BY <1>0, <1>2, <1>3, <1>4, <1>5, <1>6, <1>7, <1>8, <1>9, RowStep

LEMMA ReloadRejectedKeeps ==
    ASSUME LedgerInv, NEW p \in Procs, ReloadRejected(p)
    PROVE  LedgerInv'
  <1> USE RunLedgerAssumption
  <1> DEFINE s == [proc[p] EXCEPT !.pc = "run", !.candidate = 0]
  <1>0. /\ proc \in [Procs -> Process] /\ proc[p] \in Process
        /\ Local(proc[p]) /\ Recorded(proc[p]) /\ Len(run) \in Nat
    BY Known
  <1>1. s \in Process
    <2>1. "run" \in Pcs
      BY DEF Pcs
    <2> QED
      BY <1>0, <2>1 DEF Process
  <1>2. Alone(p) /\ proc'[p] = s
    <2>1. proc' = [proc EXCEPT ![p] = s]
      BY <1>0 DEF ReloadRejected
    <2> QED
      BY <1>0, <1>1, <2>1, ProcStep
  <1>3. Local(s)
    BY <1>0 DEF Local, Process, ReloadRejected, At, Backfill
  <1>4. UNCHANGED <<plan, covered, usage, now>>
    BY DEF ReloadRejected
  <1>5. /\ run' \in Seq(RunRow) /\ Len(run') = Len(run)
        /\ \A i \in DOMAIN run' : Running(i)' => Running(i) /\ i # proc[p].candidate
    BY <1>0, Known, ClosedRow DEF ReloadRejected, Process
  <1>6. /\ lost' \in [runs : SUBSET Nat, plans : SUBSET Plans]
        /\ lost'.runs = lost.runs /\ lost'.plans = lost.plans
    BY <1>0, Known DEF ReloadRejected, NewRun, Process
  <1>7. Recorded(proc[p])'
    BY <1>0, <1>2, <1>4, <1>5, <1>6 DEF Recorded, Process, ReloadRejected, At, Local, Backfill
  <1>8. \A b \in Plans : Holds(p, b)' <=> Holds(p, b)
    BY <1>0, <1>2 DEF Holds, Alive, Process, ReloadRejected, At, Local, Backfill
  <1>9. RunStep(p)
    <2>1. proc'[p].pc = "run" /\ proc'[p].run = proc[p].run /\ proc'[p].candidate = 0
      BY <1>0, <1>2 DEF Process, ReloadRejected, At, Local, Backfill, NewRun
    <2>2. \A i : Running(i) => i \in DOMAIN run /\ i # 0
      BY <1>0, Known DEF Running
    <2> QED
      BY <1>0, <1>5, <1>6, <2>1, <2>2 DEF RunStep, Owns, Alive, Local, Recorded
  <1> HIDE DEF s
  <1> QED
    BY <1>0, <1>2, <1>3, <1>4, <1>5, <1>6, <1>7, <1>8, <1>9, RowStep

LEMMA ReloadCutKeeps ==
    ASSUME LedgerInv, NEW p \in Procs, ReloadCut(p)
    PROVE  LedgerInv'
  <1> USE RunLedgerAssumption
  <1> DEFINE s == [proc[p] EXCEPT !.pc = "stop", !.status = "STOPPED"]
  <1>0. /\ proc \in [Procs -> Process] /\ proc[p] \in Process
        /\ Local(proc[p]) /\ Recorded(proc[p]) /\ Len(run) \in Nat
    BY Known
  <1>1. s \in Process
    <2>1. "stop" \in Pcs
      BY DEF Pcs
    <2> QED
      BY <1>0, <2>1 DEF Process
  <1>2. Alone(p) /\ proc'[p] = s
    <2>1. proc' = [proc EXCEPT ![p] = s]
      BY <1>0 DEF ReloadCut
    <2> QED
      BY <1>0, <1>1, <2>1, ProcStep
  <1>3. Local(s)
    BY <1>0 DEF Local, Process, ReloadCut, At, Backfill
  <1>4. UNCHANGED <<plan, covered, usage, now>>
    BY DEF ReloadCut
  <1>5. /\ run' \in Seq(RunRow) /\ Len(run') = Len(run)
        /\ \A i \in DOMAIN run' : Running(i)' => Running(i) /\ i # proc[p].run
    BY <1>0, Known, ClosedRow DEF ReloadCut, Process
  <1>6. /\ lost' \in [runs : SUBSET Nat, plans : SUBSET Plans]
        /\ lost'.runs = lost.runs \cup {proc[p].candidate} /\ lost'.plans = lost.plans
    BY <1>0, Known DEF ReloadCut, NewRun, Process
  <1>7. Recorded(proc[p])'
    BY <1>0, <1>2, <1>4, <1>5, <1>6 DEF Recorded, Process, ReloadCut, At, Local, Backfill
  <1>8. \A b \in Plans : Holds(p, b)' <=> Holds(p, b)
    BY <1>0, <1>2 DEF Holds, Alive, Process, ReloadCut, At, Local, Backfill
  <1>9. RunStep(p)
    <2>1. proc'[p].pc = "stop" /\ proc'[p].run = proc[p].run /\ proc'[p].candidate = proc[p].candidate
      BY <1>0, <1>2 DEF Process, ReloadCut, At, Local, Backfill, NewRun
    <2>2. \A i : Running(i) => i \in DOMAIN run /\ i # 0
      BY <1>0, Known DEF Running
    <2> QED
      BY <1>0, <1>5, <1>6, <2>1, <2>2 DEF RunStep, Owns, Alive, Local, Recorded
  <1> HIDE DEF s
  <1> QED
    BY <1>0, <1>2, <1>3, <1>4, <1>5, <1>6, <1>7, <1>8, <1>9, RowStep

LEMMA ReloadAcceptedKeeps ==
    ASSUME LedgerInv, NEW p \in Procs, ReloadAccepted(p)
    PROVE  LedgerInv'
  <1> USE RunLedgerAssumption
  <1> DEFINE s == [proc[p] EXCEPT !.pc = "run", !.run = proc[p].candidate,
                              !.config = run[proc[p].candidate].config, !.candidate = 0]
  <1>0. /\ proc \in [Procs -> Process] /\ proc[p] \in Process
        /\ Local(proc[p]) /\ Recorded(proc[p]) /\ Len(run) \in Nat
    BY Known
  <1>1. s \in Process
    <2>1. /\ "run" \in Pcs /\ proc[p].candidate \in Nat
          /\ run[proc[p].candidate].config \in Configs \cup {None}
      <3>1. proc[p].candidate \in 1 .. Len(run)
        BY <1>0 DEF Recorded, ReloadAccepted, At
      <3>2. run[proc[p].candidate] \in RunRow
        BY <3>1, Known
      <3> QED
        BY <1>0, <3>2 DEF Pcs, Process, RunRow
    <2> QED
      BY <1>0, <2>1 DEF Process
  <1>2. Alone(p) /\ proc'[p] = s
    <2>1. proc' = [proc EXCEPT ![p] = s]
      BY <1>0 DEF ReloadAccepted
    <2> QED
      BY <1>0, <1>1, <2>1, ProcStep
  <1>3. Local(s)
    BY <1>0 DEF Local, Process, ReloadAccepted, At, Backfill
  <1>4. UNCHANGED <<plan, covered, usage, now>>
    BY DEF ReloadAccepted
  <1>5. /\ run' \in Seq(RunRow) /\ Len(run') = Len(run)
        /\ \A i \in DOMAIN run' : Running(i)' => Running(i) /\ i # proc[p].run
    BY <1>0, Known, ClosedRow DEF ReloadAccepted, Process
  <1>6. /\ lost' \in [runs : SUBSET Nat, plans : SUBSET Plans]
        /\ lost'.runs = lost.runs /\ lost'.plans = lost.plans
    BY <1>0, Known DEF ReloadAccepted, NewRun, Process
  <1>7. Recorded(proc[p])'
    BY <1>0, <1>2, <1>4, <1>5, <1>6 DEF Recorded, Process, ReloadAccepted, At, Local, Backfill
  <1>8. \A b \in Plans : Holds(p, b)' <=> Holds(p, b)
    BY <1>0, <1>2 DEF Holds, Alive, Process, ReloadAccepted, At, Local, Backfill
  <1>9. RunStep(p)
    <2>1. proc'[p].pc = "run" /\ proc'[p].run = proc[p].candidate /\ proc'[p].candidate = 0
      BY <1>0, <1>2 DEF Process, ReloadAccepted, At, Local, Backfill, NewRun
    <2>2. \A i : Running(i) => i \in DOMAIN run /\ i # 0
      BY <1>0, Known DEF Running
    <2> QED
      BY <1>0, <1>5, <1>6, <2>1, <2>2 DEF RunStep, Owns, Alive, Local, Recorded
  <1> HIDE DEF s
  <1> QED
    BY <1>0, <1>2, <1>3, <1>4, <1>5, <1>6, <1>7, <1>8, <1>9, RowStep

LEMMA StopKeeps ==
    ASSUME LedgerInv, NEW p \in Procs, NEW status \in {"STOPPED", "FAILED"}, Stop(p, status)
    PROVE  LedgerInv'
  <1> USE RunLedgerAssumption
  <1> DEFINE s == [proc[p] EXCEPT !.pc = "stop", !.status = status]
  <1>0. /\ proc \in [Procs -> Process] /\ proc[p] \in Process
        /\ Local(proc[p]) /\ Recorded(proc[p]) /\ Len(run) \in Nat
    BY Known
  <1>1. s \in Process
    <2>1. "stop" \in Pcs
      BY DEF Pcs
    <2> QED
      BY <1>0, <2>1 DEF Process
  <1>2. Alone(p) /\ proc'[p] = s
    <2>1. proc' = [proc EXCEPT ![p] = s]
      BY <1>0 DEF Stop
    <2> QED
      BY <1>0, <1>1, <2>1, ProcStep
  <1>3. Local(s)
    BY <1>0 DEF Local, Process, Stop, At, Backfill
  <1>4. UNCHANGED <<plan, covered, usage, now>>
    BY DEF Stop
  <1>5. /\ run' \in Seq(RunRow) /\ Len(run') = Len(run)
        /\ \A i \in DOMAIN run' : Running(i)' => Running(i)
    BY <1>0, Known, Known DEF Stop, Running
  <1>6. /\ lost' \in [runs : SUBSET Nat, plans : SUBSET Plans]
        /\ lost'.runs = lost.runs \cup {proc[p].candidate} /\ lost'.plans = lost.plans
    BY <1>0, Known DEF Stop, NewRun, Process
  <1>7. Recorded(proc[p])'
    BY <1>0, <1>2, <1>4, <1>5, <1>6 DEF Recorded, Process, Stop, At, Local, Backfill
  <1>8. \A b \in Plans : Holds(p, b)' <=> Holds(p, b)
    BY <1>0, <1>2 DEF Holds, Alive, Process, Stop, At, Local, Backfill
  <1>9. RunStep(p)
    <2>1. proc'[p].pc = "stop" /\ proc'[p].run = proc[p].run /\ proc'[p].candidate = proc[p].candidate
      BY <1>0, <1>2 DEF Process, Stop, At, Local, Backfill, NewRun
    <2>2. \A i : Running(i) => i \in DOMAIN run /\ i # 0
      BY <1>0, Known DEF Running
    <2> QED
      BY <1>0, <1>5, <1>6, <2>1, <2>2 DEF RunStep, Owns, Alive, Local, Recorded
  <1> HIDE DEF s
  <1> QED
    BY <1>0, <1>2, <1>3, <1>4, <1>5, <1>6, <1>7, <1>8, <1>9, RowStep

LEMMA OpenRunKeeps ==
    ASSUME LedgerInv, NEW p \in Procs, OpenRun(p)
    PROVE  LedgerInv'
  <1> USE RunLedgerAssumption
  <1> DEFINE s == [proc[p] EXCEPT !.pc = IF proc[p].op = "single" THEN "request" ELSE "claim",
                              !.run = Len(run) + 1, !.request = 1]
  <1>0. /\ proc \in [Procs -> Process] /\ proc[p] \in Process
        /\ Local(proc[p]) /\ Recorded(proc[p]) /\ Len(run) \in Nat
    BY Known
  <1>1. s \in Process
    <2>1. /\ (IF proc[p].op = "single" THEN "request" ELSE "claim") \in Pcs
          /\ Len(run) + 1 \in Nat
      BY <1>0 DEF Pcs
    <2> QED
      BY <1>0, <2>1 DEF Process
  <1>2. Alone(p) /\ proc'[p] = s
    <2>1. proc' = [proc EXCEPT ![p] = s]
      BY <1>0 DEF OpenRun, NewRun, Goto
    <2> QED
      BY <1>0, <1>1, <2>1, ProcStep
  <1>3. /\ proc'[p].op = proc[p].op /\ proc'[p].run = Len(run) + 1 /\ proc'[p].candidate = 0
        /\ proc'[p].pc = (IF proc[p].op = "single" THEN "request" ELSE "claim")
        /\ proc'[p].request = 1 /\ proc'[p].plan = proc[p].plan
        /\ proc'[p].claimed = proc[p].claimed /\ proc'[p].completed = proc[p].completed
        /\ proc[p].op \in {"single", "set"} /\ proc[p].pc = "open" /\ proc[p].run = 0
        /\ proc[p].candidate = 0
    BY <1>0, <1>2 DEF Process, OpenRun, At, Local, Backfill
  <1>4. Local(proc'[p])
    BY <1>0, <1>3, Numbers DEF Local
  <1>5. /\ run' \in Seq(RunRow) /\ Len(run') = Len(run) + 1
        /\ \A i \in DOMAIN run' : Running(i)' => Running(i) \/ i = Len(run) + 1
    BY <1>0, Known, NewRow DEF OpenRun
  <1>6. UNCHANGED <<plan, covered, usage, now, lost>>
    BY DEF OpenRun
  <1>7. Recorded(proc[p])'
    <2>1. Len(run') = Len(run) + 1 /\ Len(run) \in Nat
      BY <1>0, <1>5
    <2> QED
      BY <1>3, <2>1 DEF Recorded
  <1>8. \A b \in Plans : Holds(p, b)' <=> Holds(p, b)
    BY <1>3 DEF Holds, Alive
  <1>9. RunStep(p)
    <2>1. \A i : Running(i) => i \in DOMAIN run /\ i # 0
      BY <1>0, Known DEF Running
    <2> QED
      BY <1>3, <1>5, <2>1 DEF RunStep, Owns, Alive
  <1> HIDE DEF s
  <1> QED
    BY <1>0, <1>2, <1>4, <1>5, <1>6, <1>7, <1>8, <1>9, Known, RowStep

----------------------------------------------------------------------------
(* The end of a process.                                                   *)

\* The process owns nothing any more.
LEMMA EndStep ==
    ASSUME LedgerInv, NEW p \in Procs, End(p)
    PROVE  /\ Alone(p) /\ ~Alive(p)' /\ Local(proc'[p])
           /\ proc'[p].run = 0 /\ proc'[p].candidate = 0 /\ proc'[p].pc = "end"
  <1> DEFINE s == [Idle EXCEPT !.pc = "end"]
  <1>1. s \in Process
    BY DEF Process, Idle, Pcs, Bases
  <1>2. Alone(p) /\ proc'[p] = s
    BY <1>1, Known, ProcStep DEF End
  <1>3. s.pc = "end" /\ s.run = 0 /\ s.candidate = 0 /\ s.op = None /\ ~s.claimed /\ ~s.completed
    BY DEF Idle
  <1> HIDE DEF s
  <1> QED
    BY <1>2, <1>3, RunLedgerAssumption DEF Local, Alive

LEMMA FinishKeeps ==
    ASSUME LedgerInv, NEW p \in Procs, Finish(p)
    PROVE  LedgerInv'
  <1>0. /\ proc[p] \in Process /\ Local(proc[p]) /\ Recorded(proc[p]) /\ Len(run) \in Nat
    BY Known
  <1>1. /\ Alone(p) /\ ~Alive(p)' /\ Local(proc'[p])
        /\ proc'[p].run = 0 /\ proc'[p].candidate = 0 /\ proc'[p].pc = "end"
    BY EndStep DEF Finish
  <1>2. UNCHANGED <<plan, covered, usage, now, lost>>
    BY DEF Finish
  <1>3. /\ run' \in Seq(RunRow) /\ Len(run') = Len(run)
        /\ \A i \in DOMAIN run' : Running(i)' => Running(i) /\ i # proc[p].run
    <2>1. CASE Running(proc[p].run)
      <3>1. Finished(proc[p].run, proc[p].status)
        BY <2>1 DEF Finish
      <3> QED
        BY <1>0, <3>1, Known, ClosedRow DEF Process
    <2>2. CASE ~Running(proc[p].run)
      <3>1. run' = run
        BY <2>2 DEF Finish
      <3> QED
        BY <2>2, <3>1, Known DEF Running
    <2> QED
      BY <2>1, <2>2
  <1>4. Recorded(proc[p])'
    BY <1>0, <1>1, <1>3 DEF Recorded
  <1>5. \A b \in Plans : Holds(p, b)' <=> Holds(p, b)
    <2>1. \A b \in Plans : ~Holds(p, b)
      BY <1>0, RunLedgerAssumption DEF Holds, Finish, At, Backfill, Local
    <2> QED
      BY <1>1, <2>1 DEF Holds
  <1>6. RunStep(p)
    <2>1. proc[p].candidate = 0 \/ proc[p].candidate \in lost.runs
      BY <1>0 DEF Finish, At, Local, Recorded
    <2>2. \A i : Running(i) => i \in DOMAIN run /\ i # 0
      BY Known DEF Running
    <2> QED
      BY <1>2, <1>3, <2>1, <2>2 DEF RunStep, Owns
  <1> QED
    BY <1>0, <1>1, <1>2, <1>3, <1>4, <1>5, <1>6, Known, RowStep

LEMMA CrashKeeps ==
    ASSUME LedgerInv, NEW p \in Procs, Crash(p)
    PROVE  LedgerInv'
  <1>0. /\ proc[p] \in Process /\ Local(proc[p]) /\ Recorded(proc[p]) /\ Len(run) \in Nat
    BY Known
  <1>1. /\ Alone(p) /\ ~Alive(p)' /\ Local(proc'[p])
        /\ proc'[p].run = 0 /\ proc'[p].candidate = 0 /\ proc'[p].pc = "end"
    BY EndStep DEF Crash
  <1>2. UNCHANGED <<run, plan, covered, usage, now>>
    BY DEF Crash
  <1>3. /\ lost' \in [runs : SUBSET Nat, plans : SUBSET Plans]
        /\ lost'.runs = lost.runs \cup {proc[p].run, proc[p].candidate}
        /\ lost'.plans = lost.plans \cup {b \in Plans : Holds(p, b)}
    BY <1>0, Known DEF Crash, Process
  <1>4. Recorded(proc[p])'
    BY <1>0, <1>1, <1>2 DEF Recorded
  <1>5. Grows
    BY <1>2, <1>3, Known DEF Grows
  <1>6. PlanStep(p)
    BY <1>1, <1>2, <1>3 DEF PlanStep, HoldLost, Holds
  <1>7. RunStep(p)
    BY <1>2, <1>3 DEF RunStep, Owns, Running
  <1>8. CoverStep
    BY <1>2, Known DEF CoverStep
  <1> QED
    BY <1>1, <1>4, <1>5, <1>6, <1>7, <1>8, StepKeeps

----------------------------------------------------------------------------
(* The plans: claimed, completed, failed.                                  *)

\* A step on a plan, and on no run row.
LEMMA HoldStep ==
    ASSUME LedgerInv, NEW p \in Procs, Alone(p), UNCHANGED <<run, usage, now, lost>>,
           PlanStep(p), CoverStep,
           Alive(p) => /\ Alive(p)' /\ proc'[p].run = proc[p].run
                       /\ proc'[p].candidate = proc[p].candidate,
           Local(proc'[p]), Recorded(proc[p])'
    PROVE  LedgerInv'
  <1>1. Grows
    BY Known DEF Grows
  <1>2. RunStep(p)
    BY DEF RunStep, Running, Owns
  <1> QED
    BY <1>1, <1>2, StepKeeps

LEMMA SingleStartKeeps ==
    ASSUME LedgerInv, NEW p \in Procs, NEW b \in Plans, SingleStart(p, b)
    PROVE  LedgerInv'
  <1> USE RunLedgerAssumption
  <1> DEFINE s == [proc[p] EXCEPT !.op = "single", !.pc = "open", !.plan = b, !.claimed = TRUE]
  <1>0. /\ proc \in [Procs -> Process] /\ proc[p] \in Process
        /\ Local(proc[p]) /\ Recorded(proc[p]) /\ Len(run) \in Nat
    BY Known
  <1>1. s \in Process
    <2>1. "open" \in Pcs /\ b \in Nat
      BY Numbers DEF Pcs
    <2> QED
      BY <1>0, <2>1 DEF Process
  <1>2. Alone(p) /\ proc'[p] = s
    <2>1. proc' = [proc EXCEPT ![p] = s]
      BY <1>0 DEF SingleStart, NewRun, Goto
    <2> QED
      BY <1>0, <1>1, <2>1, ProcStep
  <1>3. /\ proc'[p].op = "single" /\ proc'[p].pc = "open" /\ proc'[p].plan = b /\ proc'[p].claimed
        /\ ~proc'[p].completed /\ proc'[p].run = proc[p].run /\ proc[p].run = 0
        /\ proc'[p].candidate = proc[p].candidate /\ proc[p].candidate = 0 /\ b \in Plans
        /\ proc[p].pc = "idle"
    BY <1>0, <1>2 DEF Process, SingleStart, At, Local
  <1>4. Local(proc'[p])
    BY <1>0, <1>3, Numbers DEF Local
  <1>5. UNCHANGED <<run, covered, usage, now, lost>> /\ Claimable(b)
        /\ plan' = [plan EXCEPT ![b] = "EXECUTING"]
    BY DEF SingleStart
  <1>6. Recorded(proc[p])'
    BY <1>0, <1>3, <1>5 DEF Recorded
  <1>7. PlanStep(p)
    <2>1. \A c \in Plans : ~Holds(p, c) /\ (Holds(p, c)' <=> c = b)
      BY <1>0, <1>3 DEF Holds, Alive, Local
    <2> QED
      BY <1>3, <1>5, <2>1 DEF PlanStep, HoldTaken
  <1>8. CoverStep
    BY <1>5, Known DEF CoverStep
  <1>9. Alive(p) => /\ Alive(p)' /\ proc'[p].run = proc[p].run
                    /\ proc'[p].candidate = proc[p].candidate
    BY <1>3 DEF Alive
  <1> HIDE DEF s
  <1> QED
    BY <1>2, <1>4, <1>5, <1>6, <1>7, <1>8, <1>9, HoldStep

LEMMA SetClaimKeeps ==
    ASSUME LedgerInv, NEW p \in Procs, SetClaim(p)
    PROVE  LedgerInv'
  <1> USE RunLedgerAssumption
  <1> DEFINE b == proc[p].plan + 1
  <1> DEFINE s == [proc[p] EXCEPT !.pc = "request", !.plan = proc[p].plan + 1, !.request = 1,
                              !.returned = {}, !.claimed = TRUE, !.completed = FALSE]
  <1>0. /\ proc \in [Procs -> Process] /\ proc[p] \in Process
        /\ Local(proc[p]) /\ Recorded(proc[p]) /\ Len(run) \in Nat
    BY Known
  <1>1. s \in Process
    <2>1. "request" \in Pcs /\ proc[p].plan + 1 \in Nat
      BY <1>0 DEF Pcs, Process
    <2> QED
      BY <1>0, <2>1 DEF Process
  <1>2. Alone(p) /\ proc'[p] = s
    <2>1. proc' = [proc EXCEPT ![p] = s]
      BY <1>0 DEF SetClaim, NewRun, Goto
    <2> QED
      BY <1>0, <1>1, <2>1, ProcStep
  <1>3. /\ proc'[p].op = "set" /\ proc'[p].pc = "request" /\ proc'[p].plan = b /\ proc'[p].claimed
        /\ ~proc'[p].completed /\ proc'[p].run = proc[p].run /\ proc'[p].request = 1
        /\ proc'[p].candidate = proc[p].candidate /\ proc[p].candidate = 0 /\ b \in Plans
        /\ proc[p].pc = "claim"
    BY <1>0, <1>2 DEF Process, SetClaim, At, Local
  <1>4. Local(proc'[p])
    BY <1>0, <1>3, Numbers DEF Local
  <1>5. UNCHANGED <<run, covered, usage, now, lost>> /\ Claimable(b)
        /\ plan' = [plan EXCEPT ![b] = "EXECUTING"]
    BY DEF SetClaim
  <1>6. Recorded(proc[p])'
    BY <1>0, <1>3, <1>5 DEF Recorded
  <1>7. PlanStep(p)
    <2>1. \A c \in Plans : ~Holds(p, c) /\ (Holds(p, c)' <=> c = b)
      BY <1>0, <1>3 DEF Holds, Alive, Local
    <2> QED
      BY <1>3, <1>5, <2>1 DEF PlanStep, HoldTaken
  <1>8. CoverStep
    BY <1>5, Known DEF CoverStep
  <1>9. Alive(p) => /\ Alive(p)' /\ proc'[p].run = proc[p].run
                    /\ proc'[p].candidate = proc[p].candidate
    BY <1>3 DEF Alive
  <1> HIDE DEF s
  <1> QED
    BY <1>2, <1>4, <1>5, <1>6, <1>7, <1>8, <1>9, HoldStep

LEMMA SetClaimCutKeeps ==
    ASSUME LedgerInv, NEW p \in Procs, SetClaimCut(p)
    PROVE  LedgerInv'
  <1> USE RunLedgerAssumption
  <1> DEFINE b == proc[p].plan + 1
  <1> DEFINE s == [proc[p] EXCEPT !.pc = "fail", !.plan = proc[p].plan + 1, !.claimed = FALSE,
                              !.completed = FALSE]
  <1>0. /\ proc \in [Procs -> Process] /\ proc[p] \in Process
        /\ Local(proc[p]) /\ Recorded(proc[p]) /\ Len(run) \in Nat
    BY Known
  <1>1. s \in Process
    <2>1. "fail" \in Pcs /\ proc[p].plan + 1 \in Nat
      BY <1>0 DEF Pcs, Process
    <2> QED
      BY <1>0, <2>1 DEF Process
  <1>2. Alone(p) /\ proc'[p] = s
    <2>1. proc' = [proc EXCEPT ![p] = s]
      BY <1>0 DEF SetClaimCut
    <2> QED
      BY <1>0, <1>1, <2>1, ProcStep
  <1>3. /\ b \in Plans /\ proc[p].pc = "claim" /\ ~proc'[p].claimed
        /\ proc'[p].run = proc[p].run /\ proc'[p].candidate = proc[p].candidate
        /\ proc'[p].pc = "fail"
    BY <1>0, <1>2 DEF Process, SetClaimCut, At
  <1>4. Local(proc'[p])
    BY <1>0, <1>2 DEF Local, Process, SetClaimCut, At
  <1>5. /\ UNCHANGED <<run, covered, usage, now>> /\ Claimable(b)
        /\ plan' = [plan EXCEPT ![b] = "EXECUTING"]
    BY DEF SetClaimCut
  <1>6. /\ lost' \in [runs : SUBSET Nat, plans : SUBSET Plans]
        /\ lost'.runs = lost.runs /\ lost'.plans = lost.plans \cup {b}
    BY <1>3, Known DEF SetClaimCut
  <1>7. Recorded(proc[p])'
    BY <1>0, <1>2, <1>5 DEF Recorded, Process, SetClaimCut, At, Local
  <1>8. Grows
    BY <1>5, <1>6, Known DEF Grows
  <1>9. PlanStep(p)
    <2>1. \A c \in Plans : ~Holds(p, c) /\ ~Holds(p, c)'
      BY <1>0, <1>3 DEF Holds, Alive, Local
    <2> QED
      BY <1>3, <1>5, <1>6, <2>1 DEF PlanStep, HoldMissed
  <1>10. RunStep(p)
    BY <1>3, <1>5, <1>6 DEF RunStep, Running, Owns, Alive
  <1>11. CoverStep
    BY <1>5, Known DEF CoverStep
  <1> HIDE DEF s
  <1> QED
    BY <1>2, <1>4, <1>7, <1>8, <1>9, <1>10, <1>11, StepKeeps

LEMMA CompletePlanKeeps ==
    ASSUME LedgerInv, NEW p \in Procs, CompletePlan(p)
    PROVE  LedgerInv'
  <1> USE RunLedgerAssumption
  <1> DEFINE b == proc[p].plan
  <1> DEFINE s == [proc[p] EXCEPT !.completed = TRUE,
                   !.pc = IF proc[p].op = "single" THEN "finish" ELSE "claim",
                   !.status = IF proc[p].op = "single" THEN "COMPLETED" ELSE proc[p].status]
  <1>0. /\ proc \in [Procs -> Process] /\ proc[p] \in Process
        /\ Local(proc[p]) /\ Recorded(proc[p]) /\ Len(run) \in Nat
    BY Known
  <1>1. s \in Process
    <2>1. /\ (IF proc[p].op = "single" THEN "finish" ELSE "claim") \in Pcs
          /\ (IF proc[p].op = "single" THEN "COMPLETED" ELSE proc[p].status)
               \in {"STOPPED", "FAILED", "COMPLETED"}
      BY <1>0 DEF Pcs, Process
    <2> QED
      BY <1>0, <2>1 DEF Process
  <1>2. Alone(p) /\ proc'[p] = s
    <2>1. proc' = [proc EXCEPT ![p] = s]
      BY <1>0 DEF CompletePlan, NewRun, Goto
    <2> QED
      BY <1>0, <1>1, <2>1, ProcStep
  <1>3. /\ proc'[p].op = proc[p].op /\ proc'[p].run = proc[p].run /\ proc'[p].candidate = 0
        /\ proc'[p].pc = (IF proc[p].op = "single" THEN "finish" ELSE "claim")
        /\ proc'[p].plan = b /\ proc'[p].claimed = proc[p].claimed /\ proc'[p].completed
        /\ proc[p].op \in {"single", "set"} /\ proc[p].pc = "complete" /\ proc[p].candidate = 0
        /\ proc[p].claimed /\ ~proc[p].completed /\ b \in Plans
        /\ proc[p].request = Cardinality(Requests) + 1
    BY <1>0, <1>2 DEF Process, CompletePlan, At, Local, Backfill
  <1>4. Local(proc'[p])
    BY <1>0, <1>3 DEF Local
  <1>5. UNCHANGED <<run, usage, now, lost>> /\ plan' = [plan EXCEPT ![b] = "COMPLETED"]
    BY DEF CompletePlan
  <1>6. Recorded(proc[p])'
    BY <1>0, <1>3, <1>5 DEF Recorded
  <1>7. PlanStep(p)
    <2>1. Holds(p, b) /\ \A c \in Plans : ~Holds(p, c)'
      BY <1>3 DEF Holds, Alive
    <2> QED
      BY <1>3, <1>5, <2>1 DEF PlanStep, HoldDropped
  <1>8. CoverStep
    <2> DEFINE x == IF proc[p].returned = {} THEN "EMPTY" ELSE "DATA"
    <2>1. covered' = [covered EXCEPT ![b] = x] /\ x \in {"DATA", "EMPTY"} /\ x # None
      BY DEF CompletePlan
    <2> HIDE DEF x
    <2>2. covered' \in [Plans -> {None, "DATA", "EMPTY"}] /\ covered'[b] # None
      BY <1>3, <2>1, Known
    <2>3. \E i \in DOMAIN run' : \A q \in Requests : Done(i, b, q) \in usage'
      <3>1. proc[p].run \in DOMAIN run
        BY <1>0, <1>3, Known DEF Recorded
      <3>2. \A q \in Requests : q \in 1 .. proc[p].request - 1
        BY <1>3, Numbers
      <3>3. \A q \in Requests : Done(proc[p].run, b, q) \in usage
        BY <1>0, <1>3, <3>2 DEF Recorded
      <3> QED
        BY <1>5, <3>1, <3>3
    <2>4. \A c \in Plans : c # b => plan'[c] = plan[c] /\ covered'[c] = covered[c]
      BY <1>5, <2>1, Known
    <2> QED
      <3> SUFFICES ASSUME NEW c \in Plans, plan'[c] = "COMPLETED", plan[c] # "COMPLETED" \/ covered'[c] # covered[c]
                   PROVE  covered'[c] # None /\ Accounted(c)'
        BY <2>2 DEF CoverStep
      <3>1. c = b
        BY <2>4
      <3> QED
        BY <2>2, <2>3, <3>1 DEF Accounted
  <1>9. Alive(p)' /\ proc'[p].run = proc[p].run /\ proc'[p].candidate = proc[p].candidate
    BY <1>3 DEF Alive
  <1> HIDE DEF s
  <1> QED
    BY <1>2, <1>4, <1>5, <1>6, <1>7, <1>8, <1>9, HoldStep

LEMMA FailPlanKeeps ==
    ASSUME LedgerInv, NEW p \in Procs, FailPlan(p)
    PROVE  LedgerInv'
  <1> USE RunLedgerAssumption
  <1> DEFINE b == proc[p].plan
  <1> DEFINE s == [proc[p] EXCEPT !.pc = "finish"]
  <1>0. /\ proc \in [Procs -> Process] /\ proc[p] \in Process
        /\ Local(proc[p]) /\ Recorded(proc[p]) /\ Len(run) \in Nat
    BY Known
  <1>1. s \in Process
    <2>1. "finish" \in Pcs
      BY DEF Pcs
    <2> QED
      BY <1>0, <2>1 DEF Process
  <1>2. Alone(p) /\ proc'[p] = s
    <2>1. proc' = [proc EXCEPT ![p] = s]
      BY <1>0 DEF FailPlan, NewRun, Goto
    <2> QED
      BY <1>0, <1>1, <2>1, ProcStep
  <1>3. /\ proc'[p].op = proc[p].op /\ proc'[p].run = proc[p].run
        /\ proc'[p].candidate = proc[p].candidate /\ proc'[p].pc = "finish"
        /\ proc'[p].plan = b /\ proc'[p].claimed = proc[p].claimed
        /\ proc'[p].completed = proc[p].completed
        /\ proc[p].op \in {"single", "set"} /\ proc[p].pc = "fail" /\ proc[p].candidate = 0
        /\ (proc[p].claimed => b \in Plans)
    BY <1>0, <1>2 DEF Process, FailPlan, At, Local, Backfill
  <1>4. Local(proc'[p])
    BY <1>0, <1>3 DEF Local
  <1>5. UNCHANGED <<run, covered, usage, now, lost>>
    BY DEF FailPlan
  <1>6. Recorded(proc[p])'
    BY <1>0, <1>3, <1>5 DEF Recorded
  <1>7. \A c \in Plans : ~Holds(p, c)'
    BY <1>3 DEF Holds
  <1>8. PlanStep(p) /\ CoverStep
    <2>1. CASE proc[p].claimed /\ ~proc[p].completed
      <3>1. b \in Plans /\ Holds(p, b)
        BY <1>3, <2>1 DEF Holds, Alive
      <3>2. plan[b] = "EXECUTING"
        BY <3>1 DEF LedgerInv, HoldersAgree
      <3>3. plan' = [plan EXCEPT ![b] = "FAILED"]
        BY <2>1, <3>2 DEF FailPlan
      <3> QED
        BY <1>5, <1>7, <3>1, <3>3, Known DEF PlanStep, HoldDropped, CoverStep
    <2>2. CASE ~(proc[p].claimed /\ ~proc[p].completed)
      <3>1. plan' = plan
        BY <2>2 DEF FailPlan
      <3>2. \A c \in Plans : ~Holds(p, c)
        BY <2>2 DEF Holds
      <3> QED
        BY <1>5, <1>7, <3>1, <3>2, Known DEF PlanStep, HoldKept, CoverStep
    <2> QED
      BY <2>1, <2>2
  <1>9. Alive(p)' /\ proc'[p].run = proc[p].run /\ proc'[p].candidate = proc[p].candidate
    BY <1>3 DEF Alive
  <1> HIDE DEF s
  <1> QED
    BY <1>2, <1>4, <1>5, <1>6, <1>8, <1>9, HoldStep

----------------------------------------------------------------------------
(* The operator and the clock: no process acts.                            *)

LEMMA RegisterKeeps ==
    ASSUME LedgerInv, NEW b \in Plans, Register(b)
    PROVE  LedgerInv'
  <1> USE DEF LedgerInv
  <1>1. LedgerTypeOK'
    BY DEF LedgerTypeOK, Register
  <1>2. /\ UNCHANGED <<run, covered, usage, proc, now, lost>> /\ plan[b] = "ABSENT"
        /\ plan'[b] = "PLANNED" /\ \A c \in Plans : c # b => plan'[c] = plan[c]
    BY DEF Register, LedgerTypeOK
  <1>3. Commands'
    BY <1>2 DEF Commands, Local, Recorded
  <1>4. HoldersAgree'
    BY <1>2 DEF HoldersAgree, Holds, Alive
  <1>5. RunsAreOwned' /\ CompletedIsAccounted'
    BY <1>2 DEF RunsAreOwned, Running, Alive, CompletedIsAccounted
  <1> QED
    BY <1>1, <1>3, <1>4, <1>5

\* Rows that are closed and the clock touch neither commands nor plans.
LEMMA OperatorStep ==
    ASSUME LedgerInv, UNCHANGED <<plan, covered, usage, proc, lost>>, now' \in Nat,
           run' \in Seq(RunRow), Len(run') = Len(run),
           \A i \in DOMAIN run' : Running(i)' => Running(i)
    PROVE  LedgerInv'
  <1> USE DEF LedgerInv
  <1>1. LedgerTypeOK'
    BY DEF LedgerTypeOK
  <1>2. DOMAIN run' = DOMAIN run
    BY DEF LedgerTypeOK
  <1>3. Commands'
    BY DEF Commands, Local, Recorded
  <1>4. HoldersAgree'
    BY DEF HoldersAgree, Holds, Alive
  <1>5. RunsAreOwned'
    BY <1>2 DEF RunsAreOwned, Alive
  <1>6. CompletedIsAccounted'
    BY <1>2 DEF CompletedIsAccounted
  <1> QED
    BY <1>1, <1>3, <1>4, <1>5, <1>6

\* reconcile_stale_ingestion_runs changes only rows that are RUNNING.
LEMMA ReconciledRows ==
    ASSUME run \in Seq(RunRow), Reconcile
    PROVE  /\ run' \in Seq(RunRow) /\ Len(run') = Len(run)
           /\ \A i \in DOMAIN run : run[i].status # "RUNNING" => run'[i] = run[i]
           /\ \A i \in DOMAIN run' : Running(i)' => Running(i)
  <1> DEFINE row(i) == IF i \in review.targets THEN [run[i] EXCEPT !.status = "FAILED"] ELSE run[i]
  <1>1. run' = [i \in 1 .. Len(run) |-> row(i)] /\ DOMAIN run = 1 .. Len(run) /\ Len(run) \in Nat
    BY DEF Reconcile
  <1>2. ASSUME NEW i \in 1 .. Len(run)
        PROVE  row(i) \in RunRow /\ (row(i).status = "RUNNING" => run[i].status = "RUNNING")
    <2>1. run[i] \in RunRow
      BY <1>1
    <2>2. /\ [run[i] EXCEPT !.status = "FAILED"] \in RunRow
          /\ [run[i] EXCEPT !.status = "FAILED"].status = "FAILED"
      BY <2>1 DEF RunRow
    <2> QED
      BY <2>1, <2>2
  <1>3. \A i \in review.targets : run[i].status = "RUNNING"
    BY DEF Reconcile, Stale
  <1>4. \A i \in 1 .. Len(run) : run[i].status # "RUNNING" => row(i) = run[i]
    BY <1>3
  <1> HIDE DEF row
  <1>5. /\ run' \in Seq(RunRow) /\ Len(run') = Len(run) /\ DOMAIN run' = 1 .. Len(run)
        /\ \A i \in 1 .. Len(run) : run'[i] = row(i)
    BY <1>1, <1>2
  <1> QED
    BY <1>1, <1>2, <1>4, <1>5 DEF Running

----------------------------------------------------------------------------
(* The specification.                                                      *)

LEMMA LedgerInit == Init => LedgerInv
  <1> SUFFICES ASSUME Init PROVE LedgerInv
    OBVIOUS
  <1> USE RunLedgerAssumption DEF Init
  <1>1. Idle \in Process
    BY DEF Process, Idle, Pcs, Bases
  <1>2. LedgerTypeOK
    BY <1>1 DEF LedgerTypeOK
  <1>3. /\ Idle.op = None /\ Idle.pc = "idle" /\ Idle.run = 0 /\ Idle.candidate = 0
        /\ Idle.claimed = FALSE /\ Idle.completed = FALSE
    BY DEF Idle
  <1>4. \A p \in Procs : proc[p] = Idle
    OBVIOUS
  <1> HIDE DEF Init
  <1>5. Len(run) = 0 /\ DOMAIN run = {} /\ \A b \in Plans : plan[b] = "ABSENT"
    BY DEF Init
  <1>6. Commands
    BY <1>3, <1>4, <1>5 DEF Commands, Local, Recorded
  <1>7. HoldersAgree
    BY <1>3, <1>4, <1>5 DEF HoldersAgree, Holds, Alive
  <1>8. RunsAreOwned /\ CompletedIsAccounted
    BY <1>5 DEF RunsAreOwned, CompletedIsAccounted
  <1> QED
    BY <1>2, <1>6, <1>7, <1>8 DEF LedgerInv

LEMMA LedgerNext == LedgerInv /\ [Next]_vars => LedgerInv'
  <1> SUFFICES ASSUME LedgerInv, [Next]_vars PROVE LedgerInv'
    OBVIOUS
  <1>1. ASSUME NEW p \in Procs, NEW c \in Configs,
               IngestStart(p, c) \/ ReloadRun(p, c) \/ ReloadRunCut(p, c)
        PROVE  LedgerInv'
    BY <1>1, IngestStartKeeps, ReloadRunKeeps, ReloadRunCutKeeps
  <1>2. ASSUME NEW p \in Procs,
               \/ IngestRun(p) \/ ReloadStart(p) \/ ReloadGivenUp(p) \/ ReloadRejected(p)
               \/ ReloadAccepted(p) \/ ReloadCut(p)
               \/ \E s \in {"STOPPED", "FAILED"} : Stop(p, s)
        PROVE  LedgerInv'
    BY <1>2, IngestRunKeeps, ReloadStartKeeps, ReloadGivenUpKeeps, ReloadRejectedKeeps,
       ReloadAcceptedKeeps, ReloadCutKeeps, StopKeeps
  <1>3. ASSUME NEW p \in Procs,
               \/ \E b \in Plans : SingleStart(p, b)
               \/ SetStart(p) \/ OpenRun(p) \/ SetClaim(p) \/ SetClaimCut(p)
               \/ SetSkip(p) \/ SetRefused(p) \/ SetDone(p)
        PROVE  LedgerInv'
    BY <1>3, SingleStartKeeps, SetStartKeeps, OpenRunKeeps, SetClaimKeeps, SetClaimCutKeeps,
       SetSkipKeeps, SetRefusedKeeps, SetDoneKeeps
  <1>4. ASSUME NEW p \in Procs,
               \/ RequestStart(p) \/ \E bases \in SUBSET Bases : RequestDone(p, bases)
               \/ CompletePlan(p) \/ Raises(p) \/ FailPlan(p) \/ Finish(p) \/ Crash(p)
        PROVE  LedgerInv'
    BY <1>4, RequestStartKeeps, RequestDoneKeeps, CompletePlanKeeps, RaisesKeeps, FailPlanKeeps,
       FinishKeeps, CrashKeeps
  <1>5. ASSUME NEW b \in Plans, Register(b) PROVE LedgerInv'
    BY <1>5, RegisterKeeps
  <1>6. run \in Seq(RunRow) /\ now \in Nat
    BY DEF LedgerInv, LedgerTypeOK
  <1>7. ASSUME NEW c \in Configs, NEW t \in 1 .. MaxTime, PlanReconciliation(c, t) PROVE LedgerInv'
    BY <1>6, <1>7, OperatorStep DEF PlanReconciliation, Running
  <1>8. CASE Reconcile
    BY <1>6, <1>8, ReconciledRows, OperatorStep DEF Reconcile
  <1>9. CASE Tick
    BY <1>6, <1>9, OperatorStep DEF Tick, Running
  <1>10. CASE UNCHANGED vars
    BY <1>6, <1>10, OperatorStep DEF vars, Running
  <1> QED
    BY <1>1, <1>2, <1>3, <1>4, <1>5, <1>7, <1>8, <1>9, <1>10 DEF Next

\* The run rows, the plans, the usage rows and the commands agree in every
\* reachable state.
THEOREM LedgerInvariant == Spec => []LedgerInv
  BY LedgerInit, LedgerNext, PTL DEF Spec

\* At most one process works on a backfill plan, and an EXECUTING plan is being
\* worked on or its process died (claim_backfill_plan, fail_backfill_plan).
THEOREM PlansHeld == Spec => []PlansAreHeld
  <1>1. LedgerInv => PlansAreHeld
    <2> SUFFICES ASSUME LedgerInv, NEW b \in Plans
                 PROVE  /\ Cardinality({p \in Procs : Holds(p, b)}) =< 1
                        /\ plan[b] = "EXECUTING" => {p \in Procs : Holds(p, b)} # {} \/ b \in lost.plans
      BY DEF PlansAreHeld
    <2> DEFINE holders == {p \in Procs : Holds(p, b)}
    <2>1. CASE holders = {}
      BY <2>1, FS_EmptySet DEF LedgerInv, HoldersAgree
    <2>2. ASSUME NEW p \in holders PROVE holders = {p}
      BY DEF LedgerInv, HoldersAgree
    <2>3. CASE holders # {}
      BY <2>2, <2>3, FS_Singleton
    <2> QED
      BY <2>1, <2>3
  <1> QED
    BY <1>1, LedgerInvariant, PTL

\* A RUNNING row belongs to a process that is going to close it, or it is one of
\* those that a death or a cancelled reload left behind (start_run, finish_run).
THEOREM RunsOwned == Spec => []RunsAreOwned
  <1>1. LedgerInv => RunsAreOwned
    BY DEF LedgerInv
  <1> QED
    BY <1>1, LedgerInvariant, PTL

\* A completed plan has its coverage and, from one run, a completed usage row for
\* every request of its range (complete_backfill_plan).
THEOREM CompletedAccounted == Spec => []CompletedIsAccounted
  <1>1. LedgerInv => CompletedIsAccounted
    BY DEF LedgerInv
  <1> QED
    BY <1>1, LedgerInvariant, PTL

\* No step changes a run that has ended or a plan that is completed, whoever
\* takes it (finish_run, reconcile_stale_ingestion_runs, claim_backfill_plan).
THEOREM LedgerFinal == Spec => LedgerIsFinal
  <1> DEFINE Kept == \A i \in DOMAIN run :
                       run[i].status # "RUNNING" => i \in DOMAIN run' /\ run'[i] = run[i]
  <1> DEFINE Stays == \A b \in Plans : plan[b] = "COMPLETED" =>
                        plan'[b] = "COMPLETED" /\ covered'[b] = covered[b]
  <1>1. ASSUME LedgerInv, Next PROVE Kept
    <2>0. run \in Seq(RunRow) /\ now \in Nat
      BY <1>1 DEF LedgerInv, LedgerTypeOK
    <2>1. CASE UNCHANGED run
      BY <2>1
    <2>2. ASSUME NEW kind \in {"INGESTION", "BACKFILL"}, NEW config \in Configs \cup {None},
                 NEW at \in Nat, StartRun(kind, config, at)
          PROVE  Kept
      BY <2>0, <2>2, NewRow
    <2>3. ASSUME NEW i \in Nat, NEW status \in {"STOPPED", "FAILED", "COMPLETED"}, Finished(i, status)
          PROVE  Kept
      <3>1. \A j \in DOMAIN run : j # i => run'[j] = run[j]
        BY <2>0, <2>3, ClosedRow
      <3>2. run[i].status = "RUNNING" /\ Len(run') = Len(run) /\ run' \in Seq(RunRow)
        BY <2>0, <2>3, ClosedRow DEF Finished, Running
      <3> QED
        BY <2>0, <3>1, <3>2
    <2>4. CASE Reconcile
      BY <2>0, <2>4, ReconciledRows
    <2>5. ASSUME NEW p \in Procs PROVE proc[p] \in Process
      BY <1>1, Known
    <2>6. ASSUME NEW p \in Procs, IngestRun(p) \/ \E c \in Configs : ReloadRun(p, c) \/ ReloadRunCut(p, c)
          PROVE  Kept
      <3>1. proc[p].config \in Configs \cup {None} /\ proc[p].at \in Nat
        BY <2>5 DEF Process
      <3> HIDE DEF Kept
      <3> QED
        BY <2>2, <2>6, <3>1 DEF IngestRun, ReloadRun, ReloadRunCut
    <2>7. ASSUME NEW p \in Procs, OpenRun(p) PROVE Kept
      <3> HIDE DEF Kept
      <3> QED
        BY <2>0, <2>2, <2>7 DEF OpenRun
    <2>8. ASSUME NEW p \in Procs, ReloadRejected(p) \/ ReloadAccepted(p) \/ ReloadCut(p) \/ Finish(p)
          PROVE  Kept
      <3>1. /\ proc[p].run \in Nat /\ proc[p].candidate \in Nat
            /\ proc[p].status \in {"STOPPED", "FAILED", "COMPLETED"}
        BY <2>5 DEF Process
      <3> HIDE DEF Kept
      <3> QED
        BY <2>1, <2>3, <2>8, <3>1 DEF ReloadRejected, ReloadAccepted, ReloadCut, Finish
    <2>9. ASSUME NEW p \in Procs,
                 \/ \E c \in Configs : IngestStart(p, c)
                 \/ ReloadStart(p) \/ ReloadGivenUp(p) \/ \E s \in {"STOPPED", "FAILED"} : Stop(p, s)
                 \/ \E b \in Plans : SingleStart(p, b)
                 \/ SetStart(p) \/ SetClaim(p) \/ SetClaimCut(p)
               \/ SetSkip(p) \/ SetRefused(p) \/ SetDone(p)
                 \/ RequestStart(p) \/ \E bases \in SUBSET Bases : RequestDone(p, bases)
                 \/ CompletePlan(p) \/ Raises(p) \/ FailPlan(p) \/ Crash(p)
          PROVE  UNCHANGED run
      BY <2>9 DEF IngestStart, ReloadStart, ReloadGivenUp, Stop, SingleStart, SetStart, SetClaim,
                  SetClaimCut, SetSkip, SetRefused, SetDone, RequestStart, RequestDone, CompletePlan, Raises,
                  FailPlan, Crash
    <2>10. ASSUME (\E b \in Plans : Register(b)) \/ Tick
                  \/ \E c \in Configs, t \in 1 .. MaxTime : PlanReconciliation(c, t)
           PROVE  UNCHANGED run
      BY <2>10 DEF Register, PlanReconciliation, Tick
    <2> HIDE DEF Kept
    <2> QED
      BY <1>1, <2>1, <2>4, <2>6, <2>7, <2>8, <2>9, <2>10 DEF Next
  <1>2. ASSUME LedgerInv, Next PROVE Stays
    <2>0. plan \in [Plans -> {"ABSENT", "PLANNED", "EXECUTING", "FAILED", "COMPLETED"}]
          /\ covered \in [Plans -> {None, "DATA", "EMPTY"}]
      BY <1>2 DEF LedgerInv, LedgerTypeOK
    <2>1. CASE UNCHANGED <<plan, covered>>
      BY <2>1
    <2>2. ASSUME NEW b, plan[b] # "COMPLETED", NEW x, plan' = [plan EXCEPT ![b] = x],
                 \/ UNCHANGED covered \/ \E y : covered' = [covered EXCEPT ![b] = y]
          PROVE  Stays
      BY <2>0, <2>2
    <2> HIDE DEF Stays
    <2>3. ASSUME NEW p \in Procs, NEW b \in Plans, SingleStart(p, b) PROVE Stays
      BY <2>2, <2>3 DEF SingleStart, Claimable
    <2>4. ASSUME NEW p \in Procs, SetClaim(p) \/ SetClaimCut(p) PROVE Stays
      BY <2>2, <2>4 DEF SetClaim, SetClaimCut, Claimable
    <2>5. ASSUME NEW p \in Procs, CompletePlan(p) PROVE Stays
      BY <2>2, <2>5 DEF CompletePlan
    <2>6. ASSUME NEW p \in Procs, FailPlan(p) PROVE Stays
      BY <2>1, <2>2, <2>6 DEF FailPlan
    <2>7. ASSUME NEW b \in Plans, Register(b) PROVE Stays
      BY <2>2, <2>7 DEF Register
    <2>8. ASSUME NEW p \in Procs,
                 \/ \E c \in Configs : IngestStart(p, c) \/ ReloadRun(p, c) \/ ReloadRunCut(p, c)
                 \/ IngestRun(p) \/ ReloadStart(p) \/ ReloadGivenUp(p) \/ ReloadRejected(p)
                 \/ ReloadAccepted(p) \/ ReloadCut(p)
                 \/ \E s \in {"STOPPED", "FAILED"} : Stop(p, s)
                 \/ SetStart(p) \/ OpenRun(p) \/ SetSkip(p) \/ SetRefused(p) \/ SetDone(p)
                 \/ RequestStart(p) \/ \E bases \in SUBSET Bases : RequestDone(p, bases)
                 \/ Raises(p) \/ Finish(p) \/ Crash(p)
          PROVE  UNCHANGED <<plan, covered>>
      BY <2>8 DEF IngestStart, IngestRun, ReloadStart, ReloadRun, ReloadRunCut, ReloadGivenUp,
                  ReloadRejected, ReloadAccepted, ReloadCut, Stop, SetStart, OpenRun, SetSkip,
                  SetRefused, SetDone, RequestStart, RequestDone, Raises, Finish, Crash
    <2>9. ASSUME Reconcile \/ Tick \/ \E c \in Configs, t \in 1 .. MaxTime : PlanReconciliation(c, t)
          PROVE  UNCHANGED <<plan, covered>>
      BY <2>9 DEF Reconcile, PlanReconciliation, Tick
    <2> QED
      BY <1>2, <2>1, <2>3, <2>4, <2>5, <2>6, <2>7, <2>8, <2>9 DEF Next
  <1>3. LedgerInv /\ [Next]_vars => [Kept /\ Stays]_vars
    BY <1>1, <1>2
  <1> QED
    BY <1>3, LedgerInvariant, PTL DEF Spec, LedgerIsFinal
=============================================================================

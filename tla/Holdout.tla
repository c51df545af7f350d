------------------------------- MODULE Holdout --------------------------------
(***************************************************************************)
(* The lifecycle of a sealed R2 holdout in the file system                 *)
(* (runtime/r2_holdout.py): a preparation is revealed once, in the root it *)
(* was written to or in the one it was transferred to; a reveal that died  *)
(* is closed by a recovery.  There is no lock: the protocol rests on       *)
(* create-only files, os.replace and what each command reads first.        *)
(*                                                                         *)
(* One seal.  A root holds the claim file, its ".next" temporary, the      *)
(* usage file and the lifecycle files; only the source root holds the      *)
(* transfer intent.  Every process runs one command and may die between    *)
(* two file operations.  Identities, hashes and the sealed children are    *)
(* taken to be right: all commands name the same selection and seal.       *)
(***************************************************************************)
EXTENDS Integers, FiniteSets

CONSTANTS
    Procs,      \* processes, one command each
    Dests,      \* destination roots of a transfer
    Src,        \* the root write_holdout_preparation published
    None,       \* no file, no destination
    MixedRace   \* may a transfer run beside a reveal or recovery of the source?

ASSUME HoldoutAssumption ==
    /\ Src \notin Dests /\ None \notin Dests \cup {Src}
    /\ None \notin {"UNOPENED", "OPENED", "TRANSFERRED", "reveal", "recover", "transfer"}
    /\ IsFiniteSet(Procs)
    /\ MixedRace \in BOOLEAN

VARIABLES
    root,     \* the files of each root
    intent,   \* the destination in the source's transfer intent file
    staged,   \* destinations whose staging directory is complete
    proc,     \* what each process is doing
    readers   \* history: processes that read the realised outcomes

vars == <<root, intent, staged, proc, readers>>

Roots == Dests \cup {Src}

\* The files of a reveal.  outcome-target.json and outcome-evidence.json are
\* indexes of part files in a directory of their own, which is written first.
Lifecycle == {"opened", "target.parts", "target", "evidence.parts", "evidence", "evaluation"}

\* consumed is the evaluation id bound by consumed.json.
NoRoot == [claim |-> None, next |-> None, usage |-> None, files |-> {}, consumed |-> None]

\* write_holdout_preparation publishes a complete directory with os.replace.
Init ==
    /\ root = [r \in Roots |-> IF r = Src THEN [NoRoot EXCEPT !.claim = "UNOPENED"] ELSE NoRoot]
    /\ intent = None
    /\ staged = {}
    /\ proc = [p \in Procs |-> [op |-> None, pc |-> "start", at |-> None, claim |-> None]]
    /\ readers = {}

Exists(r) == root[r].claim # None

\* _reject_orphans: part files that no index names.
Orphans(r) ==
    \/ "target.parts" \in root[r].files /\ "target" \notin root[r].files
    \/ "evidence.parts" \in root[r].files /\ "evidence" \notin root[r].files

\* Mutation of Verifies: a usage claim is required of every transferred root.
VerifiesStrict(r, allowIncomplete) ==
    /\ Exists(r)
    /\ r = Src /\ intent # None => root[r].claim \in {"UNOPENED", "TRANSFERRED"}
    /\ root[r].usage # None => r \in Dests \/ root[r].claim = "TRANSFERRED"
    /\ (r \in Dests \/ root[r].claim = "TRANSFERRED") => root[r].usage # None
    /\ root[r].next # None =>
         /\ root[r].claim = "UNOPENED"
         /\ root[r].next = IF r \in Dests THEN "OPENED" ELSE "TRANSFERRED"
    /\ ~Orphans(r)

\* Mutation of Verifies: lifecycle files are orphans.
VerifiesNoLifecycle(r, allowIncomplete) ==
    /\ Exists(r)
    /\ root[r].files = {}

\* verify_holdout_preparation, on the files that the lifecycle changes.
Verifies(r, allowIncomplete) ==
    /\ Exists(r)
    /\ r = Src /\ intent # None => root[r].claim \in {"UNOPENED", "TRANSFERRED"}
    /\ root[r].usage # None => r \in Dests \/ root[r].claim = "TRANSFERRED"
    /\ (r \in Dests \/ root[r].claim = "TRANSFERRED") /\ root[r].usage = None =>
         allowIncomplete /\ root[r].claim = "TRANSFERRED"
    /\ root[r].next # None =>
         /\ root[r].claim = "UNOPENED"
         /\ root[r].next = IF r \in Dests THEN "OPENED" ELSE "TRANSFERRED"
    /\ ~Orphans(r)

----------------------------------------------------------------------------
(* Processes.                                                              *)

At(p, op, pc) == proc[p].op = op /\ proc[p].pc = pc
Goto(p, pc) == proc' = [proc EXCEPT ![p].pc = pc]
End(p) == Goto(p, "end")
Running(p) == proc[p].op # None /\ proc[p].pc # "end"

OnSource(op, r) == op \in {"reveal", "recover"} /\ r = Src
Compatible(op, r) ==
    MixedRace \/ \A q \in Procs : Running(q) =>
        /\ op = "transfer" => ~OnSource(proc[q].op, proc[q].at)
        /\ OnSource(op, r) => proc[q].op # "transfer"

Start(p, op, r) ==
    /\ proc[p].op = None
    /\ Compatible(op, r)
    /\ proc' = [proc EXCEPT ![p] = [op |-> op, pc |-> "check", at |-> r, claim |-> None]]
    /\ UNCHANGED <<root, intent, staged, readers>>

\* The process dies; the files stay as they are.
Crash(p) ==
    /\ Running(p)
    /\ End(p)
    /\ UNCHANGED <<root, intent, staged, readers>>

\* _replace_json, first half: the ".next" file is created, or is already there
\* with the same bytes.
Temporary(r, claim) == root[r].next \in {None, claim}
WriteNext(r, claim) == root' = [root EXCEPT ![r].next = claim]

\* Second half, os.replace: whatever ".next" holds becomes the claim.
SwapNext(r) == root' = [root EXCEPT ![r].claim = root[r].next, ![r].next = None]

----------------------------------------------------------------------------
(* reveal_holdout                                                          *)

\* Everything it reads before the first write.
RevealCheck(p) ==
    LET r == proc[p].at IN
    /\ At(p, "reveal", "check")
    /\ IF /\ Verifies(r, FALSE)
          /\ root[r].consumed = None
          /\ root[r].claim \in {"UNOPENED", "OPENED"}
       THEN Goto(p, "open") ELSE End(p)
    /\ UNCHANGED <<root, intent, staged, readers>>

\* Mutation of RevealOpen: an existing marker is overwritten.
RevealOpenOverwrites(p) ==
    LET r == proc[p].at IN
    /\ At(p, "reveal", "open")
    /\ root' = [root EXCEPT ![r].files = @ \cup {"opened"}]
    /\ Goto(p, "claim")
    /\ UNCHANGED <<intent, staged, readers>>

\* _write_opened_marker, create-only: it raises when the file exists.
RevealOpen(p) ==
    LET r == proc[p].at IN
    /\ At(p, "reveal", "open")
    /\ IF "opened" \in root[r].files
       THEN End(p) /\ UNCHANGED root
       ELSE root' = [root EXCEPT ![r].files = @ \cup {"opened"}] /\ Goto(p, "claim")
    /\ UNCHANGED <<intent, staged, readers>>

\* _claim_preparation: read the claim, then the first half of its replacement.
\* done is where the process goes on with a claim that is OPENED, failed where
\* an exception takes it.
Claim(p, done, failed) ==
    LET r == proc[p].at IN
    /\ CASE root[r].claim = "OPENED" -> Goto(p, done) /\ UNCHANGED root
         [] root[r].claim = "UNOPENED" /\ Temporary(r, "OPENED") ->
                WriteNext(r, "OPENED") /\ Goto(p, "swap")
         [] OTHER -> Goto(p, failed) /\ UNCHANGED root
    /\ UNCHANGED <<intent, staged, readers>>

Swap(p, done, failed) ==
    /\ IF root[proc[p].at].next = None
       THEN Goto(p, failed) /\ UNCHANGED root
       ELSE SwapNext(proc[p].at) /\ Goto(p, done)
    /\ UNCHANGED <<intent, staged, readers>>

RevealClaim(p) == At(p, "reveal", "claim") /\ Claim(p, "load", "fail")
RevealSwap(p) == At(p, "reveal", "swap") /\ Swap(p, "load", "fail")

\* outcome_loader() reads the realised outcomes.
RevealLoad(p) ==
    /\ At(p, "reveal", "load")
    /\ readers' = readers \cup {p}
    /\ Goto(p, "target.parts")
    /\ UNCHANGED <<root, intent, staged>>

NextFile(file) ==
    CASE file = "target.parts" -> "target" [] file = "target" -> "evidence.parts"
      [] file = "evidence.parts" -> "evidence" [] file = "evidence" -> "evaluation"
      [] file = "evaluation" -> "consume"

\* The create-only files of a successful reveal, one after the other;
\* write_partitioned_rows refuses parts that are there already, or an index.
RevealWrite(p, file) ==
    LET r == proc[p].at IN
    /\ At(p, "reveal", file)
    /\ IF file \in root[r].files
       THEN Goto(p, "fail") /\ UNCHANGED root
       ELSE root' = [root EXCEPT ![r].files = @ \cup {file}] /\ Goto(p, NextFile(file))
    /\ UNCHANGED <<intent, staged, readers>>

\* Any exception inside the try: a loader, a check, the evaluator, an interrupt.
RevealRaises(p) ==
    /\ proc[p].op = "reveal"
    /\ proc[p].pc \in {"claim", "swap", "load", "consume"} \cup (Lifecycle \ {"opened"})
    /\ Goto(p, "fail")
    /\ UNCHANGED <<root, intent, staged, readers>>

\* An exception while part files are written: _cleanup removes them.
RevealCleanup(p) ==
    /\ proc[p].op = "reveal" /\ proc[p].pc \in {"target", "evidence"}
    /\ \E parts \in {"target.parts", "evidence.parts"} :
          /\ NextFile(parts) = proc[p].pc
          /\ root' = [root EXCEPT ![proc[p].at].files = @ \ {parts}]
    /\ Goto(p, "fail")
    /\ UNCHANGED <<intent, staged, readers>>

\* consumed.json is create-only too.
Consume(p, evaluation) ==
    LET r == proc[p].at IN
    /\ root' = IF root[r].consumed = None
               THEN [root EXCEPT ![r].consumed = evaluation] ELSE root
    /\ End(p)
    /\ UNCHANGED <<intent, staged, readers>>

\* The finally clause.
RevealConsume(p) ==
    \/ At(p, "reveal", "consume") /\ Consume(p, "EVALUATION")
    \/ At(p, "reveal", "fail") /\ Consume(p, "FAILURE")

----------------------------------------------------------------------------
(* recover_holdout_consumption                                             *)

RecoverCheck(p) ==
    /\ At(p, "recover", "check")
    /\ IF Verifies(proc[p].at, FALSE) THEN Goto(p, "claim") ELSE End(p)
    /\ UNCHANGED <<root, intent, staged, readers>>

\* The claim is taken before the opened marker is read.
RecoverClaim(p) == At(p, "recover", "claim") /\ Claim(p, "consume", "end")
RecoverSwap(p) == At(p, "recover", "swap") /\ Swap(p, "consume", "end")

RecoverConsume(p) ==
    /\ At(p, "recover", "consume")
    /\ IF "opened" \in root[proc[p].at].files
       THEN Consume(p, "FAILURE")
       ELSE End(p) /\ UNCHANGED <<root, intent, staged, readers>>

----------------------------------------------------------------------------
(* prepare_holdout_from_files: the transfer to destination proc[p].at.     *)

\* What it requires before it writes anything.
TransferAccepted(d) ==
    /\ Verifies(Src, TRUE)
    /\ root[Src].files = {} /\ root[Src].consumed = None
    /\ root[Src].claim \in {"UNOPENED", "TRANSFERRED"}
    /\ IF intent = None THEN root[Src].claim # "TRANSFERRED" ELSE intent = d
    /\ root[Src].claim = "TRANSFERRED" => root[Src].usage \in {None, d}
    /\ Exists(d) => root[Src].claim = "TRANSFERRED" /\ Verifies(d, FALSE)

\* The claim read here is the one the later steps rely on.
TransferCheck(p) ==
    LET d == proc[p].at IN
    /\ At(p, "transfer", "check")
    /\ proc' = [proc EXCEPT ![p].claim = root[Src].claim,
                            ![p].pc = IF ~TransferAccepted(d) THEN "end"
                                      ELSE IF Exists(d) THEN "complete" ELSE "stage"]
    /\ UNCHANGED <<root, intent, staged, readers>>

\* The output is there already: only the source's usage file may be missing.
TransferComplete(p) ==
    /\ At(p, "transfer", "complete")
    /\ root' = IF root[Src].usage = None
               THEN [root EXCEPT ![Src].usage = proc[p].at] ELSE root
    /\ End(p)
    /\ UNCHANGED <<intent, staged, readers>>

\* The persistent staging directory, filled, verified and resumable.
TransferStage(p) ==
    /\ At(p, "transfer", "stage")
    /\ staged' = staged \cup {proc[p].at}
    /\ Goto(p, "intent")
    /\ UNCHANGED <<root, intent, readers>>

TransferIntent(p) ==
    /\ At(p, "transfer", "intent")
    /\ IF intent \in {None, proc[p].at}
       THEN /\ intent' = proc[p].at
            /\ Goto(p, IF proc[p].claim = "TRANSFERRED" THEN "usage" ELSE "claim")
       ELSE End(p) /\ UNCHANGED intent
    /\ UNCHANGED <<root, staged, readers>>

TransferClaim(p) ==
    /\ At(p, "transfer", "claim")
    /\ IF Temporary(Src, "TRANSFERRED")
       THEN WriteNext(Src, "TRANSFERRED") /\ Goto(p, "swap")
       ELSE End(p) /\ UNCHANGED root
    /\ UNCHANGED <<intent, staged, readers>>

\* os.replace does not look at the claim it replaces.
TransferSwap(p) ==
    /\ At(p, "transfer", "swap")
    /\ IF root[Src].next = None THEN End(p) /\ UNCHANGED root
       ELSE SwapNext(Src) /\ Goto(p, "usage")
    /\ UNCHANGED <<intent, staged, readers>>

TransferUsage(p) ==
    LET d == proc[p].at IN
    /\ At(p, "transfer", "usage")
    /\ IF root[Src].usage \in {None, d}
       THEN root' = [root EXCEPT ![Src].usage = d] /\ Goto(p, "publish")
       ELSE End(p) /\ UNCHANGED root
    /\ UNCHANGED <<intent, staged, readers>>

\* Mutation of TransferPublish: the destination is published before the
\* source's claim is read back.
TransferPublishEarly(p) ==
    LET d == proc[p].at IN
    /\ At(p, "transfer", "publish") \/ At(p, "transfer", "intent")
    /\ IF ~Exists(d) /\ d \in staged
       THEN /\ root' = [root EXCEPT ![d] = [NoRoot EXCEPT !.claim = "UNOPENED", !.usage = d]]
            /\ staged' = staged \ {d}
       ELSE UNCHANGED <<root, staged>>
    /\ End(p)
    /\ UNCHANGED <<intent, readers>>

\* The claim is read back, and os.replace publishes the destination.
TransferPublish(p) ==
    LET d == proc[p].at IN
    /\ At(p, "transfer", "publish")
    /\ IF root[Src].claim = "TRANSFERRED" /\ ~Exists(d) /\ d \in staged
       THEN /\ root' = [root EXCEPT ![d] = [NoRoot EXCEPT !.claim = "UNOPENED", !.usage = d]]
            /\ staged' = staged \ {d}
       ELSE UNCHANGED <<root, staged>>
    /\ End(p)
    /\ UNCHANGED <<intent, readers>>

----------------------------------------------------------------------------

Reveal(p) ==
    \/ RevealCheck(p) \/ RevealOpen(p) \/ RevealClaim(p) \/ RevealSwap(p) \/ RevealLoad(p)
    \/ \E file \in Lifecycle \ {"opened"} : RevealWrite(p, file)
    \/ RevealRaises(p) \/ RevealCleanup(p) \/ RevealConsume(p)

Recover(p) == RecoverCheck(p) \/ RecoverClaim(p) \/ RecoverSwap(p) \/ RecoverConsume(p)

Transfer(p) ==
    \/ TransferCheck(p) \/ TransferComplete(p) \/ TransferStage(p) \/ TransferIntent(p)
    \/ TransferClaim(p) \/ TransferSwap(p) \/ TransferUsage(p) \/ TransferPublish(p)

Next ==
    \E p \in Procs :
        \/ \E r \in Roots : Start(p, "reveal", r) \/ Start(p, "recover", r)
        \/ \E d \in Dests : Start(p, "transfer", d)
        \/ Reveal(p) \/ Recover(p) \/ Transfer(p) \/ Crash(p)

Spec == Init /\ [][Next]_vars

----------------------------------------------------------------------------
(* Correctness.                                                            *)

\* The realised outcomes of a holdout are read by one command at most,
\* whatever reveals, transfers, recoveries and deaths there are: the opened
\* marker is create-only and a transferred source is no longer revealable
\* (R2.G2_HOLDOUT.md: "concurrent reveal attempts cannot both access outcomes").
OutcomesReadOnce == Cardinality(readers) =< 1

Owned(r) == Exists(r) /\ root[r].claim \in {"UNOPENED", "OPENED"}

\* A preparation never has two owners: a destination appears only when the
\* source's claim is TRANSFERRED, and at one place only.
OneOwner == \A r, s \in Roots : Owned(r) /\ Owned(s) => r = s

Quiet == \A p \in Procs : ~Running(p)

\* A recovery that runs alone gets as far as the marker: its verification
\* passes, and the claim is OPENED or can be made so.
Recoverable(r) ==
    /\ Verifies(r, FALSE)
    /\ root[r].claim = "OPENED" \/ (root[r].claim = "UNOPENED" /\ Temporary(r, "OPENED"))

\* An opened holdout without consumed.json can be closed by
\* recover_holdout_consumption, unless a death left one of three traces that
\* the verifier refuses: part files without their index, and beside an opened
\* source the ".next" claim of the reveal itself or the intent of a transfer
\* that died before the reveal.
OpenedIsRecoverable ==
    \A r \in Roots :
        Quiet /\ "opened" \in root[r].files /\ root[r].consumed = None =>
            \/ Recoverable(r)
            \/ Orphans(r)
            \/ r = Src /\ (root[r].next = "OPENED" \/ intent # None)

\* A transfer that died is resumable: the same command is accepted again as
\* long as nobody has opened or claimed the source in between
\* (prepare_holdout_from_files: "a discoverable crash-safe handoff").  Two
\* transfers to one destination may leave a ".next" beside a claim that is
\* TRANSFERRED already, which the verifier refuses.
TransferResumes ==
    Quiet /\ intent # None /\ root[Src].files = {} /\ root[Src].claim # "OPENED"
          /\ root[Src].next # "OPENED" =>
        \/ Exists(intent)
        \/ TransferAccepted(intent)
        \/ root[Src].claim = "TRANSFERRED" /\ root[Src].next = "TRANSFERRED"
=============================================================================

---------------------------- MODULE HoldoutProofs -----------------------------
(***************************************************************************)
(* Proofs about Holdout, for every number of processes and destinations.   *)
(*                                                                         *)
(* A preparation has one owner because the intent names one destination    *)
(* and is written once, and because TRANSFERRED is final: whatever ".next" *)
(* holds beside it is TRANSFERRED again.  This holds with every race.      *)
(*                                                                         *)
(* The outcomes are read once because opened.json is create-only in each   *)
(* root, a transfer requires a source without it, and a source is not      *)
(* opened while a transfer runs; the last is what MixedRace gives up.      *)
(*                                                                         *)
(* What a death leaves can be closed or resumed because the files agree    *)
(* with one another at every step: consumed.json and the steps of a reveal *)
(* have the opened marker beside them, the usage file names the intent of  *)
(* a source that is TRANSFERRED, a destination is published complete and   *)
(* its claim is never TRANSFERRED.                                         *)
(***************************************************************************)
EXTENDS Holdout, FiniteSetTheorems, TLAPS

Claims == {"UNOPENED", "OPENED", "TRANSFERRED"}
Root == [claim : Claims \cup {None}, next : Claims \cup {None}, usage : Dests \cup {None},
         files : SUBSET Lifecycle, consumed : {None, "EVALUATION", "FAILURE"}]
Bound == {"claim", "swap", "usage", "publish"}
Pcs == {"start", "check", "open", "load", "target.parts", "target", "evidence.parts", "evidence",
        "evaluation", "consume", "fail", "complete", "stage", "intent", "end"} \cup Bound
Process == [op : {None, "reveal", "recover", "transfer"}, pc : Pcs,
            at : Roots \cup {None}, claim : Claims \cup {None}]

\* Types; a transfer names a destination, the other commands any root.
HoldoutTypeOK ==
    /\ root \in [Roots -> Root]
    /\ intent \in Dests \cup {None}
    /\ staged \subseteq Dests
    /\ proc \in [Procs -> Process]
    /\ readers \subseteq Procs
    /\ \A p \in Procs : /\ proc[p].op # None => proc[p].at \in Roots
                        /\ proc[p].op = "transfer" => proc[p].at \in Dests

\* A transfer that is past the intent is the one the intent names.
IntentIsMine ==
    \A p \in Procs : proc[p].op = "transfer" /\ proc[p].pc \in Bound => intent = proc[p].at

\* TRANSFERRED can only be replaced by itself, and only a root that is there
\* has a ".next" claim.
TransferredIsFinal ==
    /\ root[Src].claim = "TRANSFERRED" => root[Src].next \in {None, "TRANSFERRED"}
    /\ \A r \in Roots : root[r].next # None => Exists(r)
    /\ Exists(Src)

\* A destination appears only as the intended one of a transferred source.
DestinationIsIntended ==
    \A d \in Dests : Exists(d) => intent = d /\ root[Src].claim = "TRANSFERRED"

OwnerInv == HoldoutTypeOK /\ IntentIsMine /\ TransferredIsFinal /\ DestinationIsIntended

LEMMA OwnerInit == Init => OwnerInv
  <1> SUFFICES ASSUME Init PROVE OwnerInv
    OBVIOUS
  <1>1. /\ root[Src].claim = "UNOPENED" /\ root[Src].next = None
        /\ \A d \in Dests : root[d].claim = None /\ root[d].next = None
    BY HoldoutAssumption DEF Init, NoRoot, Roots
  <1>2. \A p \in Procs : proc[p].op = None
    BY DEF Init
  <1>3. root \in [Roots -> Root]
    BY DEF Init, NoRoot, Root, Claims
  <1>4. proc \in [Procs -> Process]
    BY DEF Init, Process, Pcs
  <1>5. HoldoutTypeOK
    BY <1>2, <1>3, <1>4, HoldoutAssumption DEF Init, HoldoutTypeOK
  <1> QED
    BY <1>1, <1>2, <1>5, HoldoutAssumption
    DEF OwnerInv, IntentIsMine, TransferredIsFinal, DestinationIsIntended, Exists, Roots

----------------------------------------------------------------------------
(* What the steps do to the claims and to the processes.                   *)

\* Root s keeps its claim and its ".next".
Same(s) == root'[s].claim = root[s].claim /\ root'[s].next = root[s].next

\* ".next" of root r is written, as TRANSFERRED if the claim is so already.
Written(r) ==
    /\ Exists(r)
    /\ root'[r].claim = root[r].claim
    /\ root'[r].next \in Claims
    /\ root[r].claim = "TRANSFERRED" => root'[r].next = "TRANSFERRED"
    /\ \A s \in Roots \ {r} : Same(s)

\* ".next" of root r becomes its claim.
Swapped(r) ==
    /\ root[r].next # None
    /\ root'[r].claim = root[r].next
    /\ root'[r].next = None
    /\ \A s \in Roots \ {r} : Same(s)

\* The intended destination d of a transferred source appears.
Published(d) ==
    /\ intent = d
    /\ root[Src].claim = "TRANSFERRED"
    /\ root'[d].claim = "UNOPENED"
    /\ root'[d].next = None
    /\ \A s \in Roots \ {d} : Same(s)

ClaimStep ==
    \/ \A s \in Roots : Same(s)
    \/ \E r \in Roots : Written(r) \/ Swapped(r)
    \/ \E d \in Dests : Published(d)

\* Process p goes on with the command it runs.
Moves(p) ==
    /\ proc' \in [Procs -> Process]
    /\ \A q \in Procs : proc'[q].op = proc[q].op /\ proc'[q].at = proc[q].at
    /\ \A q \in Procs \ {p} : proc'[q].pc = proc[q].pc

\* ... and comes to an action that relies on the intent only from another one.
StaysBound(p) ==
    proc[p].op = "transfer" /\ proc'[p].pc \in Bound => proc[p].pc \in Bound

LEMMA GotoMoves ==
    ASSUME proc \in [Procs -> Process], NEW p \in Procs, NEW pc \in Pcs, Goto(p, pc)
    PROVE  Moves(p) /\ proc'[p].pc = pc
  <1>1. [proc[p] EXCEPT !.pc = pc] \in Process
    BY DEF Process
  <1>2. proc' = [proc EXCEPT ![p] = [proc[p] EXCEPT !.pc = pc]]
    BY DEF Goto
  <1>3. [proc[p] EXCEPT !.pc = pc].op = proc[p].op /\ [proc[p] EXCEPT !.pc = pc].at = proc[p].at
        /\ [proc[p] EXCEPT !.pc = pc].pc = pc
    BY DEF Process
  <1> QED
    BY <1>1, <1>2, <1>3 DEF Moves

\* _cleanup takes part files away; the marker and all the rest stay.
LEMMA CleanupIs ==
    ASSUME root \in [Roots -> Root], NEW p \in Procs, proc[p].at \in Roots, RevealCleanup(p)
    PROVE  LET r == proc[p].at IN
           /\ Goto(p, "fail") /\ proc[p].pc \in {"target", "evidence"}
           /\ proc[p].op = "reveal" /\ UNCHANGED <<intent, staged, readers>>
           /\ root' \in [Roots -> Root] /\ \A s \in Roots \ {r} : root'[s] = root[s]
           /\ root'[r].claim = root[r].claim /\ root'[r].next = root[r].next
           /\ root'[r].usage = root[r].usage /\ root'[r].consumed = root[r].consumed
           /\ root'[r].files \subseteq root[r].files
           /\ "opened" \in root[r].files => "opened" \in root'[r].files
  <1>1. PICK f \in {"target.parts", "evidence.parts"} :
          root' = [root EXCEPT ![proc[p].at].files = @ \ {f}]
    BY DEF RevealCleanup
  <1>2. Goto(p, "fail") /\ proc[p].pc \in {"target", "evidence"} /\ proc[p].op = "reveal"
        /\ UNCHANGED <<intent, staged, readers>>
    BY DEF RevealCleanup
  <1> QED
    BY <1>1, <1>2 DEF Root

\* A file, the usage claim or consumed.json changes, and no claim.
LEMMA FilesKeepClaims ==
    ASSUME root \in [Roots -> Root], NEW r \in Roots,
           \/ \E f \in SUBSET Lifecycle : root' = [root EXCEPT ![r].files = @ \cup f]
           \/ \E d \in Dests : root' = [root EXCEPT ![r].usage = d]
           \/ \E e \in {"EVALUATION", "FAILURE"} : root' = [root EXCEPT ![r].consumed = e]
    PROVE  root' \in [Roots -> Root] /\ \A s \in Roots : Same(s)
  BY DEF Root, Same

\* A step that respects the claims preserves the invariant.
LEMMA OwnerStep ==
    ASSUME OwnerInv, NEW p \in Procs, Moves(p), StaysBound(p), ClaimStep,
           root' \in [Roots -> Root], intent' = intent,
           staged' \subseteq Dests, readers' \subseteq Procs
    PROVE  OwnerInv'
  <1> USE HoldoutAssumption DEF OwnerInv
  <1>1. HoldoutTypeOK'
    BY DEF HoldoutTypeOK, Moves
  <1>2. IntentIsMine'
    BY DEF IntentIsMine, Moves, StaysBound
  <1>3. TransferredIsFinal' /\ DestinationIsIntended'
    <2>1. Src \in Roots /\ \A r \in Roots : root[r].claim \in Claims \cup {None}
                                         /\ root[r].next \in Claims \cup {None}
      BY DEF HoldoutTypeOK, Root, Roots
    <2>2. CASE \A s \in Roots : Same(s)
      BY <2>1, <2>2 DEF TransferredIsFinal, DestinationIsIntended, Same, Exists, Roots
    <2>3. ASSUME NEW r \in Roots, Written(r) PROVE TransferredIsFinal' /\ DestinationIsIntended'
      BY <2>1, <2>3 DEF TransferredIsFinal, DestinationIsIntended, Same, Written, Exists, Roots
    <2>4. ASSUME NEW r \in Roots, Swapped(r) PROVE TransferredIsFinal' /\ DestinationIsIntended'
      BY <2>1, <2>4 DEF TransferredIsFinal, DestinationIsIntended, Same, Swapped, Exists, Roots
    <2>5. ASSUME NEW d \in Dests, Published(d) PROVE TransferredIsFinal' /\ DestinationIsIntended'
      BY <2>1, <2>5 DEF TransferredIsFinal, DestinationIsIntended, Same, Published, Exists, Roots
    <2> QED
      BY <2>2, <2>3, <2>4, <2>5 DEF ClaimStep
  <1> QED
    BY <1>1, <1>2, <1>3

----------------------------------------------------------------------------
(* The two halves of _replace_json.                                        *)

LEMMA NextWritten ==
    ASSUME OwnerInv, NEW r \in Roots, NEW c \in Claims, WriteNext(r, c), Exists(r),
           root[r].claim = "TRANSFERRED" => c = "TRANSFERRED"
    PROVE  root' \in [Roots -> Root] /\ ClaimStep
  <1>0. root \in [Roots -> Root]
    BY DEF OwnerInv, HoldoutTypeOK
  <1>1. root' \in [Roots -> Root]
    BY <1>0 DEF WriteNext, Root
  <1>2. Written(r)
    BY <1>0 DEF WriteNext, Root, Written, Same
  <1> QED
    BY <1>1, <1>2 DEF ClaimStep

LEMMA NextSwapped ==
    ASSUME OwnerInv, NEW r \in Roots, SwapNext(r), root[r].next # None
    PROVE  root' \in [Roots -> Root] /\ ClaimStep
  <1>0. root \in [Roots -> Root]
    BY DEF OwnerInv, HoldoutTypeOK
  <1>1. root' \in [Roots -> Root]
    BY <1>0 DEF SwapNext, Root
  <1>2. Swapped(r)
    BY <1>0 DEF SwapNext, Root, Swapped, Same
  <1> QED
    BY <1>1, <1>2 DEF ClaimStep

LEMMA ClaimIsOwn ==
    ASSUME OwnerInv, NEW p \in Procs, proc[p].at \in Roots, proc[p].op # "transfer",
           NEW done \in Pcs, NEW failed \in Pcs, Claim(p, done, failed) \/ Swap(p, done, failed)
    PROVE  OwnerInv'
  <1> DEFINE r == proc[p].at
  <1>0. root \in [Roots -> Root] /\ proc \in [Procs -> Process]
        /\ staged \subseteq Dests /\ readers \subseteq Procs
    BY DEF OwnerInv, HoldoutTypeOK
  <1>1. UNCHANGED <<intent, staged, readers>>
    BY DEF Claim, Swap
  <1>2. \E pc \in Pcs : Goto(p, pc)
    BY DEF Claim, Swap, Pcs, Bound
  <1>3. Moves(p)
    BY <1>0, <1>2, GotoMoves
  <1>4. StaysBound(p)
    BY DEF StaysBound
  <1>5. \/ UNCHANGED root
        \/ root[r].claim = "UNOPENED" /\ WriteNext(r, "OPENED")
        \/ root[r].next # None /\ SwapNext(r)
    BY DEF Claim, Swap
  <1>6. root' \in [Roots -> Root] /\ ClaimStep
    <2>1. CASE UNCHANGED root
      BY <1>0, <2>1 DEF ClaimStep, Same
    <2>2. CASE root[r].claim = "UNOPENED" /\ WriteNext(r, "OPENED")
      BY <2>2, NextWritten, HoldoutAssumption DEF Claims, Exists
    <2>3. CASE root[r].next # None /\ SwapNext(r)
      BY <2>3, NextSwapped
    <2> QED
      BY <1>5, <2>1, <2>2, <2>3
  <1> QED
    BY <1>0, <1>1, <1>3, <1>4, <1>6, OwnerStep

----------------------------------------------------------------------------
(* Every action preserves the invariant.                                   *)

\* A step that moves p, touches no claim and is no step of a bound transfer.
LEMMA QuietStep ==
    ASSUME OwnerInv, NEW p \in Procs, NEW pc \in Pcs, Goto(p, pc),
           proc[p].op = "transfer" => pc \notin Bound \/ proc[p].pc \in Bound,
           root' \in [Roots -> Root], \A s \in Roots : Same(s), intent' = intent,
           staged' \subseteq Dests, readers' \subseteq Procs
    PROVE  OwnerInv'
  <1>1. Moves(p) /\ proc'[p].pc = pc
    BY GotoMoves DEF OwnerInv, HoldoutTypeOK
  <1> QED
    BY <1>1, OwnerStep DEF StaysBound, ClaimStep

LEMMA OwnerReveal ==
    ASSUME OwnerInv, NEW p \in Procs, Reveal(p)
    PROVE  OwnerInv'
  <1> DEFINE r == proc[p].at
  <1>0. /\ root \in [Roots -> Root] /\ proc \in [Procs -> Process]
        /\ staged \subseteq Dests /\ readers \subseteq Procs
        /\ proc[p].op = "reveal" /\ r \in Roots
    BY HoldoutAssumption
    DEF OwnerInv, HoldoutTypeOK, Reveal, RevealCheck, RevealOpen, RevealClaim, RevealSwap,
        RevealLoad, RevealWrite, RevealRaises, RevealCleanup, RevealConsume, At
  <1>1. CASE RevealCheck(p) \/ RevealRaises(p) \/ RevealLoad(p)
    <2>1. UNCHANGED <<root, intent, staged>> /\ readers' \subseteq Procs
      BY <1>0, <1>1 DEF RevealCheck, RevealRaises, RevealLoad
    <2>2. \E pc \in Pcs : Goto(p, pc)
      BY <1>1 DEF RevealCheck, RevealRaises, RevealLoad, End, Pcs
    <2> QED
      BY <1>0, <2>1, <2>2, QuietStep DEF Same
  <1>2. CASE RevealOpen(p) \/ \E file \in Lifecycle \ {"opened"} : RevealWrite(p, file)
    <2>1. UNCHANGED <<intent, staged, readers>>
      BY <1>2 DEF RevealOpen, RevealWrite
    <2>2. \E pc \in Pcs : Goto(p, pc)
      BY <1>2 DEF RevealOpen, RevealWrite, End, Pcs, Bound, NextFile, Lifecycle
    <2>3. UNCHANGED root \/ \E f \in SUBSET Lifecycle : root' = [root EXCEPT ![r].files = @ \cup f]
      BY <1>2 DEF RevealOpen, RevealWrite, Lifecycle
    <2>4. root' \in [Roots -> Root] /\ \A s \in Roots : Same(s)
      BY <1>0, <2>3, FilesKeepClaims DEF Same
    <2> QED
      BY <1>0, <2>1, <2>2, <2>4, QuietStep
  <1>3. CASE RevealClaim(p) \/ RevealSwap(p)
    BY <1>0, <1>3, ClaimIsOwn DEF RevealClaim, RevealSwap, Pcs
  <1>4. CASE RevealConsume(p)
    <2>1. \E e \in {"EVALUATION", "FAILURE"} : Consume(p, e)
      BY <1>4 DEF RevealConsume
    <2>2. UNCHANGED <<intent, staged, readers>> /\ Goto(p, "end")
      BY <2>1 DEF Consume, End
    <2>3. root' \in [Roots -> Root] /\ \A s \in Roots : Same(s)
      BY <1>0, <2>1, FilesKeepClaims DEF Consume, Same
    <2> QED
      BY <1>0, <2>2, <2>3, QuietStep DEF Pcs
  <1>5. CASE RevealCleanup(p)
    <2>1. /\ UNCHANGED <<intent, staged, readers>> /\ Goto(p, "fail")
          /\ root' \in [Roots -> Root] /\ \A s \in Roots : Same(s)
      BY <1>0, <1>5, CleanupIs DEF Same
    <2> QED
      BY <1>0, <2>1, QuietStep DEF Pcs
  <1> QED
    BY <1>1, <1>2, <1>3, <1>4, <1>5 DEF Reveal

LEMMA OwnerRecover ==
    ASSUME OwnerInv, NEW p \in Procs, Recover(p)
    PROVE  OwnerInv'
  <1> DEFINE r == proc[p].at
  <1>0. /\ root \in [Roots -> Root] /\ proc \in [Procs -> Process]
        /\ staged \subseteq Dests /\ readers \subseteq Procs
        /\ proc[p].op = "recover" /\ r \in Roots
    BY HoldoutAssumption
    DEF OwnerInv, HoldoutTypeOK, Recover, RecoverCheck, RecoverClaim, RecoverSwap,
        RecoverConsume, At
  <1>1. CASE RecoverCheck(p)
    <2>1. UNCHANGED <<root, intent, staged, readers>>
      BY <1>1 DEF RecoverCheck
    <2>2. \E pc \in Pcs : Goto(p, pc)
      BY <1>1 DEF RecoverCheck, End, Pcs, Bound
    <2> QED
      BY <1>0, <2>1, <2>2, QuietStep DEF Same
  <1>2. CASE RecoverClaim(p) \/ RecoverSwap(p)
    BY <1>0, <1>2, ClaimIsOwn DEF RecoverClaim, RecoverSwap, Pcs
  <1>3. CASE RecoverConsume(p)
    <2>1. UNCHANGED <<intent, staged, readers>> /\ Goto(p, "end")
      BY <1>3 DEF RecoverConsume, Consume, End
    <2>2. root' \in [Roots -> Root] /\ \A s \in Roots : Same(s)
      BY <1>0, <1>3, FilesKeepClaims DEF RecoverConsume, Consume, Same
    <2> QED
      BY <1>0, <2>1, <2>2, QuietStep DEF Pcs
  <1> QED
    BY <1>1, <1>2, <1>3 DEF Recover

\* TransferCheck is the one step that also remembers a claim, TransferIntent
\* the one that writes the intent.
LEMMA OwnerTransfer ==
    ASSUME OwnerInv, NEW p \in Procs, Transfer(p)
    PROVE  OwnerInv'
  <1> DEFINE d == proc[p].at
  <1>0. /\ root \in [Roots -> Root] /\ proc \in [Procs -> Process]
        /\ staged \subseteq Dests /\ readers \subseteq Procs
        /\ proc[p].op = "transfer" /\ d \in Dests /\ Src \in Roots /\ d \in Roots
    BY HoldoutAssumption
    DEF OwnerInv, HoldoutTypeOK, Transfer, TransferCheck, TransferComplete, TransferStage,
        TransferIntent, TransferClaim, TransferSwap, TransferUsage, TransferPublish, At, Roots
  <1>1. CASE TransferCheck(p)
    <2>1. \E pc \in Pcs \ Bound :
            proc' = [proc EXCEPT ![p].claim = root[Src].claim, ![p].pc = pc]
      <3> DEFINE pc == IF ~TransferAccepted(d) THEN "end"
                       ELSE IF Exists(d) THEN "complete" ELSE "stage"
      <3>1. proc' = [proc EXCEPT ![p].claim = root[Src].claim, ![p].pc = pc]
        BY <1>1 DEF TransferCheck
      <3>2. pc \in Pcs \ Bound
        <4> HIDE DEF d
        <4> QED
          BY DEF Pcs, Bound
      <3> HIDE DEF pc
      <3> QED
        BY <3>1, <3>2
    <2>2. PICK pc \in Pcs \ Bound :
            proc' = [proc EXCEPT ![p] = [proc[p] EXCEPT !.claim = root[Src].claim, !.pc = pc]]
      BY <1>0, <2>1
    <2>3. root[Src].claim \in Claims \cup {None}
      BY <1>0 DEF Root
    <2>4. Moves(p) /\ proc'[p].pc = pc
      BY <1>0, <2>2, <2>3 DEF Moves, Process
    <2>5. UNCHANGED <<root, intent, staged, readers>>
      BY <1>1 DEF TransferCheck
    <2> QED
      BY <1>0, <2>4, <2>5, OwnerStep DEF StaysBound, ClaimStep, Same
  <1>2. CASE TransferComplete(p) \/ TransferUsage(p)
    <2>1. UNCHANGED <<intent, staged, readers>>
      BY <1>2 DEF TransferComplete, TransferUsage
    <2>2. \E pc \in Pcs : Goto(p, pc) /\ (pc \notin Bound \/ proc[p].pc \in Bound)
      BY <1>2 DEF TransferComplete, TransferUsage, At, End, Pcs, Bound
    <2>3. UNCHANGED root \/ root' = [root EXCEPT ![Src].usage = d]
      BY <1>2 DEF TransferComplete, TransferUsage
    <2>4. root' \in [Roots -> Root] /\ \A s \in Roots : Same(s)
      BY <1>0, <2>3, FilesKeepClaims DEF Same
    <2> QED
      BY <1>0, <2>1, <2>2, <2>4, QuietStep
  <1>3. CASE TransferStage(p)
    <2>1. UNCHANGED <<root, intent, readers>> /\ staged' \subseteq Dests /\ Goto(p, "intent")
      BY <1>0, <1>3 DEF TransferStage
    <2> QED
      BY <1>0, <2>1, QuietStep DEF Pcs, Bound, Same
  <1>4. CASE TransferIntent(p)
    <2>1. UNCHANGED <<root, staged, readers>>
      BY <1>4 DEF TransferIntent
    <2>2. \E pc \in Pcs : Goto(p, pc) /\ (intent' = d \/ (intent' = intent /\ pc \notin Bound))
      <3>1. CASE intent \in {None, d}
        <4> DEFINE pc == IF proc[p].claim = "TRANSFERRED" THEN "usage" ELSE "claim"
        <4>1. intent' = d /\ Goto(p, pc)
          BY <1>4, <3>1 DEF TransferIntent
        <4>2. pc \in Pcs
          BY DEF Pcs, Bound
        <4> HIDE DEF pc
        <4> QED
          BY <4>1, <4>2
      <3>2. CASE intent \notin {None, d}
        <4>1. intent' = intent /\ Goto(p, "end")
          BY <1>4, <3>2 DEF TransferIntent, End
        <4> QED
          BY <4>1 DEF Pcs, Bound
      <3> QED
        BY <3>1, <3>2
    <2>3. intent' = intent \/ (intent = None /\ intent' = d)
      <3>1. CASE intent \in {None, d}
        <4>1. intent' = d
          BY <1>4, <3>1 DEF TransferIntent
        <4> QED
          BY <3>1, <4>1
      <3>2. CASE intent \notin {None, d}
        BY <1>4, <3>2 DEF TransferIntent
      <3> QED
        BY <3>1, <3>2
    <2>4. Moves(p) /\ (intent' = d \/ proc'[p].pc \notin Bound)
      BY <1>0, <2>2, GotoMoves
    <2>5. HoldoutTypeOK'
      BY <1>0, <2>1, <2>3, <2>4 DEF OwnerInv, HoldoutTypeOK, Moves
    <2>6. IntentIsMine'
      BY <1>0, <2>3, <2>4, HoldoutAssumption
      DEF OwnerInv, HoldoutTypeOK, IntentIsMine, Moves, Roots
    <2>7. TransferredIsFinal' /\ DestinationIsIntended'
      BY <2>1, <2>3, HoldoutAssumption
      DEF OwnerInv, TransferredIsFinal, DestinationIsIntended, Exists
    <2> QED
      BY <2>5, <2>6, <2>7 DEF OwnerInv
  <1>5. CASE TransferClaim(p) \/ TransferSwap(p)
    <2>1. UNCHANGED <<intent, staged, readers>> /\ proc[p].pc \in Bound
      BY <1>5 DEF TransferClaim, TransferSwap, At, Bound
    <2>2. \E pc \in Pcs : Goto(p, pc)
      BY <1>5 DEF TransferClaim, TransferSwap, End, Pcs, Bound
    <2>3. Moves(p)
      BY <1>0, <2>2, GotoMoves
    <2>4. \/ UNCHANGED root \/ WriteNext(Src, "TRANSFERRED")
          \/ root[Src].next # None /\ SwapNext(Src)
      BY <1>5 DEF TransferClaim, TransferSwap
    <2>5. root' \in [Roots -> Root] /\ ClaimStep
      <3>1. CASE UNCHANGED root
        BY <1>0, <3>1 DEF ClaimStep, Same
      <3>2. CASE WriteNext(Src, "TRANSFERRED")
        BY <1>0, <3>2, NextWritten DEF OwnerInv, TransferredIsFinal, Claims
      <3>3. CASE root[Src].next # None /\ SwapNext(Src)
        BY <1>0, <3>3, NextSwapped
      <3> QED
        BY <2>4, <3>1, <3>2, <3>3
    <2> QED
      BY <1>0, <2>1, <2>3, <2>5, OwnerStep DEF StaysBound
  <1>6. CASE TransferPublish(p)
    <2>1. UNCHANGED <<intent, readers>> /\ staged' \subseteq Dests /\ Goto(p, "end")
      BY <1>0, <1>6 DEF TransferPublish, End
    <2>2. intent = d
      BY <1>0, <1>6 DEF OwnerInv, IntentIsMine, TransferPublish, At, Bound
    <2>3. [NoRoot EXCEPT !.claim = "UNOPENED", !.usage = d] \in Root
      BY <1>0 DEF NoRoot, Root, Claims
    <2>4. \/ UNCHANGED root
          \/ /\ root[Src].claim = "TRANSFERRED"
             /\ root' = [root EXCEPT ![d] = [NoRoot EXCEPT !.claim = "UNOPENED", !.usage = d]]
      BY <1>6 DEF TransferPublish
    <2>5. root' \in [Roots -> Root] /\ ClaimStep
      <3>1. CASE UNCHANGED root
        BY <1>0, <3>1 DEF ClaimStep, Same
      <3>2. CASE ~UNCHANGED root
        <4>1. root' \in [Roots -> Root]
          BY <1>0, <2>3, <2>4, <3>2
        <4>2. Published(d)
          BY <1>0, <2>2, <2>4, <3>2 DEF Published, Same, NoRoot
        <4> QED
          BY <1>0, <4>1, <4>2 DEF ClaimStep
      <3> QED
        BY <3>1, <3>2
    <2>6. Moves(p) /\ proc'[p].pc = "end"
      BY <1>0, <2>1, GotoMoves DEF Pcs
    <2> QED
      BY <1>0, <2>1, <2>5, <2>6, OwnerStep DEF StaysBound, Bound
  <1> QED
    BY <1>1, <1>2, <1>3, <1>4, <1>5, <1>6 DEF Transfer

LEMMA OwnerStart ==
    ASSUME OwnerInv, NEW p \in Procs, NEW op \in {"reveal", "recover", "transfer"},
           NEW r \in Roots, op = "transfer" => r \in Dests, Start(p, op, r)
    PROVE  OwnerInv'
  <1>1. /\ proc' = [proc EXCEPT ![p] = [op |-> op, pc |-> "check", at |-> r, claim |-> None]]
        /\ UNCHANGED <<root, intent, staged, readers>>
    BY DEF Start
  <1>2. proc' \in [Procs -> Process]
    BY <1>1 DEF OwnerInv, HoldoutTypeOK, Process, Pcs
  <1>3. HoldoutTypeOK'
    BY <1>1, <1>2 DEF OwnerInv, HoldoutTypeOK
  <1>4. IntentIsMine'
    BY <1>1 DEF OwnerInv, HoldoutTypeOK, IntentIsMine, Bound
  <1>5. TransferredIsFinal' /\ DestinationIsIntended'
    BY <1>1 DEF OwnerInv, TransferredIsFinal, DestinationIsIntended, Exists
  <1> QED
    BY <1>3, <1>4, <1>5 DEF OwnerInv

LEMMA OwnerCrash ==
    ASSUME OwnerInv, NEW p \in Procs, Crash(p)
    PROVE  OwnerInv'
  BY QuietStep DEF Crash, End, Pcs, Bound, Same, OwnerInv, HoldoutTypeOK

LEMMA OwnerNext == OwnerInv /\ [Next]_vars => OwnerInv'
  <1> SUFFICES ASSUME OwnerInv, [Next]_vars PROVE OwnerInv'
    OBVIOUS
  <1>1. ASSUME NEW p \in Procs, NEW r \in Roots, Start(p, "reveal", r) \/ Start(p, "recover", r)
        PROVE  OwnerInv'
    BY <1>1, OwnerStart
  <1>2. ASSUME NEW p \in Procs, NEW d \in Dests, Start(p, "transfer", d) PROVE OwnerInv'
    BY <1>2, OwnerStart DEF Roots
  <1>3. ASSUME NEW p \in Procs, Reveal(p) \/ Recover(p) \/ Transfer(p) \/ Crash(p) PROVE OwnerInv'
    BY <1>3, OwnerReveal, OwnerRecover, OwnerTransfer, OwnerCrash
  <1>4. CASE UNCHANGED vars
    BY <1>4 DEF vars, OwnerInv, HoldoutTypeOK, IntentIsMine, TransferredIsFinal,
       DestinationIsIntended, Exists
  <1> QED
    BY <1>1, <1>2, <1>3, <1>4 DEF Next

\* A preparation never has two owners (prepare_holdout_from_files,
\* reveal_holdout), for any number of commands and destinations and with every
\* interleaving and death, also where OutcomesReadOnce fails.
THEOREM OwnershipIsExclusive == Spec => []OneOwner
  <1>1. OwnerInv => OneOwner
    BY HoldoutAssumption DEF OwnerInv, DestinationIsIntended, OneOwner, Owned, Roots
  <1> QED
    BY <1>1, OwnerInit, OwnerNext, PTL DEF Spec

----------------------------------------------------------------------------
(* The outcomes are read once, unless a transfer races the source.         *)

\* The steps of a reveal after the opened marker was written.
Past == {"claim", "swap", "load", "target.parts", "target", "evidence.parts", "evidence",
         "evaluation", "consume", "fail"}

\* The process that owns the opened marker of its root.
Opener(p) == p \in readers \/ (proc[p].op = "reveal" /\ proc[p].pc \in Past)

\* No transfer runs beside a command on the source (MixedRace = FALSE).
Apart ==
    \A p, q \in Procs :
        Running(p) /\ proc[p].op = "transfer" /\ Running(q)
            => ~OnSource(proc[q].op, proc[q].at)

\* A transfer that was accepted finds an unopened source until it ends.
SourceIsClosed ==
    \A p \in Procs :
        proc[p].op = "transfer" /\ proc[p].pc \notin {"check", "end"} => root[Src].files = {}

\* A reveal that is about to write the marker has its root, and the source is
\* still owned.
RevealIsAllowed ==
    \A p \in Procs :
        proc[p].op = "reveal" /\ proc[p].pc = "open" =>
            /\ Exists(proc[p].at)
            /\ proc[p].at = Src => root[Src].claim # "TRANSFERRED"

\* What a command on the source is about to swap in is its own kind of claim.
SwapIsOwn ==
    \A p \in Procs :
        OnSource(proc[p].op, proc[p].at) /\ proc[p].pc = "swap" => root[Src].next \in {None, "OPENED"}

\* A source that was opened is never transferred.
OpenedStays == \A d \in Dests : Exists(d) => "opened" \notin root[Src].files

\* An opener has its marker, and nobody else has the same one.
OpenersDiffer ==
    /\ \A p \in Procs : Opener(p) => /\ proc[p].op = "reveal"
                                     /\ Exists(proc[p].at)
                                     /\ "opened" \in root[proc[p].at].files
    /\ \A p, q \in Procs : Opener(p) /\ Opener(q) /\ proc[p].at = proc[q].at => p = q

ReadInv == /\ Apart /\ SourceIsClosed /\ RevealIsAllowed /\ SwapIsOwn
           /\ OpenedStays /\ OpenersDiffer

LEMMA ReadImplies == OwnerInv /\ ReadInv => OutcomesReadOnce
  <1> SUFFICES ASSUME OwnerInv, ReadInv PROVE OutcomesReadOnce
    OBVIOUS
  <1>1. ASSUME NEW p \in readers, NEW q \in readers PROVE p = q
    <2>1. p \in Procs /\ q \in Procs /\ proc[p].at \in Roots /\ proc[q].at \in Roots
      BY HoldoutAssumption DEF OwnerInv, HoldoutTypeOK, ReadInv, OpenersDiffer, Opener
    <2>2. \A r \in Procs : r \in readers =>
             Exists(proc[r].at) /\ "opened" \in root[proc[r].at].files
      BY DEF ReadInv, OpenersDiffer, Opener
    <2>3. proc[p].at = proc[q].at
      BY <2>1, <2>2 DEF OwnerInv, DestinationIsIntended, ReadInv, OpenedStays, Roots
    <2> QED
      BY <2>1, <2>3 DEF ReadInv, OpenersDiffer, Opener
  <1>2. CASE readers = {}
    BY <1>2, FS_EmptySet DEF OutcomesReadOnce
  <1>3. CASE readers # {}
    <2>1. PICK p \in readers : readers = {p}
      BY <1>1, <1>3
    <2>2. Cardinality(readers) = 1
      BY <2>1, FS_Singleton, Zenon
    <2> QED
      BY <2>2 DEF OutcomesReadOnce
  <1> QED
    BY <1>2, <1>3

LEMMA ReadInit == Init => ReadInv
  <1> SUFFICES ASSUME Init PROVE ReadInv
    OBVIOUS
  <1>1. \A p \in Procs : proc[p].op = None /\ p \notin readers
    BY DEF Init
  <1>2. \A d \in Dests : ~Exists(d)
    BY HoldoutAssumption DEF Init, Exists, NoRoot, Roots
  <1> QED
    BY <1>1, <1>2, HoldoutAssumption
    DEF ReadInv, Apart, SourceIsClosed, RevealIsAllowed, SwapIsOwn, OpenedStays, OpenersDiffer,
        Opener, Running, OnSource

----------------------------------------------------------------------------
(* What a step of a running command may change.                            *)

\* Roots and opened markers stay; files appear only through a reveal of their
\* root.
FilesGrow(p) ==
    /\ \A s \in Roots : Exists(s) => /\ Exists(s)'
                                     /\ "opened" \in root[s].files => "opened" \in root'[s].files
    /\ root'[Src].files = root[Src].files \/ (proc[p].op = "reveal" /\ proc[p].at = Src)
    /\ \A s \in Roots : "opened" \in root'[s].files =>
          "opened" \in root[s].files \/ (At(p, "reveal", "open") /\ proc[p].at = s)

\* Who may change the source's claim and ".next", and who publishes.
ClaimsChange(p) ==
    /\ root'[Src].claim = "TRANSFERRED" =>
          \/ root[Src].claim = "TRANSFERRED"
          \/ proc[p].op = "transfer"
          \/ /\ OnSource(proc[p].op, proc[p].at) /\ proc[p].pc = "swap"
             /\ root[Src].next = "TRANSFERRED"
    /\ root'[Src].next \in {None, "OPENED", root[Src].next} \/ proc[p].op = "transfer"
    /\ \A d \in Dests : Exists(d)' =>
          Exists(d) \/ (proc[p].op = "transfer" /\ proc[p].pc = "publish")

\* Where p goes and what it has found there.
Progress(p) ==
    /\ proc[p].op = "transfer" /\ proc'[p].pc \notin {"check", "end"} =>
          proc[p].pc \notin {"check", "end"} \/ root[Src].files = {}
    /\ proc[p].op = "reveal" /\ proc'[p].pc = "open" =>
          Exists(proc[p].at)' /\ root'[proc[p].at].claim # "TRANSFERRED"
    /\ proc[p].op \in {"reveal", "recover"} /\ proc'[p].pc = "swap" =>
          root'[proc[p].at].next = "OPENED"
    /\ proc[p].op = "reveal" /\ proc'[p].pc \in Past =>
          \/ proc[p].pc \in Past
          \/ /\ proc[p].pc = "open" /\ "opened" \notin root[proc[p].at].files
             /\ "opened" \in root'[proc[p].at].files
    /\ \/ readers' = readers
       \/ proc[p].op = "reveal" /\ proc[p].pc = "load" /\ readers' = readers \cup {p}

Effect(p) == Running(p) /\ Moves(p) /\ FilesGrow(p) /\ ClaimsChange(p) /\ Progress(p)

LEMMA ReadStep ==
    ASSUME OwnerInv, ReadInv, NEW p \in Procs, Effect(p)
    PROVE  ReadInv'
  <1> USE HoldoutAssumption
  <1>0. /\ Running(p)
        /\ \A q \in Procs : proc'[q].op = proc[q].op /\ proc'[q].at = proc[q].at
        /\ \A q \in Procs \ {p} : proc'[q].pc = proc[q].pc
        /\ \A q \in Procs : proc[q].op # None => proc[q].at \in Roots
        /\ Src \in Roots
    BY DEF Effect, Moves, OwnerInv, HoldoutTypeOK, Roots
  <1>1. Apart'
    BY <1>0 DEF ReadInv, Apart, Running
  <1>2. SourceIsClosed'
    BY <1>0 DEF ReadInv, Apart, SourceIsClosed, Effect, FilesGrow, Progress, Running, OnSource
  <1>3. RevealIsAllowed'
    BY <1>0 DEF ReadInv, Apart, RevealIsAllowed, SwapIsOwn, Effect, FilesGrow, ClaimsChange, Progress,
       Running, OnSource
  <1>4. SwapIsOwn'
    BY <1>0 DEF ReadInv, Apart, SwapIsOwn, Effect, ClaimsChange, Progress, Running, OnSource
  <1>5. OpenedStays'
    BY <1>0 DEF ReadInv, SourceIsClosed, RevealIsAllowed, OpenedStays, OwnerInv, DestinationIsIntended,
       Effect, FilesGrow, ClaimsChange, At
  <1>6. OpenersDiffer'
    <2>1. ASSUME NEW q \in Procs, Opener(q)'
          PROVE  \/ Opener(q)
                 \/ /\ q = p /\ At(p, "reveal", "open") /\ "opened" \notin root[proc[p].at].files
                    /\ "opened" \in root'[proc[p].at].files
      BY <1>0, <2>1 DEF Opener, Effect, Progress, Past, At
    <2>2. \A q \in Procs : Opener(q)' => /\ proc'[q].op = "reveal" /\ Exists(proc[q].at)'
                                         /\ "opened" \in root'[proc[q].at].files
      BY <1>0, <2>1 DEF ReadInv, OpenersDiffer, RevealIsAllowed, Effect, FilesGrow, At
    <2>3. \A q, r \in Procs : Opener(q)' /\ Opener(r)' /\ proc[q].at = proc[r].at => q = r
      BY <1>0, <2>1 DEF ReadInv, OpenersDiffer
    <2>4. \A q \in Procs : proc'[q].at = proc[q].at
      BY <1>0
    <2> QED
      BY <2>2, <2>3, <2>4 DEF OpenersDiffer, Exists
  <1> QED
    BY <1>1, <1>2, <1>3, <1>4, <1>5, <1>6 DEF ReadInv

\* The ways in which a step changes the roots, seen from one root.
SameFiles(s) == root'[s].files = root[s].files

LEMMA FrameFiles ==
    ASSUME root \in [Roots -> Root], NEW r \in Roots, NEW f \in SUBSET Lifecycle,
           root' = [root EXCEPT ![r].files = @ \cup f]
    PROVE  /\ \A s \in Roots : Same(s) /\ (s # r => SameFiles(s))
           /\ root'[r].files = root[r].files \cup f
  BY DEF Root, Same, SameFiles

LEMMA FrameRest ==
    ASSUME root \in [Roots -> Root], NEW r \in Roots,
           \/ \E d \in Dests : root' = [root EXCEPT ![r].usage = d]
           \/ \E e \in {"EVALUATION", "FAILURE"} : root' = [root EXCEPT ![r].consumed = e]
           \/ UNCHANGED root
    PROVE  \A s \in Roots : Same(s) /\ SameFiles(s)
  BY DEF Root, Same, SameFiles

LEMMA FrameNext ==
    ASSUME root \in [Roots -> Root], NEW r \in Roots, NEW c \in Claims, WriteNext(r, c)
    PROVE  /\ \A s \in Roots : SameFiles(s) /\ (s # r => Same(s))
           /\ root'[r].claim = root[r].claim /\ root'[r].next = c
  BY DEF Root, Same, SameFiles, WriteNext

LEMMA FrameSwap ==
    ASSUME root \in [Roots -> Root], NEW r \in Roots, SwapNext(r)
    PROVE  /\ \A s \in Roots : SameFiles(s) /\ (s # r => Same(s))
           /\ root'[r].claim = root[r].next /\ root'[r].next = None
  BY DEF Root, Same, SameFiles, SwapNext

\* A step that changes neither claims nor files.
LEMMA NoChange ==
    ASSUME OwnerInv, NEW p \in Procs, \A s \in Roots : Same(s) /\ SameFiles(s)
    PROVE  FilesGrow(p) /\ ClaimsChange(p)
  BY DEF FilesGrow, ClaimsChange, Same, SameFiles, Exists, Roots

\* _claim_preparation by a reveal or a recovery.
LEMMA EffectClaim ==
    ASSUME OwnerInv, NEW p \in Procs, proc[p].at \in Roots,
           proc[p].op \in {"reveal", "recover"},
           \E done, failed \in {"load", "fail", "consume", "end"} :
              \/ proc[p].pc = "claim" /\ Claim(p, done, failed)
              \/ proc[p].pc = "swap" /\ Swap(p, done, failed)
    PROVE  Effect(p)
  <1> USE HoldoutAssumption
  <1> DEFINE r == proc[p].at
  <1>0. root \in [Roots -> Root] /\ proc \in [Procs -> Process] /\ Src \in Roots
        /\ \A s \in Roots : root[s].next # None => Exists(s)
    BY DEF OwnerInv, HoldoutTypeOK, TransferredIsFinal, Roots
  <1>1. Running(p) /\ readers' = readers
    BY DEF Running, Claim, Swap
  <1>2. \/ /\ UNCHANGED root
           /\ \E pc \in {"load", "fail", "consume", "end"} : Goto(p, pc)
        \/ root[r].claim = "UNOPENED" /\ WriteNext(r, "OPENED") /\ Goto(p, "swap")
        \/ /\ proc[p].pc = "swap" /\ root[r].next # None /\ SwapNext(r)
           /\ \E pc \in {"load", "fail", "consume", "end"} : Goto(p, pc)
    BY DEF Claim, Swap
  <1>3. CASE /\ UNCHANGED root
             /\ \E pc \in {"load", "fail", "consume", "end"} : Goto(p, pc)
    <2>1. Moves(p) /\ proc'[p].pc \in {"load", "fail", "consume", "end"}
      BY <1>0, <1>3, GotoMoves DEF Pcs
    <2>2. FilesGrow(p) /\ ClaimsChange(p)
      BY <1>0, <1>3, NoChange DEF Same, SameFiles
    <2> QED
      BY <1>1, <2>1, <2>2 DEF Effect, Progress, Past
  <1>4. CASE root[r].claim = "UNOPENED" /\ WriteNext(r, "OPENED") /\ Goto(p, "swap")
    <2>1. Moves(p) /\ proc'[p].pc = "swap"
      BY <1>0, <1>4, GotoMoves DEF Pcs, Bound
    <2>2. /\ \A s \in Roots : SameFiles(s) /\ (s # r => Same(s))
          /\ root'[r].claim = root[r].claim /\ root'[r].next = "OPENED"
      BY <1>0, <1>4, FrameNext DEF Claims
    <2>3. FilesGrow(p) /\ ClaimsChange(p)
      BY <1>0, <2>2 DEF FilesGrow, ClaimsChange, Same, SameFiles, Exists, Roots
    <2>4. proc[p].pc = "claim" \/ proc[p].pc = "swap"
      OBVIOUS
    <2> QED
      BY <1>1, <2>1, <2>2, <2>3, <2>4 DEF Effect, Progress, Past
  <1>5. CASE /\ proc[p].pc = "swap" /\ root[r].next # None /\ SwapNext(r)
             /\ \E pc \in {"load", "fail", "consume", "end"} : Goto(p, pc)
    <2>1. Moves(p) /\ proc'[p].pc \in {"load", "fail", "consume", "end"}
      BY <1>0, <1>5, GotoMoves DEF Pcs
    <2>2. /\ \A s \in Roots : SameFiles(s) /\ (s # r => Same(s))
          /\ root'[r].claim = root[r].next /\ root'[r].next = None
      BY <1>0, <1>5, FrameSwap
    <2>3. FilesGrow(p) /\ ClaimsChange(p)
      BY <1>0, <1>5, <2>2 DEF FilesGrow, ClaimsChange, Same, SameFiles, Exists, Roots, OnSource
    <2> QED
      BY <1>1, <1>5, <2>1, <2>3 DEF Effect, Progress, Past
  <1> QED
    BY <1>2, <1>3, <1>4, <1>5

LEMMA EffectReveal ==
    ASSUME OwnerInv, NEW p \in Procs, Reveal(p)
    PROVE  Effect(p)
  <1> USE HoldoutAssumption
  <1> DEFINE r == proc[p].at
  <1>0. /\ root \in [Roots -> Root] /\ proc \in [Procs -> Process] /\ Src \in Roots
        /\ proc[p].op = "reveal" /\ r \in Roots
    BY DEF OwnerInv, HoldoutTypeOK, Reveal, RevealCheck, RevealOpen, RevealClaim, RevealSwap,
        RevealLoad, RevealWrite, RevealRaises, RevealCleanup, RevealConsume, At, Roots
  <1>1. Running(p)
    BY <1>0 DEF Running, Reveal, RevealCheck, RevealOpen, RevealClaim, RevealSwap,
        RevealLoad, RevealWrite, RevealRaises, RevealCleanup, RevealConsume, At, Lifecycle
  <1>2. CASE RevealCheck(p)
    <2>1. \/ Goto(p, "end")
          \/ Goto(p, "open") /\ Exists(r) /\ root[r].claim # "TRANSFERRED"
      BY <1>2 DEF RevealCheck, Verifies, End
    <2>2. UNCHANGED <<root, readers>>
      BY <1>2 DEF RevealCheck
    <2>3. FilesGrow(p) /\ ClaimsChange(p)
      BY <2>2, NoChange DEF Same, SameFiles
    <2>4. Moves(p) /\ (proc'[p].pc = "end" \/ (/\ proc'[p].pc = "open" /\ Exists(r)
                                               /\ root[r].claim # "TRANSFERRED"))
      BY <1>0, <2>1, GotoMoves DEF Pcs
    <2> QED
      BY <1>0, <1>1, <2>2, <2>3, <2>4 DEF Effect, Progress, Past, Exists, Moves
  <1>3. CASE RevealRaises(p) \/ RevealLoad(p)
    <2>1. \E pc \in {"fail", "target.parts"} : Goto(p, pc)
      BY <1>3 DEF RevealRaises, RevealLoad
    <2>2. /\ UNCHANGED root /\ proc[p].pc \in Past
          /\ readers' = readers \/ (proc[p].pc = "load" /\ readers' = readers \cup {p})
      BY <1>3 DEF RevealRaises, RevealLoad, Past, At, Lifecycle
    <2>3. FilesGrow(p) /\ ClaimsChange(p)
      BY <2>2, NoChange DEF Same, SameFiles
    <2>4. Moves(p) /\ proc'[p].pc \in {"fail", "target.parts"}
      BY <1>0, <2>1, GotoMoves DEF Pcs
    <2> QED
      BY <1>0, <1>1, <2>2, <2>3, <2>4 DEF Effect, Progress
  <1>4. CASE RevealOpen(p)
    <2>0. At(p, "reveal", "open") /\ readers' = readers
      BY <1>4 DEF RevealOpen
    <2>1. CASE "opened" \in root[r].files
      <3>1. Goto(p, "end") /\ UNCHANGED root
        BY <1>4, <2>1 DEF RevealOpen, End
      <3>2. FilesGrow(p) /\ ClaimsChange(p)
        BY <3>1, NoChange DEF Same, SameFiles
      <3>3. Moves(p) /\ proc'[p].pc = "end"
        BY <1>0, <3>1, GotoMoves DEF Pcs
      <3> QED
        BY <1>0, <1>1, <2>0, <3>2, <3>3 DEF Effect, Progress, Past
    <2>2. CASE "opened" \notin root[r].files
      <3>1. Goto(p, "claim") /\ root' = [root EXCEPT ![r].files = @ \cup {"opened"}]
        BY <1>4, <2>2 DEF RevealOpen
      <3>2. /\ \A s \in Roots : Same(s) /\ (s # r => SameFiles(s))
            /\ root'[r].files = root[r].files \cup {"opened"}
        BY <1>0, <3>1, FrameFiles DEF Lifecycle
      <3>3. FilesGrow(p) /\ ClaimsChange(p)
        BY <1>0, <2>0, <3>2 DEF FilesGrow, ClaimsChange, Same, SameFiles, Exists, Roots
      <3>4. Moves(p) /\ proc'[p].pc = "claim"
        BY <1>0, <3>1, GotoMoves DEF Pcs, Bound
      <3> QED
        BY <1>0, <1>1, <2>0, <2>2, <3>2, <3>3, <3>4 DEF Effect, Progress, Past, At
    <2> QED
      BY <2>1, <2>2
  <1>5. ASSUME NEW file \in Lifecycle \ {"opened"}, RevealWrite(p, file) PROVE Effect(p)
    <2>0. At(p, "reveal", file) /\ readers' = readers /\ proc[p].pc \in Past
      BY <1>5 DEF RevealWrite, At, Lifecycle, Past
    <2>1. /\ \E pc \in {"fail", "target", "evidence.parts", "evidence", "evaluation", "consume"} : Goto(p, pc)
          /\ UNCHANGED root \/ root' = [root EXCEPT ![r].files = @ \cup {file}]
      BY <1>5 DEF RevealWrite, NextFile, Lifecycle
    <2>2. /\ \A s \in Roots : Same(s) /\ (s # r => SameFiles(s))
          /\ root'[r].files = root[r].files \/ root'[r].files = root[r].files \cup {file}
      <3>1. CASE UNCHANGED root
        BY <3>1 DEF Same, SameFiles
      <3>2. CASE root' = [root EXCEPT ![r].files = @ \cup {file}]
        <4>1. {file} \in SUBSET Lifecycle
          OBVIOUS
        <4> QED
          BY <1>0, <3>2, <4>1, FrameFiles
      <3> QED
        BY <2>1, <3>1, <3>2
    <2>3. FilesGrow(p) /\ ClaimsChange(p)
      BY <1>0, <2>2 DEF FilesGrow, ClaimsChange, Same, SameFiles, Exists, Roots
    <2>4. Moves(p) /\ proc'[p].pc \in {"fail", "target", "evidence.parts", "evidence", "evaluation", "consume"}
      BY <1>0, <2>1, GotoMoves DEF Pcs
    <2> QED
      BY <1>0, <1>1, <2>0, <2>3, <2>4 DEF Effect, Progress
  <1>6. CASE RevealClaim(p) \/ RevealSwap(p)
    BY <1>0, <1>6, EffectClaim DEF RevealClaim, RevealSwap, At
  <1>7. CASE RevealConsume(p)
    <2>1. /\ Goto(p, "end") /\ readers' = readers
          /\ \/ UNCHANGED root
             \/ \E e \in {"EVALUATION", "FAILURE"} : root' = [root EXCEPT ![r].consumed = e]
      BY <1>7 DEF RevealConsume, Consume, End
    <2>2. FilesGrow(p) /\ ClaimsChange(p)
      BY <1>0, <2>1, FrameRest, NoChange
    <2>3. Moves(p) /\ proc'[p].pc = "end"
      BY <1>0, <2>1, GotoMoves DEF Pcs
    <2> QED
      BY <1>0, <1>1, <2>1, <2>2, <2>3 DEF Effect, Progress, Past
  <1>8. CASE RevealCleanup(p)
    <2>1. /\ Goto(p, "fail") /\ proc[p].pc \in Past /\ readers' = readers
          /\ \A s \in Roots : Same(s) /\ (s # r => SameFiles(s))
          /\ root'[r].files \subseteq root[r].files
          /\ "opened" \in root[r].files => "opened" \in root'[r].files
      BY <1>0, <1>8, CleanupIs DEF Same, SameFiles, Past
    <2>2. FilesGrow(p) /\ ClaimsChange(p)
      BY <1>0, <2>1 DEF FilesGrow, ClaimsChange, Same, SameFiles, Exists, Roots
    <2>3. Moves(p) /\ proc'[p].pc = "fail"
      BY <1>0, <2>1, GotoMoves DEF Pcs
    <2> QED
      BY <1>0, <1>1, <2>1, <2>2, <2>3 DEF Effect, Progress
  <1> QED
    BY <1>2, <1>3, <1>4, <1>5, <1>6, <1>7, <1>8 DEF Reveal

LEMMA EffectRecover ==
    ASSUME OwnerInv, NEW p \in Procs, Recover(p)
    PROVE  Effect(p)
  <1> USE HoldoutAssumption
  <1> DEFINE r == proc[p].at
  <1>0. /\ root \in [Roots -> Root] /\ proc \in [Procs -> Process] /\ Src \in Roots
        /\ proc[p].op = "recover" /\ r \in Roots /\ Running(p)
    BY DEF OwnerInv, HoldoutTypeOK, Recover, RecoverCheck, RecoverClaim, RecoverSwap,
        RecoverConsume, At, Roots, Running
  <1>1. CASE RecoverCheck(p) \/ RecoverConsume(p)
    <2>1. /\ Goto(p, "end") \/ Goto(p, "claim")
          /\ readers' = readers
          /\ \/ UNCHANGED root
             \/ \E e \in {"EVALUATION", "FAILURE"} : root' = [root EXCEPT ![r].consumed = e]
      BY <1>1 DEF RecoverCheck, RecoverConsume, Consume, End
    <2>2. FilesGrow(p) /\ ClaimsChange(p)
      BY <1>0, <2>1, FrameRest, NoChange
    <2>3. Moves(p) /\ proc'[p].pc \in {"end", "claim"}
      BY <1>0, <2>1, GotoMoves DEF Pcs, Bound
    <2> QED
      BY <1>0, <2>1, <2>2, <2>3 DEF Effect, Progress
  <1>2. CASE RecoverClaim(p) \/ RecoverSwap(p)
    BY <1>0, <1>2, EffectClaim DEF RecoverClaim, RecoverSwap, At
  <1> QED
    BY <1>1, <1>2 DEF Recover

LEMMA EffectTransfer ==
    ASSUME OwnerInv, NEW p \in Procs, Transfer(p)
    PROVE  Effect(p)
  <1> USE HoldoutAssumption
  <1> DEFINE d == proc[p].at
  <1>0. /\ root \in [Roots -> Root] /\ proc \in [Procs -> Process]
        /\ proc[p].op = "transfer" /\ d \in Dests /\ Src \in Roots /\ d \in Roots
        /\ Running(p) /\ readers' = readers
        /\ \A s \in Roots : root[s].next # None => Exists(s)
    BY DEF OwnerInv, HoldoutTypeOK, TransferredIsFinal, Transfer, TransferCheck,
        TransferComplete, TransferStage, TransferIntent, TransferClaim, TransferSwap,
        TransferUsage, TransferPublish, At, Roots, Running
  <1>1. CASE TransferCheck(p)
    <2>1. /\ UNCHANGED root
          /\ \/ proc' = [proc EXCEPT ![p].claim = root[Src].claim, ![p].pc = "end"]
             \/ /\ root[Src].files = {}
                /\ \E pc \in {"complete", "stage"} :
                      proc' = [proc EXCEPT ![p].claim = root[Src].claim, ![p].pc = pc]
      <3>1. UNCHANGED root
        BY <1>1 DEF TransferCheck
      <3>2. CASE ~TransferAccepted(d)
        BY <1>1, <3>1, <3>2 DEF TransferCheck
      <3>3. CASE TransferAccepted(d) /\ Exists(d)
        BY <1>1, <3>1, <3>3 DEF TransferCheck, TransferAccepted
      <3>4. CASE TransferAccepted(d) /\ ~Exists(d)
        BY <1>1, <3>1, <3>4 DEF TransferCheck, TransferAccepted
      <3> QED
        BY <3>2, <3>3, <3>4
    <2>2. PICK pc \in {"end", "complete", "stage"} :
            /\ proc' = [proc EXCEPT ![p] = [proc[p] EXCEPT !.claim = root[Src].claim, !.pc = pc]]
            /\ pc = "end" \/ root[Src].files = {}
      BY <1>0, <2>1
    <2>3. root[Src].claim \in Claims \cup {None} /\ pc \in Pcs
      BY <1>0 DEF Root, Pcs
    <2>4. Moves(p) /\ proc'[p].pc = pc
      BY <1>0, <2>2, <2>3 DEF Moves, Process
    <2>5. FilesGrow(p) /\ ClaimsChange(p)
      BY <2>1, NoChange DEF Same, SameFiles
    <2> QED
      BY <1>0, <2>2, <2>4, <2>5 DEF Effect, Progress
  <1>2. CASE TransferComplete(p) \/ TransferUsage(p) \/ TransferStage(p) \/ TransferIntent(p)
    <2>1. UNCHANGED root \/ root' = [root EXCEPT ![Src].usage = d]
      BY <1>2 DEF TransferComplete, TransferUsage, TransferStage, TransferIntent
    <2>2. \E pc \in Pcs : Goto(p, pc)
      <3>1. CASE TransferComplete(p) \/ TransferUsage(p) \/ TransferStage(p)
        BY <3>1 DEF TransferComplete, TransferUsage, TransferStage, End, Pcs, Bound
      <3>2. CASE TransferIntent(p)
        <4>1. Goto(p, "end") \/ Goto(p, "usage") \/ Goto(p, "claim")
          BY <3>2 DEF TransferIntent, End, Goto
        <4> QED
          BY <4>1 DEF Pcs, Bound
      <3> QED
        BY <1>2, <3>1, <3>2
    <2>3. proc[p].pc \notin {"check", "end"}
      BY <1>2 DEF TransferComplete, TransferUsage, TransferStage, TransferIntent, At
    <2>4. FilesGrow(p) /\ ClaimsChange(p)
      BY <1>0, <2>1, FrameRest, NoChange
    <2>5. Moves(p)
      BY <1>0, <2>2, GotoMoves
    <2> QED
      BY <1>0, <2>3, <2>4, <2>5 DEF Effect, Progress
  <1>3. CASE TransferClaim(p) \/ TransferSwap(p)
    <2>1. \E pc \in Pcs : Goto(p, pc)
      BY <1>3 DEF TransferClaim, TransferSwap, End, Pcs, Bound
    <2>2. proc[p].pc \notin {"check", "end"}
      BY <1>3 DEF TransferClaim, TransferSwap, At
    <2>3. \/ UNCHANGED root \/ WriteNext(Src, "TRANSFERRED")
          \/ (root[Src].next # None /\ SwapNext(Src))
      BY <1>3 DEF TransferClaim, TransferSwap
    <2>4. /\ \A s \in Roots : SameFiles(s) /\ (s # Src => Same(s))
          /\ Exists(Src) => root'[Src].claim # None
      <3>1. CASE UNCHANGED root
        BY <3>1 DEF Same, SameFiles, Exists
      <3>2. CASE WriteNext(Src, "TRANSFERRED")
        BY <1>0, <3>2, FrameNext DEF Claims, Exists
      <3>3. CASE root[Src].next # None /\ SwapNext(Src)
        BY <1>0, <3>3, FrameSwap
      <3> QED
        BY <2>3, <3>1, <3>2, <3>3
    <2>5. FilesGrow(p) /\ ClaimsChange(p)
      BY <1>0, <2>4 DEF FilesGrow, ClaimsChange, Same, SameFiles, Exists, Roots
    <2>6. Moves(p)
      BY <1>0, <2>1, GotoMoves
    <2> QED
      BY <1>0, <2>2, <2>5, <2>6 DEF Effect, Progress
  <1>4. CASE TransferPublish(p)
    <2>1. /\ Goto(p, "end") /\ proc[p].pc = "publish"
          /\ \/ UNCHANGED root
             \/ /\ ~Exists(d)
                /\ root' = [root EXCEPT ![d] = [NoRoot EXCEPT !.claim = "UNOPENED", !.usage = d]]
      BY <1>4 DEF TransferPublish, End, At
    <2>2. Moves(p) /\ proc'[p].pc = "end"
      BY <1>0, <2>1, GotoMoves DEF Pcs
    <2>3. FilesGrow(p) /\ ClaimsChange(p)
      <3>1. CASE UNCHANGED root
        BY <3>1, NoChange DEF Same, SameFiles
      <3>2. CASE ~UNCHANGED root
        <4>1. /\ \A s \in Roots : s # d => Same(s) /\ SameFiles(s)
              /\ root'[d].files = {} /\ ~Exists(d)
          BY <1>0, <2>1, <3>2 DEF Same, SameFiles, NoRoot
        <4> QED
          BY <1>0, <2>1, <4>1 DEF FilesGrow, ClaimsChange, Same, SameFiles, Exists, Roots
      <3> QED
        BY <3>1, <3>2
    <2> QED
      BY <1>0, <2>2, <2>3 DEF Effect, Progress
  <1> QED
    BY <1>1, <1>2, <1>3, <1>4 DEF Transfer

LEMMA EffectCrash ==
    ASSUME OwnerInv, NEW p \in Procs, Crash(p)
    PROVE  Effect(p)
  <1>1. Running(p) /\ Goto(p, "end") /\ UNCHANGED <<root, readers>>
    BY DEF Crash, End
  <1>2. Moves(p) /\ proc'[p].pc = "end"
    BY <1>1, GotoMoves DEF OwnerInv, HoldoutTypeOK, Pcs
  <1>3. FilesGrow(p) /\ ClaimsChange(p)
    BY <1>1, NoChange DEF Same, SameFiles
  <1> QED
    BY <1>1, <1>2, <1>3 DEF Effect, Progress, Past

\* A command starts only beside compatible ones.
LEMMA ReadStart ==
    ASSUME OwnerInv, ReadInv, ~MixedRace, NEW p \in Procs,
           NEW op \in {"reveal", "recover", "transfer"}, NEW r \in Roots, Start(p, op, r)
    PROVE  ReadInv'
  <1> USE HoldoutAssumption
  <1>1. /\ proc[p].op = None
        /\ UNCHANGED <<root, readers>>
        /\ \A q \in Procs \ {p} : proc'[q] = proc[q]
        /\ proc'[p].op = op /\ proc'[p].pc = "check" /\ proc'[p].at = r
    BY DEF Start, OwnerInv, HoldoutTypeOK
  <1>2. Apart'
    <2>1. \A q \in Procs : Running(q) =>
            /\ op = "transfer" => ~OnSource(proc[q].op, proc[q].at)
            /\ OnSource(op, r) => proc[q].op # "transfer"
      BY DEF Start, Compatible
    <2> QED
      BY <1>1, <2>1 DEF ReadInv, Apart, Running, OnSource
  <1>3. p \notin readers
    BY <1>1 DEF ReadInv, OpenersDiffer, Opener
  <1>4. SourceIsClosed' /\ RevealIsAllowed' /\ SwapIsOwn' /\ OpenedStays'
    BY <1>1 DEF ReadInv, SourceIsClosed, RevealIsAllowed, SwapIsOwn, OpenedStays, OnSource, Exists
  <1>5. OpenersDiffer'
    BY <1>1, <1>3 DEF ReadInv, OpenersDiffer, Opener, Past, Exists
  <1> QED
    BY <1>2, <1>4, <1>5 DEF ReadInv

LEMMA ReadNext == OwnerInv /\ ReadInv /\ ~MixedRace /\ [Next]_vars => ReadInv'
  <1> SUFFICES ASSUME OwnerInv, ReadInv, ~MixedRace, [Next]_vars PROVE ReadInv'
    OBVIOUS
  <1>1. ASSUME NEW p \in Procs, NEW r \in Roots, Start(p, "reveal", r) \/ Start(p, "recover", r)
        PROVE  ReadInv'
    BY <1>1, ReadStart
  <1>2. ASSUME NEW p \in Procs, NEW d \in Dests, Start(p, "transfer", d) PROVE ReadInv'
    BY <1>2, ReadStart DEF Roots
  <1>3. ASSUME NEW p \in Procs, Reveal(p) \/ Recover(p) \/ Transfer(p) \/ Crash(p) PROVE ReadInv'
    BY <1>3, EffectReveal, EffectRecover, EffectTransfer, EffectCrash, ReadStep
  <1>4. CASE UNCHANGED vars
    BY <1>4 DEF vars, ReadInv, Apart, SourceIsClosed, RevealIsAllowed, SwapIsOwn, OpenedStays,
       OpenersDiffer, Opener, Running, OnSource, Exists
  <1> QED
    BY <1>1, <1>2, <1>3, <1>4 DEF Next

\* The realised outcomes are read by one command at most, for any number of
\* commands and destinations and with every death (reveal_holdout,
\* prepare_holdout_from_files), provided that no transfer runs beside a reveal
\* or recovery of its source; find_reveal shows that the proviso is needed.
THEOREM OutcomesAreReadOnce ==
    ASSUME ~MixedRace
    PROVE  Spec => []OutcomesReadOnce
  <1>1. Init => OwnerInv /\ ReadInv
    BY OwnerInit, ReadInit
  <1>2. OwnerInv /\ ReadInv /\ [Next]_vars => (OwnerInv /\ ReadInv)'
    BY OwnerNext, ReadNext
  <1>3. OwnerInv /\ ReadInv => OutcomesReadOnce
    BY ReadImplies
  <1> QED
    BY <1>1, <1>2, <1>3, PTL DEF Spec

----------------------------------------------------------------------------
(* What a death leaves behind can be closed or resumed, with every race.   *)

\* Lifecycle files are in roots that exist; a reveal that is past its marker,
\* and consumed.json, have the marker beside them.
Marked ==
    /\ \A p \in Procs : proc[p].op = "reveal" /\ proc[p].pc \in Past =>
          "opened" \in root[proc[p].at].files
    /\ \A p \in Procs : proc[p].op \in {"reveal", "recover"} /\ proc[p].pc \notin {"check", "end"} =>
          Exists(proc[p].at)
    /\ \A r \in Roots : root[r].consumed # None => "opened" \in root[r].files
    /\ \A r \in Roots : root[r].files # {} => Exists(r)

\* The source is handed over to the intended destination only, and a transfer
\* that is past the swap has found or made the claim TRANSFERRED.
HandedOver ==
    /\ root[Src].usage # None => root[Src].usage = intent /\ root[Src].claim = "TRANSFERRED"
    /\ "TRANSFERRED" \in {root[Src].claim, root[Src].next} => intent # None
    /\ \A p \in Procs : proc[p].op = "transfer" =>
          /\ proc[p].pc = "complete" => intent = proc[p].at
          /\ proc[p].pc = "swap" => "TRANSFERRED" \in {root[Src].claim, root[Src].next}
          /\ proc[p].pc \in {"usage", "publish", "complete"} => root[Src].claim = "TRANSFERRED"
          /\ proc[p].claim = "TRANSFERRED" => root[Src].claim = "TRANSFERRED"

\* A ".next" file holds OPENED or TRANSFERRED; at a destination it is OPENED
\* beside an UNOPENED claim, and the destination has its usage file and is not
\* handed on.
Temporaries ==
    /\ \A r \in Roots : root[r].next # "UNOPENED"
    /\ \A d \in Dests : /\ Exists(d) => root[d].usage # None
                        /\ root[d].claim # "TRANSFERRED"
                        /\ root[d].next # None => root[d].next = "OPENED" /\ root[d].claim = "UNOPENED"

TraceInv == Marked /\ HandedOver /\ Temporaries

LEMMA TraceInit == Init => TraceInv
  <1> SUFFICES ASSUME Init PROVE TraceInv
    OBVIOUS
  <1> USE HoldoutAssumption
  <1>1. \A p \in Procs : proc[p].op = None
    BY DEF Init
  <1>2. /\ \A r \in Roots : root[r].next = None /\ root[r].usage = None /\ root[r].files = {}
                         /\ root[r].consumed = None
        /\ root[Src].claim = "UNOPENED"
        /\ \A d \in Dests : root[d].claim = None
    BY DEF Init, NoRoot, Roots
  <1>3. Src \in Roots /\ Dests \subseteq Roots
    BY DEF Roots
  <1> QED
    BY <1>1, <1>2, <1>3 DEF TraceInv, Marked, HandedOver, Temporaries, Exists

\* Process p moves to pc and remembers what it remembered.
Steps(p, pc) ==
    /\ \A q \in Procs : /\ proc'[q].op = proc[q].op /\ proc'[q].at = proc[q].at
                        /\ proc'[q].claim = proc[q].claim
    /\ \A q \in Procs \ {p} : proc'[q].pc = proc[q].pc
    /\ proc'[p].pc = pc

LEMMA GotoSteps ==
    ASSUME proc \in [Procs -> Process], NEW p \in Procs, NEW pc, Goto(p, pc)
    PROVE  Steps(p, pc)
  BY DEF Goto, Steps, Process

\* The ways in which a step changes root r, all other roots being kept.
Others(r) == \A s \in Roots \ {r} : root'[s] = root[s]

LEMMA RootFiles ==
    ASSUME root \in [Roots -> Root], NEW r \in Roots, NEW f,
           root' = [root EXCEPT ![r].files = @ \cup {f}]
    PROVE  /\ Others(r) /\ root'[r].claim = root[r].claim /\ root'[r].next = root[r].next
           /\ root'[r].usage = root[r].usage /\ root'[r].consumed = root[r].consumed
           /\ root'[r].files = root[r].files \cup {f}
  BY DEF Root, Others

LEMMA RootUsage ==
    ASSUME root \in [Roots -> Root], NEW r \in Roots, NEW d, root' = [root EXCEPT ![r].usage = d]
    PROVE  /\ Others(r) /\ root'[r].claim = root[r].claim /\ root'[r].next = root[r].next
           /\ root'[r].usage = d /\ root'[r].consumed = root[r].consumed
           /\ root'[r].files = root[r].files
  BY DEF Root, Others

LEMMA RootConsumed ==
    ASSUME root \in [Roots -> Root], NEW r \in Roots, NEW e, root' = [root EXCEPT ![r].consumed = e]
    PROVE  /\ Others(r) /\ root'[r].claim = root[r].claim /\ root'[r].next = root[r].next
           /\ root'[r].usage = root[r].usage /\ root'[r].consumed = e
           /\ root'[r].files = root[r].files
  BY DEF Root, Others

LEMMA RootNext ==
    ASSUME root \in [Roots -> Root], NEW r \in Roots, NEW c, WriteNext(r, c)
    PROVE  /\ Others(r) /\ root'[r].claim = root[r].claim /\ root'[r].next = c
           /\ root'[r].usage = root[r].usage /\ root'[r].consumed = root[r].consumed
           /\ root'[r].files = root[r].files
  BY DEF Root, Others, WriteNext

LEMMA RootSwap ==
    ASSUME root \in [Roots -> Root], NEW r \in Roots, SwapNext(r)
    PROVE  /\ Others(r) /\ root'[r].claim = root[r].next /\ root'[r].next = None
           /\ root'[r].usage = root[r].usage /\ root'[r].consumed = root[r].consumed
           /\ root'[r].files = root[r].files
  BY DEF Root, Others, SwapNext

\* The facts every step below starts from.
Typed ==
    /\ root \in [Roots -> Root] /\ proc \in [Procs -> Process]
    /\ Src \in Roots /\ Dests \subseteq Roots /\ Src \notin Dests /\ None \notin Dests
    /\ \A q \in Procs : /\ proc[q].op # None => proc[q].at \in Roots
                        /\ proc[q].op = "transfer" => proc[q].at \in Dests

LEMMA TypedHolds == OwnerInv => Typed
  BY HoldoutAssumption DEF Typed, OwnerInv, HoldoutTypeOK, Roots

\* A step that changes no file.
LEMMA TraceIdle ==
    ASSUME OwnerInv, TraceInv, NEW p \in Procs, NEW pc, Steps(p, pc), UNCHANGED <<root, intent>>,
           proc[p].op = "reveal" /\ pc \in Past => proc[p].pc \in Past,
           proc[p].op \in {"reveal", "recover"} /\ pc \notin {"check", "end"} => Exists(proc[p].at),
           proc[p].op = "transfer" => pc \in {"end", "intent"}
    PROVE  TraceInv'
  <1>1. Marked'
    BY DEF TraceInv, Marked, Steps, Exists
  <1>2. HandedOver'
    BY DEF TraceInv, HandedOver, Steps
  <1>3. Temporaries'
    BY DEF TraceInv, Temporaries, Exists
  <1> QED
    BY <1>1, <1>2, <1>3 DEF TraceInv

\* _claim_preparation by a reveal or a recovery.
LEMMA TraceClaim ==
    ASSUME OwnerInv, TraceInv, NEW p \in Procs, proc[p].op \in {"reveal", "recover"},
           NEW done \in {"load", "consume"}, NEW failed \in {"fail", "end"},
           \/ proc[p].pc = "claim" /\ Claim(p, done, failed)
           \/ proc[p].pc = "swap" /\ Swap(p, done, failed)
    PROVE  TraceInv'
  <1> USE HoldoutAssumption
  <1> DEFINE r == proc[p].at
  <1>0. Typed /\ r \in Roots /\ Exists(r) /\ intent' = intent
        /\ (proc[p].op = "reveal" => "opened" \in root[r].files /\ proc[p].pc \in Past)
    BY TypedHolds DEF Typed, TraceInv, Marked, Claim, Swap, Past
  <1>1. PICK pc \in {"load", "consume", "fail", "end", "swap"} : Goto(p, pc)
    BY DEF Claim, Swap
  <1>2. Steps(p, pc)
    BY <1>0, <1>1, GotoSteps DEF Typed
  <1>3. \/ UNCHANGED root
        \/ root[r].claim = "UNOPENED" /\ Temporary(r, "OPENED") /\ WriteNext(r, "OPENED")
        \/ root[r].next # None /\ SwapNext(r)
    BY DEF Claim, Swap
  <1>4. CASE UNCHANGED root
    BY <1>0, <1>2, <1>4, TraceIdle
  <1>5. CASE root[r].claim = "UNOPENED" /\ Temporary(r, "OPENED") /\ WriteNext(r, "OPENED")
    <2>1. /\ Others(r) /\ root'[r].claim = root[r].claim /\ root'[r].next = "OPENED"
          /\ root'[r].usage = root[r].usage /\ root'[r].consumed = root[r].consumed
          /\ root'[r].files = root[r].files
      BY <1>0, <1>5, RootNext DEF Typed
    <2>2. Marked'
      BY <1>0, <1>2, <2>1 DEF TraceInv, Marked, Steps, Exists, Others, Typed
    <2>3. HandedOver'
      BY <1>0, <1>2, <1>5, <2>1 DEF TraceInv, HandedOver, Steps, Others, Typed, Temporary
    <2>4. Temporaries'
      BY <1>0, <1>5, <2>1 DEF TraceInv, Temporaries, Exists, Others, Typed
    <2> QED
      BY <2>2, <2>3, <2>4 DEF TraceInv
  <1>6. CASE root[r].next # None /\ SwapNext(r)
    <2>1. /\ Others(r) /\ root'[r].claim = root[r].next /\ root'[r].next = None
          /\ root'[r].usage = root[r].usage /\ root'[r].consumed = root[r].consumed
          /\ root'[r].files = root[r].files
      BY <1>0, <1>6, RootSwap DEF Typed
    <2>2. Marked'
      BY <1>0, <1>2, <1>6, <2>1 DEF TraceInv, Marked, Steps, Exists, Others, Typed
    <2>3. HandedOver'
      BY <1>0, <1>2, <1>6, <2>1
      DEF TraceInv, HandedOver, Steps, Others, Typed, OwnerInv, TransferredIsFinal
    <2>4. Temporaries'
      BY <1>0, <1>6, <2>1 DEF TraceInv, Temporaries, Exists, Others, Typed
    <2> QED
      BY <2>2, <2>3, <2>4 DEF TraceInv
  <1> QED
    BY <1>3, <1>4, <1>5, <1>6

\* consumed.json is written where the marker is.
LEMMA TraceConsume ==
    ASSUME OwnerInv, TraceInv, NEW p \in Procs, proc[p].op \in {"reveal", "recover"},
           NEW e, Consume(p, e), "opened" \in root[proc[p].at].files
    PROVE  TraceInv'
  <1> USE HoldoutAssumption
  <1> DEFINE r == proc[p].at
  <1>0. Typed /\ r \in Roots /\ intent' = intent /\ Goto(p, "end")
    BY TypedHolds DEF Typed, Consume, End
  <1>1. Steps(p, "end")
    BY <1>0, GotoSteps DEF Typed
  <1>2. UNCHANGED root \/ root' = [root EXCEPT ![r].consumed = e]
    BY DEF Consume
  <1>3. CASE UNCHANGED root
    BY <1>0, <1>1, <1>3, TraceIdle DEF Past
  <1>4. CASE root' = [root EXCEPT ![r].consumed = e]
    <2>1. /\ Others(r) /\ root'[r].claim = root[r].claim /\ root'[r].next = root[r].next
          /\ root'[r].usage = root[r].usage /\ root'[r].files = root[r].files
      BY <1>0, <1>4, RootConsumed DEF Typed
    <2>2. Marked'
      BY <1>0, <1>1, <2>1 DEF TraceInv, Marked, Steps, Exists, Others, Typed, Past
    <2>3. HandedOver'
      BY <1>0, <1>1, <2>1 DEF TraceInv, HandedOver, Steps, Others, Typed
    <2>4. Temporaries'
      BY <1>0, <2>1 DEF TraceInv, Temporaries, Exists, Others, Typed
    <2> QED
      BY <2>2, <2>3, <2>4 DEF TraceInv
  <1> QED
    BY <1>2, <1>3, <1>4

\* A lifecycle file appears in the root of a reveal that goes on past its marker.
LEMMA TraceFile ==
    ASSUME OwnerInv, TraceInv, NEW p \in Procs, proc[p].op = "reveal", NEW f, NEW pc,
           Steps(p, pc), intent' = intent, Exists(proc[p].at),
           root' = [root EXCEPT ![proc[p].at].files = @ \cup {f}],
           f = "opened" \/ proc[p].pc \in Past
    PROVE  TraceInv'
  <1> USE HoldoutAssumption
  <1> DEFINE r == proc[p].at
  <1>0. Typed /\ r \in Roots /\ (proc[p].pc \in Past => "opened" \in root[r].files)
    BY TypedHolds DEF Typed, TraceInv, Marked
  <1>1. /\ Others(r) /\ root'[r].claim = root[r].claim /\ root'[r].next = root[r].next
        /\ root'[r].usage = root[r].usage /\ root'[r].consumed = root[r].consumed
        /\ root'[r].files = root[r].files \cup {f}
    BY <1>0, RootFiles DEF Typed
  <1>2. Marked'
    BY <1>0, <1>1 DEF TraceInv, Marked, Steps, Exists, Others, Typed
  <1>3. HandedOver'
    BY <1>0, <1>1 DEF TraceInv, HandedOver, Steps, Others, Typed
  <1>4. Temporaries'
    BY <1>0, <1>1 DEF TraceInv, Temporaries, Exists, Others, Typed
  <1> QED
    BY <1>2, <1>3, <1>4 DEF TraceInv

LEMMA TraceReveal ==
    ASSUME OwnerInv, TraceInv, NEW p \in Procs, Reveal(p)
    PROVE  TraceInv'
  <1> DEFINE r == proc[p].at
  <1>0. Typed /\ proc[p].op = "reveal"
    BY TypedHolds DEF Reveal, RevealCheck, RevealOpen, RevealClaim, RevealSwap,
        RevealLoad, RevealWrite, RevealRaises, RevealCleanup, RevealConsume, At
  <1>1. proc[p].pc \notin {"check", "end"} => Exists(r)
    BY <1>0 DEF TraceInv, Marked
  <1>2. CASE RevealCheck(p)
    <2>1. UNCHANGED <<root, intent>> /\ (Goto(p, "end") \/ (Goto(p, "open") /\ Exists(r)))
      BY <1>2 DEF RevealCheck, End, Verifies
    <2> QED
      BY <1>0, <2>1, GotoSteps, TraceIdle DEF Typed, Past
  <1>3. CASE RevealRaises(p) \/ RevealLoad(p)
    <2>1. /\ UNCHANGED <<root, intent>> /\ (Goto(p, "fail") \/ Goto(p, "target.parts"))
          /\ proc[p].pc \in Past
      BY <1>3 DEF RevealRaises, RevealLoad, At, Past, Lifecycle
    <2>2. Exists(r)
      BY <1>1, <2>1 DEF Past
    <2> QED
      BY <1>0, <2>1, <2>2, GotoSteps, TraceIdle DEF Typed
  <1>4. CASE RevealOpen(p)
    <2>1. /\ intent' = intent /\ proc[p].pc = "open"
          /\ \/ Goto(p, "end") /\ UNCHANGED root
             \/ Goto(p, "claim") /\ root' = [root EXCEPT ![r].files = @ \cup {"opened"}]
      BY <1>4 DEF RevealOpen, End, At
    <2>2. Exists(r)
      BY <1>1, <2>1
    <2>3. CASE Goto(p, "end") /\ UNCHANGED root
      BY <1>0, <2>1, <2>3, GotoSteps, TraceIdle DEF Typed, Past
    <2>4. CASE Goto(p, "claim") /\ root' = [root EXCEPT ![r].files = @ \cup {"opened"}]
      <3>1. Steps(p, "claim")
        BY <1>0, <2>4, GotoSteps DEF Typed
      <3> QED
        BY <1>0, <2>1, <2>2, <2>4, <3>1, TraceFile
    <2> QED
      BY <2>1, <2>3, <2>4
  <1>5. ASSUME NEW file \in Lifecycle \ {"opened"}, RevealWrite(p, file) PROVE TraceInv'
    <2>1. /\ intent' = intent /\ proc[p].pc \in Past
          /\ \/ Goto(p, "fail") /\ UNCHANGED root
             \/ Goto(p, NextFile(file)) /\ root' = [root EXCEPT ![r].files = @ \cup {file}]
      BY <1>5 DEF RevealWrite, At, Lifecycle, Past
    <2>2. Exists(r)
      BY <1>1, <2>1 DEF Past
    <2>3. CASE Goto(p, "fail") /\ UNCHANGED root
      BY <1>0, <2>1, <2>2, <2>3, GotoSteps, TraceIdle DEF Typed
    <2>4. CASE Goto(p, NextFile(file)) /\ root' = [root EXCEPT ![r].files = @ \cup {file}]
      <3>1. Steps(p, NextFile(file))
        BY <1>0, <2>4, GotoSteps DEF Typed
      <3> QED
        BY <1>0, <2>1, <2>2, <2>4, <3>1, TraceFile
    <2> QED
      BY <2>1, <2>3, <2>4
  <1>6. CASE RevealClaim(p) \/ RevealSwap(p)
    BY <1>0, <1>6, TraceClaim DEF RevealClaim, RevealSwap, At
  <1>7. CASE RevealConsume(p)
    <2>1. proc[p].pc \in Past /\ \E e \in {"EVALUATION", "FAILURE"} : Consume(p, e)
      BY <1>7 DEF RevealConsume, At, Past
    <2>2. "opened" \in root[r].files
      BY <1>0, <2>1 DEF TraceInv, Marked
    <2> QED
      BY <1>0, <2>1, <2>2, TraceConsume
  <1>8. CASE RevealCleanup(p)
    <2>0. root \in [Roots -> Root] /\ r \in Roots
      BY <1>0, HoldoutAssumption DEF Typed
    <2>1. /\ intent' = intent /\ Goto(p, "fail") /\ proc[p].pc \in Past
          /\ Others(r) /\ root'[r].claim = root[r].claim /\ root'[r].next = root[r].next
          /\ root'[r].usage = root[r].usage /\ root'[r].consumed = root[r].consumed
          /\ root'[r].files \subseteq root[r].files
          /\ "opened" \in root[r].files => "opened" \in root'[r].files
      BY <1>8, <2>0, CleanupIs DEF Others, Past
    <2>2. Steps(p, "fail") /\ Exists(r) /\ "opened" \in root[r].files
      BY <1>0, <1>1, <2>1, GotoSteps DEF Typed, Past, TraceInv, Marked
    <2>3. Marked'
      <3>1. \A s \in Roots : /\ "opened" \in root[s].files => "opened" \in root'[s].files
                             /\ root'[s].files # {} => root[s].files # {}
                             /\ root'[s].consumed = root[s].consumed
                             /\ root'[s].claim = root[s].claim
        BY <2>0, <2>1 DEF Others
      <3>2. \A q \in Procs : proc[q].op # None => proc[q].at \in Roots
        BY <1>0 DEF Typed
      <3> QED
        BY <1>0, <2>2, <3>1, <3>2, HoldoutAssumption DEF TraceInv, Marked, Steps, Exists
    <2>4. HandedOver'
      BY <1>0, <2>0, <2>1, <2>2 DEF TraceInv, HandedOver, Steps, Others, Typed
    <2>5. Temporaries'
      BY <1>0, <2>0, <2>1 DEF TraceInv, Temporaries, Exists, Others, Typed
    <2> QED
      BY <2>3, <2>4, <2>5 DEF TraceInv
  <1> QED
    BY <1>2, <1>3, <1>4, <1>5, <1>6, <1>7, <1>8 DEF Reveal

LEMMA TraceRecover ==
    ASSUME OwnerInv, TraceInv, NEW p \in Procs, Recover(p)
    PROVE  TraceInv'
  <1> DEFINE r == proc[p].at
  <1>0. Typed /\ proc[p].op = "recover"
    BY TypedHolds DEF Recover, RecoverCheck, RecoverClaim, RecoverSwap, RecoverConsume, At
  <1>1. CASE RecoverCheck(p)
    <2>1. UNCHANGED <<root, intent>> /\ (Goto(p, "end") \/ (Goto(p, "claim") /\ Exists(r)))
      BY <1>1 DEF RecoverCheck, End, Verifies
    <2> QED
      BY <1>0, <2>1, GotoSteps, TraceIdle DEF Typed
  <1>2. CASE RecoverClaim(p) \/ RecoverSwap(p)
    BY <1>0, <1>2, TraceClaim DEF RecoverClaim, RecoverSwap, At
  <1>3. CASE RecoverConsume(p)
    <2>1. \/ "opened" \in root[r].files /\ Consume(p, "FAILURE")
          \/ Goto(p, "end") /\ UNCHANGED <<root, intent>>
      BY <1>3 DEF RecoverConsume, End
    <2> QED
      BY <1>0, <2>1, GotoSteps, TraceIdle, TraceConsume DEF Typed
  <1> QED
    BY <1>1, <1>2, <1>3 DEF Recover

LEMMA TraceTransfer ==
    ASSUME OwnerInv, TraceInv, NEW p \in Procs, Transfer(p)
    PROVE  TraceInv'
  <1> USE HoldoutAssumption
  <1> DEFINE d == proc[p].at
  <1>0. Typed /\ proc[p].op = "transfer" /\ d \in Dests /\ d \in Roots
    BY TypedHolds DEF Typed, Transfer, TransferCheck, TransferComplete, TransferStage,
        TransferIntent, TransferClaim, TransferSwap, TransferUsage, TransferPublish, At
  <1>1. CASE TransferCheck(p)
    <2>1. PICK pc \in {"end", "stage", "complete"} :
            /\ proc' = [proc EXCEPT ![p].claim = root[Src].claim, ![p].pc = pc]
            /\ pc = "complete" => Exists(d)
      <3>1. CASE ~TransferAccepted(d)
        BY <1>1, <3>1 DEF TransferCheck
      <3>2. CASE TransferAccepted(d) /\ Exists(d)
        BY <1>1, <3>2 DEF TransferCheck
      <3>3. CASE TransferAccepted(d) /\ ~Exists(d)
        BY <1>1, <3>3 DEF TransferCheck
      <3> QED
        BY <3>1, <3>2, <3>3
    <2>2. /\ \A q \in Procs : proc'[q].op = proc[q].op /\ proc'[q].at = proc[q].at
          /\ \A q \in Procs \ {p} : proc'[q].pc = proc[q].pc /\ proc'[q].claim = proc[q].claim
          /\ proc'[p].pc = pc /\ proc'[p].claim = root[Src].claim
      BY <1>0, <2>1 DEF Typed, Process
    <2>3. UNCHANGED <<root, intent>>
      BY <1>1 DEF TransferCheck
    <2>4. Exists(d) => intent = d /\ root[Src].claim = "TRANSFERRED"
      BY <1>0 DEF OwnerInv, DestinationIsIntended
    <2>5. Marked'
      BY <1>0, <2>2, <2>3 DEF TraceInv, Marked, Exists
    <2>6. HandedOver'
      BY <1>0, <2>1, <2>2, <2>3, <2>4 DEF TraceInv, HandedOver
    <2>7. Temporaries'
      BY <2>3 DEF TraceInv, Temporaries, Exists
    <2> QED
      BY <2>5, <2>6, <2>7 DEF TraceInv
  <1>2. CASE TransferStage(p)
    <2>1. UNCHANGED <<root, intent>> /\ Goto(p, "intent")
      BY <1>2 DEF TransferStage
    <2> QED
      BY <1>0, <2>1, GotoSteps, TraceIdle DEF Typed
  <1>3. CASE TransferComplete(p) \/ TransferUsage(p)
    <2>1. /\ intent' = intent /\ intent = d /\ root[Src].claim = "TRANSFERRED"
          /\ \/ Goto(p, "end") /\ UNCHANGED root
             \/ /\ Goto(p, "end") \/ Goto(p, "publish")
                /\ root' = [root EXCEPT ![Src].usage = d]
      BY <1>0, <1>3 DEF TransferComplete, TransferUsage, End, At, TraceInv, HandedOver, OwnerInv,
         IntentIsMine, Bound
    <2>2. CASE Goto(p, "end") /\ UNCHANGED root
      BY <1>0, <2>1, <2>2, GotoSteps, TraceIdle DEF Typed
    <2>3. CASE root' = [root EXCEPT ![Src].usage = d] /\ (Goto(p, "end") \/ Goto(p, "publish"))
      <3>1. /\ Others(Src) /\ root'[Src].claim = root[Src].claim
            /\ root'[Src].next = root[Src].next /\ root'[Src].usage = d
            /\ root'[Src].consumed = root[Src].consumed /\ root'[Src].files = root[Src].files
        BY <1>0, <2>3, RootUsage DEF Typed
      <3>2. Steps(p, "end") \/ Steps(p, "publish")
        BY <1>0, <2>3, GotoSteps DEF Typed
      <3>3. Marked'
        BY <1>0, <3>1, <3>2 DEF TraceInv, Marked, Steps, Exists, Others, Typed
      <3>4. HandedOver'
        BY <1>0, <2>1, <3>1, <3>2 DEF TraceInv, HandedOver, Steps, Others, Typed
      <3>5. Temporaries'
        BY <1>0, <3>1 DEF TraceInv, Temporaries, Exists, Others, Typed
      <3> QED
        BY <3>3, <3>4, <3>5 DEF TraceInv
    <2> QED
      BY <2>1, <2>2, <2>3
  <1>4. CASE TransferIntent(p)
    <2>1. /\ UNCHANGED root
          /\ \/ Goto(p, "end") /\ intent' = intent
             \/ /\ intent \in {None, d} /\ intent' = d
                /\ \/ Goto(p, "usage") /\ proc[p].claim = "TRANSFERRED"
                   \/ Goto(p, "claim")
      BY <1>4 DEF TransferIntent, End
    <2>2. CASE Goto(p, "end") /\ intent' = intent
      BY <1>0, <2>1, <2>2, GotoSteps, TraceIdle DEF Typed
    <2>3. CASE /\ intent \in {None, d} /\ intent' = d
               /\ \/ Goto(p, "usage") /\ proc[p].claim = "TRANSFERRED"
                  \/ Goto(p, "claim")
      <3>1. (Steps(p, "usage") /\ proc[p].claim = "TRANSFERRED") \/ Steps(p, "claim")
        BY <1>0, <2>3, GotoSteps DEF Typed
      <3>2. Marked'
        BY <1>0, <2>1, <3>1 DEF TraceInv, Marked, Steps, Exists
      <3>3. HandedOver'
        BY <1>0, <2>1, <2>3, <3>1 DEF TraceInv, HandedOver, Steps, Typed
      <3>4. Temporaries'
        BY <2>1 DEF TraceInv, Temporaries, Exists
      <3> QED
        BY <3>2, <3>3, <3>4 DEF TraceInv
    <2> QED
      BY <2>1, <2>2, <2>3
  <1>5. CASE TransferClaim(p)
    <2>1. /\ intent' = intent /\ intent = d
          /\ \/ Goto(p, "end") /\ UNCHANGED root
             \/ Goto(p, "swap") /\ WriteNext(Src, "TRANSFERRED")
      BY <1>0, <1>5 DEF TransferClaim, End, At, OwnerInv, IntentIsMine, Bound
    <2>2. CASE Goto(p, "end") /\ UNCHANGED root
      BY <1>0, <2>1, <2>2, GotoSteps, TraceIdle DEF Typed
    <2>3. CASE Goto(p, "swap") /\ WriteNext(Src, "TRANSFERRED")
      <3>1. /\ Others(Src) /\ root'[Src].claim = root[Src].claim
            /\ root'[Src].next = "TRANSFERRED" /\ root'[Src].usage = root[Src].usage
            /\ root'[Src].consumed = root[Src].consumed /\ root'[Src].files = root[Src].files
        BY <1>0, <2>3, RootNext DEF Typed
      <3>2. Steps(p, "swap")
        BY <1>0, <2>3, GotoSteps DEF Typed
      <3>3. Marked'
        BY <1>0, <3>1, <3>2 DEF TraceInv, Marked, Steps, Exists, Others, Typed
      <3>4. HandedOver'
        BY <1>0, <2>1, <3>1, <3>2 DEF TraceInv, HandedOver, Steps, Others, Typed
      <3>5. Temporaries'
        BY <1>0, <3>1 DEF TraceInv, Temporaries, Exists, Others, Typed
      <3> QED
        BY <3>3, <3>4, <3>5 DEF TraceInv
    <2> QED
      BY <2>1, <2>2, <2>3
  <1>6. CASE TransferSwap(p)
    <2>1. /\ intent' = intent /\ proc[p].pc = "swap"
          /\ \/ Goto(p, "end") /\ UNCHANGED root
             \/ Goto(p, "usage") /\ root[Src].next # None /\ SwapNext(Src)
      BY <1>6 DEF TransferSwap, End, At
    <2>2. CASE Goto(p, "end") /\ UNCHANGED root
      BY <1>0, <2>1, <2>2, GotoSteps, TraceIdle DEF Typed
    <2>3. CASE Goto(p, "usage") /\ root[Src].next # None /\ SwapNext(Src)
      <3>0. root[Src].next = "TRANSFERRED"
        BY <1>0, <2>1, <2>3 DEF TraceInv, HandedOver, OwnerInv, TransferredIsFinal
      <3>1. /\ Others(Src) /\ root'[Src].claim = "TRANSFERRED"
            /\ root'[Src].next = None /\ root'[Src].usage = root[Src].usage
            /\ root'[Src].consumed = root[Src].consumed /\ root'[Src].files = root[Src].files
        BY <1>0, <2>3, <3>0, RootSwap DEF Typed
      <3>2. Steps(p, "usage")
        BY <1>0, <2>3, GotoSteps DEF Typed
      <3>3. Marked'
        BY <1>0, <3>1, <3>2 DEF TraceInv, Marked, Steps, Exists, Others, Typed
      <3>4. HandedOver'
        BY <1>0, <2>1, <3>0, <3>1, <3>2 DEF TraceInv, HandedOver, Steps, Others, Typed
      <3>5. Temporaries'
        BY <1>0, <3>1 DEF TraceInv, Temporaries, Exists, Others, Typed
      <3> QED
        BY <3>3, <3>4, <3>5 DEF TraceInv
    <2> QED
      BY <2>1, <2>2, <2>3
  <1>7. CASE TransferPublish(p)
    <2> DEFINE new == [NoRoot EXCEPT !.claim = "UNOPENED", !.usage = d]
    <2>1. /\ intent' = intent /\ Goto(p, "end")
          /\ UNCHANGED root \/ (~Exists(d) /\ root' = [root EXCEPT ![d] = new])
      BY <1>7 DEF TransferPublish, End
    <2>2. Steps(p, "end")
      BY <1>0, <2>1, GotoSteps DEF Typed
    <2>3. CASE UNCHANGED root
      BY <1>0, <2>1, <2>2, <2>3, TraceIdle
    <2>4. CASE ~Exists(d) /\ root' = [root EXCEPT ![d] = new]
      <3>1. /\ Others(d) /\ root'[d].claim = "UNOPENED" /\ root'[d].next = None
            /\ root'[d].usage = d /\ root'[d].consumed = None /\ root'[d].files = {}
        BY <1>0, <2>4 DEF Typed, Others, NoRoot
      <3>2. Marked'
        BY <1>0, <2>2, <2>4, <3>1 DEF TraceInv, Marked, Steps, Exists, Others, Typed, Past
      <3>3. HandedOver'
        BY <1>0, <2>1, <2>2, <3>1 DEF TraceInv, HandedOver, Steps, Others, Typed
      <3>4. Temporaries'
        BY <1>0, <3>1 DEF TraceInv, Temporaries, Exists, Others, Typed
      <3> QED
        BY <3>2, <3>3, <3>4 DEF TraceInv
    <2> QED
      BY <2>1, <2>3, <2>4
  <1> QED
    BY <1>1, <1>2, <1>3, <1>4, <1>5, <1>6, <1>7 DEF Transfer

LEMMA TraceStart ==
    ASSUME OwnerInv, TraceInv, NEW p \in Procs, NEW op, NEW r, Start(p, op, r)
    PROVE  TraceInv'
  <1>1. /\ UNCHANGED <<root, intent>>
        /\ \A q \in Procs \ {p} : proc'[q] = proc[q]
        /\ proc'[p].op = op /\ proc'[p].pc = "check" /\ proc'[p].at = r /\ proc'[p].claim = None
    BY TypedHolds DEF Start, Typed
  <1>2. Marked'
    BY <1>1 DEF TraceInv, Marked, Exists, Past
  <1>3. HandedOver'
    BY <1>1, HoldoutAssumption DEF TraceInv, HandedOver
  <1>4. Temporaries'
    BY <1>1 DEF TraceInv, Temporaries, Exists
  <1> QED
    BY <1>2, <1>3, <1>4 DEF TraceInv

LEMMA TraceNext == OwnerInv /\ TraceInv /\ [Next]_vars => TraceInv'
  <1> SUFFICES ASSUME OwnerInv, TraceInv, [Next]_vars PROVE TraceInv'
    OBVIOUS
  <1>1. ASSUME NEW p \in Procs, NEW op, NEW r, Start(p, op, r) PROVE TraceInv'
    BY <1>1, TraceStart
  <1>2. ASSUME NEW p \in Procs, Reveal(p) \/ Recover(p) \/ Transfer(p) PROVE TraceInv'
    BY <1>2, TraceReveal, TraceRecover, TraceTransfer
  <1>3. ASSUME NEW p \in Procs, Crash(p) PROVE TraceInv'
    BY <1>3, TypedHolds, GotoSteps, TraceIdle DEF Crash, End, Typed, Past
  <1>4. CASE UNCHANGED vars
    BY <1>4 DEF vars, TraceInv, Marked, HandedOver, Temporaries, Exists
  <1> QED
    BY <1>1, <1>2, <1>3, <1>4 DEF Next

\* What the files say of one another after any sequence of steps and deaths
\* (reveal_holdout, recover_holdout_consumption, prepare_holdout_from_files).
THEOREM TracesHeld == Spec => [](OwnerInv /\ TraceInv)
  BY OwnerInit, OwnerNext, TraceInit, TraceNext, PTL DEF Spec

\* A recovery of an opened holdout whose consumption was not recorded is
\* accepted and gets as far as consumed.json, but for the three traces that the
\* property names (among them the part files that a reveal leaves when it dies
\* before their index), for any number of commands and with every race.
THEOREM OpenedRecoverable == Spec => []OpenedIsRecoverable
  <1>1. OwnerInv /\ TraceInv => OpenedIsRecoverable
    <2> SUFFICES ASSUME OwnerInv, TraceInv, NEW r \in Roots, "opened" \in root[r].files,
                        ~Orphans(r)
                 PROVE  \/ Recoverable(r)
                        \/ r = Src /\ (root[r].next = "OPENED" \/ intent # None)
      BY DEF OpenedIsRecoverable
    <2> USE HoldoutAssumption
    <2>1. /\ Exists(r) /\ root[r].next \in {None, "OPENED", "TRANSFERRED"}
          /\ root[r].claim \in {"UNOPENED", "OPENED", "TRANSFERRED"}
      BY TypedHolds DEF TraceInv, Marked, Temporaries, Typed, Root, Claims, Exists
    <2>2. CASE r \in Dests
      <3>1. Verifies(r, FALSE)
        BY <2>1, <2>2 DEF Verifies, TraceInv, Temporaries
      <3> QED
        BY <2>1, <2>2, <3>1 DEF Recoverable, Temporary, TraceInv, Temporaries
    <2>3. CASE r = Src /\ intent = None /\ root[r].next # "OPENED"
      <3>1. root[r].claim # "TRANSFERRED" /\ root[r].next = None /\ root[r].usage = None
        BY <2>1, <2>3 DEF TraceInv, HandedOver
      <3>2. Verifies(r, FALSE)
        BY <2>1, <2>3, <3>1, TypedHolds DEF Verifies, Typed
      <3> QED
        BY <2>1, <3>1, <3>2 DEF Recoverable, Temporary
    <2> QED
      BY <2>2, <2>3 DEF Roots
  <1> QED
    BY <1>1, TracesHeld, PTL

\* A transfer that died is accepted again while nobody has opened or claimed
\* the source, for any number of commands and destinations and with every race.
THEOREM TransferIsResumable == Spec => []TransferResumes
  <1>1. OwnerInv /\ TraceInv => TransferResumes
    <2> SUFFICES ASSUME OwnerInv, TraceInv, intent # None, root[Src].files = {},
                        root[Src].claim # "OPENED", root[Src].next # "OPENED", ~Exists(intent),
                        ~(root[Src].claim = "TRANSFERRED" /\ root[Src].next = "TRANSFERRED")
                 PROVE  TransferAccepted(intent)
      BY DEF TransferResumes
    <2> USE HoldoutAssumption
    <2>1. /\ Exists(Src) /\ root[Src].next \in {None, "TRANSFERRED"}
          /\ root[Src].claim \in {"UNOPENED", "TRANSFERRED"}
          /\ root[Src].consumed = None
      BY TypedHolds DEF TraceInv, Marked, Temporaries, Typed, Root, Claims, OwnerInv,
         TransferredIsFinal, Exists
    <2>2. root[Src].usage \in {None, intent}
          /\ (root[Src].usage # None => root[Src].claim = "TRANSFERRED")
      BY DEF TraceInv, HandedOver
    <2>3. Verifies(Src, TRUE)
      BY <2>1, <2>2, TypedHolds DEF Verifies, Orphans, Typed
    <2> QED
      BY <2>1, <2>2, <2>3 DEF TransferAccepted
  <1> QED
    BY <1>1, TracesHeld, PTL
=============================================================================

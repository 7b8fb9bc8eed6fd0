----------------------------- MODULE BlobReader -----------------------------
(***************************************************************************)
(* The lock-free readers of a blob (src/src/blob.rs: read_index and        *)
(* refresh_committed_snapshot), running beside the writers of BlobWriter.  *)
(* A reader reads slot A, then slot B, then the index region unit by unit, *)
(* and a writer may take any number of steps in between.                   *)
(*                                                                         *)
(* A handle is used by one call at a time (&mut self).                     *)
(***************************************************************************)
EXTENDS BlobWriter

CONSTANTS
  Readers,              \* processes that also read
  reader_retry_budget   \* BlobConfig

ASSUME ReaderAssumption ==
  Readers \subseteq Procs /\ reader_retry_budget \in Nat

VARIABLES
  rd,     \* what each reader's call is doing
  view    \* what its last call returned

allVars == <<vars, rd, view>>

\* a: slot A as read; todo: the locators left to try, best first; got: the
\* units of the index of Head(todo) read so far; tries: the attempts left.
\* History, for the properties: from is
\* the generation that was active when the call began, and quiet whether
\* no writer was at work since.
Idle == [op |-> "none", step |-> "idle", a |-> BrokenSlot, todo |-> <<>>,
         got |-> <<>>, tries |-> 0, from |-> 0, quiet |-> TRUE]

NoView == [ok |-> FALSE, error |-> "none", generation |-> 0, index |-> {},
           from |-> 0, quiet |-> TRUE]

Reading(p) == p \in Readers /\ rd[p].step # "idle"

Generation == ActiveLocator(file).generation

\* locators of read_sorted_locators (and mutants, as in BlobLayout)
SortedAscending(a, b) ==
  LET A == IF a.valid THEN <<a.loc>> ELSE <<>>
      B == IF b.valid THEN <<b.loc>> ELSE <<>>
  IN  IF a.valid /\ b.valid /\ b.loc.generation < a.loc.generation
      THEN B \o A ELSE A \o B

Sorted(a, b) ==
  LET A == IF a.valid THEN <<a.loc>> ELSE <<>>
      B == IF b.valid THEN <<b.loc>> ELSE <<>>
  IN  IF a.valid /\ b.valid /\ b.loc.generation > a.loc.generation
      THEN B \o A ELSE A \o B

Return(p, result) ==
  /\ rd' = [rd EXCEPT ![p] = Idle]
  /\ view' = [view EXCEPT ![p] = [result EXCEPT !.from = rd[p].from,
                                               !.quiet = rd[p].quiet]]

Err(e) == [NoView EXCEPT !.error = e]

-----------------------------------------------------------------------------
ReadInit ==
  /\ Init
  /\ rd = [p \in Readers |-> Idle]
  /\ view = [p \in Readers |-> NoView]

Start(p, op) ==
  /\ p \in opened /\ p # lock /\ ~Reading(p)
  /\ rd' = [rd EXCEPT ![p] = [Idle EXCEPT !.op = op, !.step = "slot_a",
                                !.tries = reader_retry_budget,
                                !.from = Generation, !.quiet = (lock = NoProc)]]
  /\ UNCHANGED <<vars, view>>

ReadIndex(p) == Start(p, "read_index")
Refresh(p)   == Start(p, "refresh")

ReadSlotA(p) ==
  /\ rd[p].step = "slot_a"
  /\ rd' = [rd EXCEPT ![p].a = file.slot[0], ![p].step = "slot_b"]
  /\ UNCHANGED <<vars, view>>

\* With no valid slot the error goes up at once, retry budget or not.
ReadSlotB(p) ==
  LET locators == Sorted(rd[p].a, file.slot[1])
  IN  /\ rd[p].step = "slot_b"
      /\ IF locators = <<>>
         THEN Return(p, Err("NoValidLocator"))
         ELSE /\ rd' = [rd EXCEPT ![p].step = "index", ![p].a = BrokenSlot,
                          ![p].todo = locators, ![p].got = <<>>]
              /\ UNCHANGED view
      /\ UNCHANGED <<vars>>

ReadUnit(p) ==
  LET loc == Head(rd[p].todo)
      n   == Len(rd[p].got)
  IN  /\ rd[p].step = "index"
      /\ n < loc.index_length
      /\ rd' = [rd EXCEPT ![p].got = Append(@, file.body[loc.index_offset + n])]
      /\ UNCHANGED <<vars, view>>

WholeIndexRead(p) ==
  rd[p].step = "index" /\ Len(rd[p].got) = Head(rd[p].todo).index_length

Authentic(p) == rd[p].got = Head(rd[p].todo).index_mac

\* What a call that accepts an index leaves: its result, and the snapshot
\* of a refresh.
Keep(p, loc, index) ==
  /\ Return(p, [NoView EXCEPT !.ok = TRUE, !.generation = loc.generation,
                            !.index = index])
  /\ committed' = IF rd[p].op = "refresh"
                  THEN [q \in DOMAIN committed \cup {p} |->
                          IF q = p THEN [locator |-> loc, index |-> index]
                          ELSE committed[q]]
                  ELSE committed
  /\ UNCHANGED <<file, disk, opened, lock, pc, wr, txns, faults, history>>

AcceptUnverified(p) ==
  WholeIndexRead(p) /\ Keep(p, Head(rd[p].todo), Decode(rd[p].got))

AcceptAsActive(p) ==
  /\ WholeIndexRead(p) /\ Authentic(p) /\ Parses(rd[p].got)
  /\ Keep(p, ActiveLocator(file), Decode(rd[p].got))

\* The MAC verifies and the index parses.
Accept(p) ==
  /\ WholeIndexRead(p) /\ Authentic(p) /\ Parses(rd[p].got)
  /\ Keep(p, Head(rd[p].todo), Decode(rd[p].got))

\* read_index: a MAC mismatch starts over from the slots, while the budget
\* lasts.
RetryForever(p) ==
  /\ WholeIndexRead(p) /\ rd[p].op = "read_index" /\ ~Authentic(p)
  /\ rd' = [rd EXCEPT ![p].step = "slot_a", ![p].todo = <<>>,
                      ![p].got = <<>>, ![p].tries = @ - 1]
  /\ UNCHANGED <<vars, view>>

Retry(p) ==
  /\ WholeIndexRead(p) /\ rd[p].op = "read_index" /\ ~Authentic(p)
  /\ IF rd[p].tries = 0
     THEN Return(p, Err("RetryBudgetExceeded"))
     ELSE /\ rd' = [rd EXCEPT ![p].step = "slot_a", ![p].todo = <<>>,
                             ![p].got = <<>>, ![p].tries = @ - 1]
          /\ UNCHANGED view
  /\ UNCHANGED vars

\* read_index: an index that verifies but does not parse is an error at once.
Reject(p) ==
  /\ WholeIndexRead(p) /\ rd[p].op = "read_index"
  /\ Authentic(p) /\ ~Parses(rd[p].got)
  /\ Return(p, Err("IndexChainBroken"))
  /\ UNCHANGED vars

\* refresh: after either failure the other locator is tried, and the slots
\* are not read again.
NextLocator(p) ==
  LET left == Tail(rd[p].todo)
  IN  /\ WholeIndexRead(p) /\ rd[p].op = "refresh"
      /\ ~Authentic(p) \/ ~Parses(rd[p].got)
      /\ IF left = <<>>
         THEN Return(p, Err("RetryBudgetExceeded"))
         ELSE /\ rd' = [rd EXCEPT ![p].todo = left, ![p].got = <<>>]
              /\ UNCHANGED view
      /\ UNCHANGED vars

ReadStep(p) ==
  \/ ReadIndex(p) \/ Refresh(p) \/ ReadSlotA(p) \/ ReadSlotB(p)
  \/ ReadUnit(p) \/ Accept(p) \/ Retry(p) \/ Reject(p) \/ NextLocator(p)

-----------------------------------------------------------------------------
(* The writers, and what their steps mean for the calls under way. *)

ReadersSee ==
  rd' = [p \in Readers |->
           IF Reading(p)
           THEN [rd[p] EXCEPT !.quiet = @ /\ file' = file /\ lock' = NoProc]
           ELSE rd[p]]

HandleStep ==
  /\ \/ \E p \in Procs : Open(p) \/ (~Reading(p) /\ Close(p))
     \/ \E p \in Procs, plan \in Plans : ~Reading(p) /\ Begin(p, plan)
     \/ WriteStep \/ Fail \/ Kill
  /\ ReadersSee
  /\ UNCHANGED view

\* A crash of the host ends every call.
CrashStep ==
  /\ HostCrash
  /\ rd' = [p \in Readers |-> Idle]
  /\ view' = [p \in Readers |-> NoView]

ReadNext == (\E p \in Readers : ReadStep(p)) \/ HandleStep \/ CrashStep

ReadSpec == ReadInit /\ [][ReadNext]_allVars

-----------------------------------------------------------------------------
(* Properties. *)

\* The readers' calls stay in their types.
ReadTypeOK ==
  /\ rd \in [Readers -> [op : {"none", "read_index", "refresh"},
                         step : {"idle", "slot_a", "slot_b", "index"},
                         a : Slot, todo : Seq(Locator), got : Seq(Cell),
                         tries : 0 .. reader_retry_budget,
                         from : Nat, quiet : BOOLEAN]]
  /\ view \in [Readers -> [ok : BOOLEAN, generation : Nat, index : SUBSET Nat,
                           error : {"none", "NoValidLocator", "IndexChainBroken",
                                    "RetryBudgetExceeded"},
                           from : Nat, quiet : BOOLEAN]]
  /\ \A p \in Readers : Reading(p) => p \in opened /\ p # lock

(* Whatever the writers do meanwhile, an index that a reader accepts is a  *)
(* generation that was committed, whole: never a mix of two.               *)
ViewIsCommitted ==
  \A p \in Readers : view[p].ok =>
    /\ view[p].generation <= Len(log)
    /\ view[p].index = {log[g] : g \in 1 .. view[p].generation}

(* A read that found an index is at most one generation behind the one     *)
(* that was active when it began, however long it took.                    *)
ViewAtMostOneBehind ==
  \A p \in Readers : view[p].ok => view[p].generation + 1 >= view[p].from

(* With no writer at work, a read finds the current index, at once.        *)
QuietReadSucceeds ==
  \A p \in Readers :
    (view[p].quiet /\ (view[p].ok \/ view[p].error # "none") /\ ~lost) =>
      view[p].ok /\ view[p].generation = view[p].from
=============================================================================

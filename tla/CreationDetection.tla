--------------------------- MODULE CreationDetection ---------------------------
(***************************************************************************)
(* Which transactions create a token: discovery/creationDetector.ts, and   *)
(* the attribution of log lines to programs in discovery/programLogs.ts.   *)
(*                                                                         *)
(* A transaction is a record: `ok`, the `calls` it makes in order of       *)
(* invocation, its `signers`, the mints it initialises (`inits`), those    *)
(* known before it (`held`) and the tokens it really creates (`makes`,     *)
(* which the code cannot see).  A call is a record of the `program`, the   *)
(* instruction (`tag`), its `accounts` and its `depth`, 1 at the top.  The *)
(* account list of an initialize2 is the eight roles that are checked.     *)
(***************************************************************************)
EXTENDS Integers, Sequences, SequencesExt

Nobody == "nobody"

------------------------------------------------------------------------------
\* The runtime: the log of a transaction brackets every call, nested calls
\* inside their caller, and anchor programs log the name of the instruction.

Ends(programs) == [i \in DOMAIN programs |-> [kind |-> "end", program |-> Reverse(programs)[i], text |-> ""]]

Logs(tx) ==
  LET Enter(w, c) ==
        [stack |-> Append(SubSeq(w.stack, 1, c.depth - 1), c.program),
         lines |-> w.lines \o Ends(SubSeq(w.stack, c.depth, Len(w.stack)))
                           \o <<[kind |-> "invoke", program |-> c.program, text |-> ""],
                                [kind |-> "log", program |-> c.program, text |-> c.tag]>>]
      w == FoldLeft(Enter, [stack |-> <<>>, lines |-> <<>>], tx.calls)
  IN  w.lines \o Ends(w.stack)

------------------------------------------------------------------------------
\* getOwnLogLines(): a log line belongs to the innermost call under way.  The
\* line does not name its program, so the stack of calls is followed.
OwnLogLines(logs, program) ==
  LET Read(w, line) ==
        CASE line.kind = "invoke" -> [w EXCEPT !.stack = Append(@, line.program)]
          [] line.kind = "end" /\ w.stack # <<>> /\ Last(w.stack) = line.program -> [w EXCEPT !.stack = Front(@)]
          [] line.kind = "log" /\ w.stack # <<>> /\ Last(w.stack) = program -> [w EXCEPT !.own = @ \union {line.text}]
          [] OTHER -> w
  IN  FoldLeft(Read, [stack |-> <<>>, own |-> {}], logs).own

\* The names that contain the marker "Instruction: Create".
CreateLike == {"create", "createV2", "createAccount"}

\* The filter before the transaction is fetched.
MightBeCreation(tx) == tx.ok /\ OwnLogLines(Logs(tx), "pumpfun") \intersect CreateLike # {}

------------------------------------------------------------------------------
\* Evidence in the fetched transaction.

\* Variant: an instruction counts for whichever program it was meant.
AnyProgramsInstructions(tx, program) == DOMAIN tx.calls

ProgramInstructions(tx, program) == {i \in DOMAIN tx.calls : tx.calls[i].program = program}

\* Top-level instructions are looked at first, then nested ones.
Place(tx, i) == IF tx.calls[i].depth = 1 THEN i ELSE Len(tx.calls) + i

FreshMints(tx) == tx.inits \ tx.held

\* The token of the first of the occurrences that are evidence.
First(tx, evidence) ==
  IF evidence = {} THEN Nobody
  ELSE tx.calls[CHOOSE i \in evidence : \A j \in evidence : Place(tx, i) <= Place(tx, j)].accounts[1]

\* A create whose first account, the mint, signed the transaction.
IsCreate(c, tx) == c.tag \in {"create", "createV2"} /\ c.accounts # <<>> /\ c.accounts[1] \in tx.signers
DetectPumpFunCreation(tx) ==
  First(tx, {i \in ProgramInstructions(tx, "pumpfun") : IsCreate(tx.calls[i], tx)})

\* The roles of an initialize2: LP mint, pool, coin mint, other mint, their
\* vaults, market and wallet, all different.
ValidInitialize2Layout(c, tx) ==
  /\ Len(c.accounts) >= 8
  /\ Cardinality({c.accounts[i] : i \in 1..8}) = 8
  /\ c.accounts[1] \in FreshMints(tx)
  /\ c.accounts[8] \in tx.signers

\* The token reported is the LP mint of the pool.
IsPool(c, tx) == c.tag = "initialize2" /\ ValidInitialize2Layout(c, tx)
DetectRaydiumPoolCreation(tx) ==
  First(tx, {i \in ProgramInstructions(tx, "raydium") : IsPool(tx.calls[i], tx)})

==============================================================================

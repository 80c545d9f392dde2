--------------------------- MODULE SessionProofs ---------------------------
(***************************************************************************)
(* Proofs about Session, for any number of servers in a fleet.  The steps  *)
(* that are left of a verb are a tail of its Steps, so what comes next is  *)
(* read off a table once (Order); from there on the proofs speak of the    *)
(* name of the step at hand and never of sequences.                        *)
(***************************************************************************)
EXTENDS Session, SequenceTheorems, TLAPS

-----------------------------------------------------------------------------
(* Where a command is.                                                     *)

Rest(v, k) == SubSeq(Steps(v), k, Len(Steps(v)))

Place ==
    \/ todo \in {<< >>, <<"config">>, <<"write">>, <<"main">>}
    \/ \E k \in 1..Len(Steps(verb)) : todo = Rest(verb, k)

(* The step at hand.                                                       *)
Now == IF todo = << >> THEN "exit" ELSE Head(todo)

(* A server is being dealt with.                                           *)
Working == Now \notin {"exit", "config", "main"} /\ ~ (IsFleet /\ Now = "write")

(* Of a verb's steps, b comes right after a.                               *)
Order(v, a, b) ==
    \/ v = "run" /\ <<a, b>> \in {<<"contract", "adapter">>, <<"stop", "write">>}
    \/ v \in {"run", "fleet_run"} /\ <<a, b>> \in
         {<<"adapter", "start">>, <<"start", "monitor">>, <<"monitor", "observe">>, <<"observe", "stop">>}
    \/ v = "audit" /\ <<a, b>> \in {<<"events", "contract">>, <<"contract", "classify">>}
    \/ v \in {"audit", "verify"} /\ <<a, b>> = <<"classify", "write">>
    \/ v \in {"verify", "fleet_verify"} /\ <<a, b>> \in {<<"contract", "gate">>, <<"gate", "events">>}
    \/ v \in {"verify", "fleet_audit"} /\ <<a, b>> = <<"events", "classify">>
    \/ v \in {"fleet_audit", "fleet_verify", "fleet_run"} /\ <<a, b>> = <<"env", "contract">>
    \/ v = "fleet_audit" /\ <<a, b>> = <<"contract", "events">>
    \/ v = "fleet_verify" /\ <<a, b>> \in {<<"events", "nonempty">>, <<"nonempty", "classify">>}
    \/ v = "fleet_run" /\ <<a, b>> \in {<<"contract", "spec">>, <<"spec", "adapter">>}

First(v) == CASE v \in {"run", "verify"} -> "contract"
              [] v = "audit" -> "events"
              [] OTHER -> "env"

Last(v) == CASE v \in {"run", "audit", "verify"} -> "write"
             [] v = "fleet_run" -> "stop"
             [] OTHER -> "classify"

StepNames == {"env", "contract", "gate", "events", "nonempty", "classify", "spec",
              "adapter", "start", "monitor", "observe", "stop", "write"}

StepsOf(v, a) ==
    CASE a \in {"env"} -> v \in {"fleet_audit", "fleet_verify", "fleet_run"}
      [] a = "contract" -> TRUE
      [] a = "gate" -> v \in {"verify", "fleet_verify"}
      [] a \in {"events", "classify"} -> v \in {"audit", "verify", "fleet_audit", "fleet_verify"}
      [] a = "nonempty" -> v = "fleet_verify"
      [] a = "spec" -> v = "fleet_run"
      [] a \in {"adapter", "start", "monitor", "observe", "stop"} -> v \in {"run", "fleet_run"}
      [] a = "write" -> v \in {"run", "audit", "verify"}
      [] OTHER -> FALSE

LEMMA StepTable ==
    ASSUME NEW v \in Verbs
    PROVE  /\ Steps(v) \in Seq(StepNames) /\ Len(Steps(v)) \in Nat \ {0}
           /\ Steps(v)[1] = First(v)
           /\ \A k \in 1..Len(Steps(v)) :
                /\ StepsOf(v, Steps(v)[k])
                /\ k = Len(Steps(v)) => Steps(v)[k] = Last(v)
                /\ k # Len(Steps(v)) => Order(v, Steps(v)[k], Steps(v)[k + 1])
<1>1. CASE v = "run"
  BY <1>1 DEF Steps, StepNames, StepsOf, First, Last, Order
<1>2. CASE v = "audit"
  BY <1>2 DEF Steps, StepNames, StepsOf, First, Last, Order
<1>3. CASE v = "verify"
  BY <1>3 DEF Steps, StepNames, StepsOf, First, Last, Order
<1>4. CASE v = "fleet_audit"
  BY <1>4 DEF Steps, StepNames, StepsOf, First, Last, Order
<1>5. CASE v = "fleet_verify"
  BY <1>5 DEF Steps, StepNames, StepsOf, First, Last, Order
<1>6. CASE v = "fleet_run"
  BY <1>6 DEF Steps, StepNames, StepsOf, First, Last, Order
<1>7. QED BY <1>1, <1>2, <1>3, <1>4, <1>5, <1>6 DEF Verbs

LEMMA RestStarts ==
    ASSUME NEW v \in Verbs, NEW k \in 1..Len(Steps(v))
    PROVE  /\ Rest(v, k) # << >>
           /\ Head(Rest(v, k)) = Steps(v)[k]
           /\ Tail(Rest(v, k)) = Rest(v, k + 1)
           /\ Steps(v) = Rest(v, 1)
<1>1. Steps(v) \in Seq(StepNames) /\ Len(Steps(v)) \in Nat
  BY StepTable
<1>2. Len(Steps(v)) \in k..Len(Steps(v))
  BY <1>1
<1>3. /\ Head(Rest(v, k)) = Steps(v)[k]
      /\ Tail(Rest(v, k)) = Rest(v, k + 1)
  BY <1>1, <1>2, HeadTailOfSubSeq DEF Rest
<1>4. Len(Rest(v, k)) = Len(Steps(v)) - k + 1
  <2>1. \A i \in k..Len(Steps(v)) : Steps(v)[i] \in StepNames
    BY <1>1, ElementOfSeq
  <2>2. QED BY <1>1, <2>1, SubSeqProperties DEF Rest
<1>5. Rest(v, k) # << >>
  BY <1>1, <1>4
<1>6. Steps(v) = Rest(v, 1)
  BY <1>1, SubSeqFull DEF Rest
<1>7. QED BY <1>3, <1>5, <1>6

-----------------------------------------------------------------------------
(* What is at hand belongs to the verb, and what a step that goes through  *)
(* moves on to is what the table says.                                     *)

LEMMA AtIsNow == \A a : a # "exit" => (At(a) <=> Now = a)
  BY DEF At, Now

LEMMA NowBelongs ==
    ASSUME verb \in Verbs, Place
    PROVE  /\ Now \in StepNames \cup {"exit", "config", "main"}
           /\ Working => StepsOf(verb, Now) /\ \E k \in 1..Len(Steps(verb)) : todo = Rest(verb, k)
           /\ todo = << >> <=> Now = "exit"
<1>1. CASE \E k \in 1..Len(Steps(verb)) : todo = Rest(verb, k)
  <2>1. PICK k \in 1..Len(Steps(verb)) : todo = Rest(verb, k)
    BY <1>1
  <2>2. Now = Steps(verb)[k] /\ todo # << >>
    BY <2>1, RestStarts DEF Now
  <2>3. Steps(verb) \in Seq(StepNames)
    BY StepTable
  <2>4. Now \in StepNames /\ StepsOf(verb, Now)
    BY <2>2, <2>3, StepTable, ElementOfSeq
  <2>5. QED BY <1>1, <2>2, <2>4 DEF StepNames
<1>2. CASE todo \in {<< >>, <<"config">>, <<"main">>}
  BY <1>2 DEF Now, Working
<1>3. CASE todo = <<"write">>
  <2>1. Now = "write"
    BY <1>3 DEF Now
  <2>2. CASE verb \in {"run", "audit", "verify"}
    <3>1. PICK k : k = Len(Steps(verb))
      OBVIOUS
    <3>2. k \in 1..Len(Steps(verb)) /\ Steps(verb)[k] = "write" /\ Steps(verb) \in Seq(StepNames)
      BY <2>2, <3>1, StepTable DEF Last
    <3>3. todo = Rest(verb, k)
      BY <1>3, <3>1, <3>2, SubSeqRecursiveFirst, SubSeqEmpty DEF Rest
    <3>4. QED BY <1>1, <3>2, <3>3
  <2>3. CASE verb \notin {"run", "audit", "verify"}
    BY <1>3, <2>1, <2>3 DEF Working, Verbs, IsFleet, StepNames
  <2>4. QED BY <2>2, <2>3
<1>4. QED BY <1>1, <1>2, <1>3 DEF Place

LEMMA ContinueMoves ==
    ASSUME verb \in Verbs, verb' = verb, Place, Working, Now # Last(verb), Continue
    PROVE  Place' /\ Order(verb, Now, Now') /\ Now' # "exit"
<1>1. PICK k \in 1..Len(Steps(verb)) : todo = Rest(verb, k)
  BY NowBelongs
<1>2. Now = Steps(verb)[k] /\ todo' = Rest(verb, k + 1)
  BY <1>1, RestStarts DEF Now, Continue
<1>3. k + 1 \in 1..Len(Steps(verb))
  BY <1>2, StepTable
<1>4. Now' = Steps(verb)[k + 1] /\ todo' # << >>
  BY <1>2, <1>3, RestStarts DEF Now
<1>5. Place'
  BY <1>2, <1>3 DEF Place
<1>6. Order(verb, Now, Now')
  BY <1>2, <1>3, <1>4, StepTable
<1>7. Now' # "exit"
  BY <1>4, <1>3, StepTable, ElementOfSeq DEF StepNames
<1>8. QED BY <1>5, <1>6, <1>7

LEMMA StepsMoves ==
    ASSUME verb \in Verbs, verb' = verb, todo' = Steps(verb)
    PROVE  Place' /\ Now' = First(verb)
<1>1. 1 \in 1..Len(Steps(verb)) /\ Steps(verb)[1] = First(verb)
  BY StepTable
<1>2. todo' = Rest(verb, 1)
  BY <1>1, RestStarts
<1>3. QED BY <1>1, <1>2, RestStarts DEF Place, Now

LEMMA SingleMoves ==
    /\ todo' = << >> => Place' /\ Now' = "exit"
    /\ \A a \in {"config", "write", "main"} : todo' = <<a>> => Place' /\ Now' = a
  BY DEF Place, Now

-----------------------------------------------------------------------------
(* The inductive invariant.                                                *)

Opts  == [allow_empty : BOOLEAN, allow_drift : BOOLEAN]
Codes == {0, 1, 2, 3, 4, 130}

Typed ==
    /\ verb \in Verbs /\ opts \in Opts /\ truth \in [Server -> Truth]
    /\ n \in 0..MaxServers /\ server \in 0..MaxServers
    /\ outcome \in {"none", "report", "drift", "interrupt"} \cup Errors
    /\ status \in [Server -> Statuses]
    /\ backend \in [Server -> {"down", "up", "stuck"}]
    /\ raised \in {"none", "interrupt"} \cup Errors
    /\ exit \in Codes \cup {NoCode}

(* Where the command is and what it has raised go together.                *)
ControlInv ==
    /\ Place
    /\ exit = NoCode <=> Now # "exit"
    /\ Now = "main" => raised # "none"
    /\ raised # "none" => Now \in {"main", "exit"}
    /\ Now = "config" => IsFleet /\ n = 0
    /\ ~ IsFleet => n = 1 /\ server = 1
    /\ Working => server \in 1..n
    /\ outcome = "drift" => verb = "run"
    /\ Now = "stop" => outcome # "none"

(* The servers before the one at hand have their envelope, the others not. *)
Filed == \A s \in 1..n : status[s] # "none"

(* The batch met a manifest its gate could not hash.                       *)
Aborted == verb = "fleet_verify" /\ server \in 1..n /\ ~ Hashable(server)

BatchInv ==
    IsFleet =>
      /\ Now = "config" => \A s \in Server : status[s] = "none"
      /\ Working => \A s \in 1..n : status[s] # "none" <=> s < server
      /\ Now = "write" => Filed
      /\ raised \in Errors => Filed \/ Aborted
      /\ Now = "exit" /\ raised = "none" => Filed

(* A server that runs is the one at hand, between its start and its stop,  *)
(* or it is one of those _run_one forgets.                                 *)
Forgotten(s) == verb = "fleet_run" /\ (status[s] = "rug_pull" \/ ~ Hashable(s))

BackendInv ==
    \A s \in Server : backend[s] = "up" =>
       (s = server /\ Now \in {"monitor", "observe", "stop"}) \/ Forgotten(s)

(* What a status, and the step that was reached, say of the server.        *)
Observed(s) == opts.allow_empty \/ truth[s].behaviour # "empty"

Earned(s, st) ==
    /\ st \in {"violation", "rug_pull"} => verb # "fleet_audit"
    /\ st = "ok" /\ verb # "fleet_audit" => Bound(s) /\ truth[s].behaviour # "outside"
    /\ st = "ok" /\ verb = "fleet_verify" => Observed(s)
    /\ st = "violation" => Bound(s) /\ truth[s].behaviour = "outside"
    /\ st = "rug_pull" => Drifted(s)

VerdictInv ==
    /\ \A s \in Server : Earned(s, status[s])
    /\ Now \in {"events", "nonempty", "classify"} /\ verb \in {"verify", "fleet_verify"}
          => Bound(server)
    /\ Now = "classify" /\ verb = "fleet_verify" => Observed(server)
    /\ Now = "observe" => Bound(server)
    /\ Now = "stop" => /\ outcome = "drift" <=> Drifted(server)
                       /\ outcome = "report" => Bound(server)
    /\ Now = "write" /\ verb \in {"run", "verify"} => Bound(server)

ExitInv ==
    /\ exit = 3 => verb = "run"
    /\ exit = 2 => verb \notin {"audit", "fleet_audit"}
    /\ ExitCodeIsTheVerdict

IInv == Typed /\ ControlInv /\ BatchInv /\ BackendInv /\ VerdictInv /\ ExitInv

LEMMA ServersOfABatch == Typed => 1 \in Server /\ 1..n \subseteq Server
  BY MaxServersAssumption DEF Typed, Server

LEMMA InitInv == Init => IInv
<1> SUFFICES ASSUME Init PROVE IInv
  OBVIOUS
<1>1. Typed
  BY MaxServersAssumption DEF Init, Typed, Opts, Verbs, Statuses, Errors, IsFleet
<1>2. Place /\ Now = IF IsFleet THEN "config" ELSE First(verb)
  <2>1. CASE IsFleet
    BY <2>1 DEF Init, Place, Now
  <2>2. CASE ~ IsFleet
    <3>1. todo = Steps(verb) /\ verb \in Verbs
      BY <2>2 DEF Init
    <3>2. 1 \in 1..Len(Steps(verb)) /\ todo = Rest(verb, 1)
      BY <3>1, StepTable, RestStarts
    <3>3. Now = First(verb)
      BY <3>1, <3>2, RestStarts, StepTable DEF Now
    <3>4. QED BY <2>2, <3>2, <3>3 DEF Place
  <2>3. QED BY <2>1, <2>2
<1>3. ControlInv
  BY <1>2 DEF Init, ControlInv, First, Working, IsFleet, Verbs
<1>4. BatchInv /\ BackendInv
  BY <1>2 DEF Init, BatchInv, BackendInv, Working, Errors, Filed
<1>5. VerdictInv /\ ExitInv
  BY <1>2, <1>1 DEF Init, VerdictInv, ExitInv, Earned, First, IsFleet, Verbs,
     ExitCodeIsTheVerdict, Judged, Exited, NoCode
<1>6. QED BY <1>1, <1>3, <1>4, <1>5 DEF IInv

-----------------------------------------------------------------------------
(* The ways a step ends.                                                   *)

(* The servers that run after the step are those _run_one has forgotten.   *)
NoneRuns ==
    /\ backend' \in [Server -> {"down", "up", "stuck"}]
    /\ \A s \in Server : backend'[s] = "up" => Forgotten(s)

OutcomeTyped ==
    /\ outcome' \in {"none", "report", "drift", "interrupt"} \cup Errors
    /\ outcome' = "drift" => verb = "run"

LEMMA NotRunning ==
    IInv /\ UNCHANGED backend /\ Now \notin {"monitor", "observe", "stop"} => NoneRuns
  BY DEF IInv, Typed, BackendInv, NoneRuns

LEMMA OutcomeKept == IInv /\ UNCHANGED outcome => OutcomeTyped
  BY DEF IInv, Typed, ControlInv, OutcomeTyped

LEMMA RaiseKeeps ==
    ASSUME IInv, Given, NoneRuns, OutcomeTyped, Now # "exit",
           NEW kinds \in SUBSET (Errors \cup {"interrupt"}), Raise(kinds),
           \/ ~ IsFleet \/ kinds = {"interrupt"} \/ Now \in {"config", "write"} \/ Aborted
    PROVE  IInv'
<1>1. Place' /\ Now' = "main"
  BY SingleMoves DEF Raise
<1>2. Typed'
  BY DEF IInv, Typed, Given, NoneRuns, OutcomeTyped, Raise, Errors
<1>3. ControlInv'
  BY <1>1 DEF IInv, Typed, ControlInv, Given, OutcomeTyped, Raise, Errors, IsFleet, Working
<1>4. BatchInv'
  BY <1>1 DEF IInv, ControlInv, BatchInv, Aborted, Hashable, Given, Raise, Errors, IsFleet, Working, Filed
<1>5. BackendInv'
  BY <1>1 DEF NoneRuns, BackendInv, Given, Raise, Forgotten, Hashable
<1>6. VerdictInv'
  BY <1>1 DEF IInv, VerdictInv, Given, Raise, Earned, Drifted, Bound, Hashable, Observed
<1>7. ExitInv'
  BY DEF IInv, ControlInv, ExitInv, Given, Raise, ExitCodeIsTheVerdict, Judged, Exited, NoCode
<1>8. QED BY <1>2, <1>3, <1>4, <1>5, <1>6, <1>7 DEF IInv

LEMMA EnvelopeKeeps ==
    ASSUME IInv, Given, OutcomeTyped, Working, IsFleet,
           NEW st \in Statuses \ {"none"}, Envelope(st), Earned(server, st),
           backend' \in [Server -> {"down", "up", "stuck"}],
           \A s \in Server : backend'[s] = "up" =>
              Forgotten(s) \/ (s = server /\ verb = "fleet_run" /\ st = "rug_pull")
    PROVE  IInv'
<1>t. /\ verb \in Verbs /\ server \in 1..n /\ server \in Server /\ n \in Nat
      /\ status \in [Server -> Statuses] /\ raised = "none" /\ exit = NoCode
  BY ServersOfABatch DEF IInv, Typed, ControlInv, Working
<1>1. Place' /\ Now' = IF server < n THEN First(verb) ELSE "write"
  BY <1>t, StepsMoves, SingleMoves DEF Envelope, Given
<1>2. server' = IF server < n THEN server + 1 ELSE server
  BY DEF Envelope
<1>3. /\ status' \in [Server -> Statuses] /\ status'[server] = st
      /\ \A s \in Server : s # server => status'[s] = status[s]
  BY <1>t DEF Envelope
<1>4. Typed'
  <2>1. server' \in 0..MaxServers
    BY <1>2, <1>t, MaxServersAssumption DEF IInv, Typed
  <2>2. QED BY <2>1, <1>3 DEF IInv, Typed, Given, OutcomeTyped, Envelope
<1>5. ControlInv'
  BY <1>1, <1>2, <1>t DEF IInv, Typed, ControlInv, Given, OutcomeTyped, Envelope, IsFleet, Working, First, NoCode
<1>6. BatchInv'
  BY <1>1, <1>2, <1>3, <1>t, ServersOfABatch DEF IInv, BatchInv, Aborted, Hashable, Given, Envelope, IsFleet, Working, First, Filed, Errors
<1>7. BackendInv'
  <2>1. \A s \in Server : Forgotten(s) => s # server \/ ~ Hashable(s)
    BY <1>t DEF IInv, BatchInv, Forgotten
  <2>2. QED BY <1>3, <2>1 DEF BackendInv, Forgotten, Hashable, Given
<1>8. VerdictInv'
  <2>1. \A s \in Server : Earned(s, status'[s])
    BY <1>3 DEF IInv, VerdictInv
  <2>2. (\A s \in Server : Earned(s, status[s]))'
    BY <2>1 DEF Earned, Drifted, Bound, Hashable, Observed, Given
  <2>3. QED BY <1>1, <1>t, <2>2 DEF VerdictInv, First, IsFleet, Given
<1>9. ExitInv'
  BY <1>t DEF ExitInv, Envelope, ExitCodeIsTheVerdict, Judged, Exited, NoCode
<1>10. QED BY <1>4, <1>5, <1>6, <1>7, <1>8, <1>9 DEF IInv

LEMMA ReturnKeeps ==
    ASSUME IInv, Given, NoneRuns, OutcomeTyped, Now # "exit",
           NEW code \in Codes, Return(code), ExitInv',
           IsFleet /\ raised = "none" => Filed
    PROVE  IInv'
<1>1. Place' /\ Now' = "exit"
  BY SingleMoves DEF Return
<1>2. Typed'
  BY DEF IInv, Typed, Given, NoneRuns, OutcomeTyped, Return
<1>3. ControlInv'
  BY <1>1 DEF IInv, Typed, ControlInv, Given, OutcomeTyped, Return, IsFleet, Working, NoCode, Codes
<1>4. BatchInv'
  BY <1>1 DEF IInv, ControlInv, BatchInv, Aborted, Hashable, Given, Return, IsFleet, Working, Filed
<1>5. BackendInv'
  BY <1>1 DEF NoneRuns, BackendInv, Given, Return, Forgotten, Hashable
<1>6. VerdictInv'
  BY <1>1 DEF IInv, VerdictInv, Given, Return, Earned, Drifted, Bound, Hashable, Observed
<1>7. QED BY <1>2, <1>3, <1>4, <1>5, <1>6 DEF IInv

(* A step that goes through: what is left to show is what it has found out *)
(* about the server at hand.                                               *)
LEMMA ContinueKeeps ==
    ASSUME IInv, Given, Working, Now # Last(verb), Continue, OutcomeTyped,
           Now' = "stop" => outcome' # "none",
           backend' \in [Server -> {"down", "up", "stuck"}],
           \A s \in Server : backend'[s] = "up" =>
              (s = server /\ Now' \in {"monitor", "observe", "stop"}) \/ Forgotten(s),
           (VerdictInv)'
    PROVE  IInv'
<1>1. Place' /\ Order(verb, Now, Now')
  BY ContinueMoves DEF IInv, Typed, ControlInv, Given
<1>2. Now' \in StepNames /\ (Now' = "write" => ~ IsFleet)
  BY <1>1 DEF Order, StepNames, IsFleet
<1>3. Typed'
  BY DEF IInv, Typed, Given, OutcomeTyped, Continue
<1>4. ControlInv'
  BY <1>1, <1>2 DEF IInv, Typed, ControlInv, Given, OutcomeTyped, Continue, IsFleet, Working, StepNames
<1>5. BatchInv'
  BY <1>1, <1>2 DEF IInv, ControlInv, BatchInv, Aborted, Hashable, Given, Continue, IsFleet, Working, Filed, StepNames
<1>6. BackendInv'
  BY DEF BackendInv, Given, Continue, Forgotten, Hashable
<1>7. ExitInv'
  BY DEF IInv, ControlInv, ExitInv, Given, Continue, ExitCodeIsTheVerdict, Judged, Exited, NoCode, Working
<1>8. QED BY <1>3, <1>4, <1>5, <1>6, <1>7 DEF IInv

-----------------------------------------------------------------------------
(* The actions.                                                            *)

LEMMA StepFacts ==
    IInv => /\ verb \in Verbs /\ server \in 0..MaxServers /\ n \in 0..MaxServers
            /\ outcome \in {"none", "report", "drift", "interrupt"} \cup Errors
            /\ backend \in [Server -> {"down", "up", "stuck"}]
            /\ Now \in StepNames \cup {"exit", "config", "main"}
            /\ Working => /\ StepsOf(verb, Now) /\ server \in Server /\ server \in 1..n
                          /\ raised = "none" /\ exit = NoCode
                          /\ IsFleet => status[server] = "none"
  BY NowBelongs, ServersOfABatch DEF IInv, Typed, ControlInv, BatchInv, Working

(* What goes through a step that finds nothing out.                        *)
LEMMA PassesOn ==
    ASSUME IInv, Given, Continue, Working, Now # Last(verb), UNCHANGED <<outcome, backend>>,
           Now \in {"env", "contract", "spec", "adapter", "events"},
           Now = "events" /\ verb \in {"verify", "fleet_verify"} => Bound(server)
    PROVE  IInv'
<1>1. Place' /\ Order(verb, Now, Now')
  BY ContinueMoves DEF IInv, Typed, ControlInv, Given
<1>2. Now' \notin {"monitor", "observe", "stop", "write"}
  BY <1>1 DEF Order
<1>3. VerdictInv'
  <2>1. Now' \in {"events", "nonempty", "classify"} /\ verb \in {"verify", "fleet_verify"}
           => Now = "events"
    BY <1>1 DEF Order
  <2>2. ~ (Now' = "classify" /\ verb = "fleet_verify")
    BY <1>1 DEF Order
  <2>3. QED BY <1>2, <2>1, <2>2 DEF IInv, VerdictInv, Given, Continue, Earned, Drifted, Bound, Hashable, Observed
<1>4. NoneRuns /\ OutcomeTyped
  BY NotRunning, OutcomeKept
<1>5. QED BY <1>2, <1>3, <1>4, ContinueKeeps DEF NoneRuns

LEMMA FiledAway ==
    ASSUME IInv, Given, UNCHANGED <<outcome, backend>>, Working, IsFleet,
           Now \notin {"monitor", "observe", "stop"},
           NEW st \in Statuses \ {"none"}, Earned(server, st), Envelope(st)
    PROVE  IInv'
<1>1. NoneRuns /\ OutcomeTyped
  BY NotRunning, OutcomeKept
<1>2. /\ backend' \in [Server -> {"down", "up", "stuck"}]
      /\ \A s \in Server : backend'[s] = "up" =>
           Forgotten(s) \/ (s = server /\ verb = "fleet_run" /\ st = "rug_pull")
  BY <1>1 DEF NoneRuns
<1>3. QED BY <1>1, <1>2, EnvelopeKeeps

LEMMA FailKeeps ==
    ASSUME IInv, Given, UNCHANGED <<outcome, backend>>, Working,
           Now \notin {"monitor", "observe", "stop"},
           NEW kinds \in SUBSET Errors, Fail(kinds, "error")
    PROVE  IInv'
<1>1. NoneRuns /\ OutcomeTyped /\ Now # "exit"
  BY NotRunning, OutcomeKept DEF Working
<1>2. CASE IsFleet
  <2>1. Envelope("error") /\ "error" \in Statuses \ {"none"} /\ Earned(server, "error")
    BY <1>2 DEF Fail, Statuses, Earned
  <2>2. QED BY <1>1, <1>2, <2>1, FiledAway
<1>3. CASE ~ IsFleet
  BY <1>1, <1>3, RaiseKeeps DEF Fail
<1>4. QED BY <1>2, <1>3

LEMMA ConfigureInv == IInv /\ Configure => IInv'
<1> SUFFICES ASSUME IInv, Configure PROVE IInv'
  OBVIOUS
<1>1. Now = "config" /\ IsFleet /\ n = 0 /\ exit = NoCode /\ raised = "none"
  BY AtIsNow DEF Configure, IInv, ControlInv
<1>2. NoneRuns /\ OutcomeTyped
  BY <1>1, NotRunning, OutcomeKept DEF Configure
<1>3. CASE Raise(Errors) /\ n' = n
  BY <1>1, <1>2, <1>3, RaiseKeeps DEF Configure, Given
<1>4. CASE ~ (Raise(Errors) /\ n' = n)
  <2>1. /\ n' \in 0..MaxServers /\ UNCHANGED <<verb, opts, truth, outcome, backend, status, raised, exit>>
        /\ IF n' = 0 THEN server' = 0 /\ todo' = <<"write">>
                     ELSE server' = 1 /\ todo' = Steps(verb)
    BY <1>4 DEF Configure
  <2>2. verb \in Verbs
    BY StepFacts
  <2>3. Place' /\ Now' = IF n' = 0 THEN "write" ELSE "env"
    BY <2>1, <2>2, <1>1, StepsMoves, SingleMoves DEF First, IsFleet
  <2>4. Typed'
    BY <2>1, MaxServersAssumption DEF IInv, Typed
  <2>5. ControlInv'
    BY <1>1, <2>1, <2>3 DEF IInv, ControlInv, IsFleet, Working
  <2>6. BatchInv'
    <3>1. \A s \in 1..n' : status[s] = "none"
      BY <1>1, <2>1, MaxServersAssumption DEF IInv, BatchInv, Server
    <3>2. QED BY <1>1, <2>1, <2>3, <3>1 DEF BatchInv, Aborted, Hashable, Filed, Working, Errors, IsFleet
  <2>7. BackendInv'
    BY <1>2, <2>1 DEF NoneRuns, BackendInv, Forgotten, Hashable
  <2>8. VerdictInv'
    BY <1>1, <2>1, <2>3 DEF IInv, VerdictInv, Earned, Drifted, Bound, Hashable, Observed, IsFleet
  <2>9. ExitInv'
    BY <1>1, <2>1 DEF ExitInv, ExitCodeIsTheVerdict, Judged, Exited, NoCode
  <2>10. QED BY <2>4, <2>5, <2>6, <2>7, <2>8, <2>9 DEF IInv
<1>5. QED BY <1>3, <1>4

LEMMA CheckEnvInv == IInv /\ CheckEnv => IInv'
<1> SUFFICES ASSUME IInv, CheckEnv PROVE IInv'
  OBVIOUS
<1>1. Now = "env" /\ Working /\ IsFleet /\ Now # Last(verb)
  BY AtIsNow, StepFacts, NowBelongs DEF CheckEnv, Working, IsFleet, StepsOf, Last, IInv, Typed, ControlInv
<1>2. CASE Continue
  BY <1>1, <1>2, PassesOn DEF CheckEnv
<1>3. CASE Envelope("skipped")
  BY <1>1, <1>3, FiledAway DEF CheckEnv, Statuses, Earned
<1>4. QED BY <1>2, <1>3 DEF CheckEnv

LEMMA LoadContractInv == IInv /\ LoadContract => IInv'
<1> SUFFICES ASSUME IInv, LoadContract PROVE IInv'
  OBVIOUS
<1>1. Now = "contract" /\ Working /\ Now # Last(verb)
  BY AtIsNow DEF LoadContract, Working, Last
<1>2. CASE Continue
  BY <1>1, <1>2, PassesOn DEF LoadContract
<1>3. CASE Fail(Errors, "error")
  BY <1>1, <1>3, FailKeeps DEF LoadContract
<1>4. QED BY <1>2, <1>3 DEF LoadContract

LEMMA LoadEventsInv == IInv /\ LoadEvents => IInv'
<1> SUFFICES ASSUME IInv, LoadEvents PROVE IInv'
  OBVIOUS
<1>1. Now = "events" /\ Working /\ Now # Last(verb)
  BY AtIsNow DEF LoadEvents, Working, Last
<1>2. CASE Continue
  BY <1>1, <1>2, PassesOn DEF LoadEvents, IInv, VerdictInv
<1>3. CASE Fail(Errors, "error")
  BY <1>1, <1>3, FailKeeps DEF LoadEvents
<1>4. QED BY <1>2, <1>3 DEF LoadEvents

LEMMA ToServerSpecInv == IInv /\ ToServerSpec => IInv'
<1> SUFFICES ASSUME IInv, ToServerSpec PROVE IInv'
  OBVIOUS
<1>1. Now = "spec" /\ Working /\ Now # Last(verb)
  BY AtIsNow DEF ToServerSpec, Working, Last
<1>2. verb = "fleet_run" /\ IsFleet
  BY <1>1, StepFacts DEF StepsOf, IsFleet
<1>3. CASE Continue
  BY <1>1, <1>3, PassesOn DEF ToServerSpec
<1>4. CASE Envelope("skipped")
  BY <1>1, <1>2, <1>4, FiledAway DEF ToServerSpec, Statuses, Earned
<1>5. CASE Envelope("error")
  BY <1>1, <1>2, <1>5, FiledAway DEF ToServerSpec, Statuses, Earned
<1>6. QED BY <1>3, <1>4, <1>5 DEF ToServerSpec

LEMMA GetAdapterInv == IInv /\ GetAdapter => IInv'
<1> SUFFICES ASSUME IInv, GetAdapter PROVE IInv'
  OBVIOUS
<1>1. Now = "adapter" /\ Working /\ Now # Last(verb)
  BY AtIsNow DEF GetAdapter, Working, Last
<1>2. CASE Continue
  BY <1>1, <1>2, PassesOn DEF GetAdapter
<1>3. CASE Fail(Errors, "error")
  BY <1>1, <1>3, FailKeeps DEF GetAdapter
<1>4. CASE verb = "run" /\ Return(2)
  <2>1. NoneRuns /\ OutcomeTyped /\ Now # "exit" /\ ~ IsFleet
    BY <1>1, <1>4, NotRunning, OutcomeKept DEF GetAdapter, IsFleet
  <2>2. ExitInv'
    BY <1>4 DEF GetAdapter, Given, Return, ExitInv, ExitCodeIsTheVerdict, Drifted, Bound, Hashable, IsFleet
  <2>3. 2 \in Codes
    BY DEF Codes
  <2>4. QED BY <1>4, <2>1, <2>2, <2>3, ReturnKeeps DEF GetAdapter
<1>5. QED BY <1>2, <1>3, <1>4 DEF GetAdapter

LEMMA GateInv == IInv /\ Gate => IInv'
<1> SUFFICES ASSUME IInv, Gate PROVE IInv'
  OBVIOUS
<1>1. Now = "gate" /\ Working /\ Now # Last(verb)
  BY AtIsNow DEF Gate, Working, Last
<1>2. verb \in {"verify", "fleet_verify"} /\ Given /\ UNCHANGED <<outcome, backend>>
  BY <1>1, StepFacts DEF StepsOf, Gate
<1>3. NoneRuns /\ OutcomeTyped
  BY <1>1, <1>2, NotRunning, OutcomeKept
<1>4. CASE Drifted(server) /\ IsFleet /\ Envelope("rug_pull")
  <2>1. Earned(server, "rug_pull") /\ "rug_pull" \in Statuses \ {"none"}
    BY <1>2, <1>4 DEF Earned, Statuses
  <2>2. QED BY <1>1, <1>2, <1>4, <2>1, FiledAway
<1>5. CASE Drifted(server) /\ ~ IsFleet /\ Return(2)
  <2>1. Return(2) /\ 2 \in Codes /\ n = 1 /\ server = 1 /\ verb = "verify"
    BY <1>2, <1>5 DEF Codes, IInv, ControlInv, IsFleet
  <2>2. ExitInv'
    BY <1>2, <1>5, <2>1 DEF Given, Return, ExitInv, ExitCodeIsTheVerdict, Drifted, Bound, Hashable
  <2>3. QED BY <1>1, <1>2, <1>3, <1>5, <2>1, <2>2, ReturnKeeps
<1>6. CASE Bound(server) /\ Continue
  <2>1. Continue
    BY <1>6
  <2>2. Now' = "events"
    BY <1>1, <1>2, <2>1, ContinueMoves DEF IInv, Typed, ControlInv, Given, Order
  <2>3. VerdictInv'
    BY <1>2, <1>6, <2>1, <2>2 DEF IInv, VerdictInv, Given, Continue, Earned, Drifted, Bound, Hashable, Observed
  <2>4. QED BY <1>1, <1>2, <1>3, <2>1, <2>2, <2>3, ContinueKeeps DEF NoneRuns
<1>7. CASE ~ Hashable(server) /\ Raise(HashErrors)
  <2>1. ~ IsFleet \/ Aborted
    BY <1>1, <1>2, <1>7, StepFacts DEF Aborted, IsFleet
  <2>2. HashErrors \in SUBSET (Errors \cup {"interrupt"}) /\ Now # "exit"
    BY <1>1 DEF HashErrors, Errors
  <2>3. QED BY <1>2, <1>3, <1>7, <2>1, <2>2, RaiseKeeps
<1>8. QED BY <1>4, <1>5, <1>6, <1>7 DEF Gate

LEMMA RefuseEmptyInv == IInv /\ RefuseEmpty => IInv'
<1> SUFFICES ASSUME IInv, RefuseEmpty PROVE IInv'
  OBVIOUS
<1>1. Now = "nonempty" /\ Working /\ Now # Last(verb)
  BY AtIsNow DEF RefuseEmpty, Working, Last
<1>2. verb = "fleet_verify" /\ IsFleet /\ Given /\ UNCHANGED <<outcome, backend>>
  BY <1>1, StepFacts DEF StepsOf, RefuseEmpty, IsFleet
<1>3. CASE Observed(server)
  <2>1. Continue
    BY <1>3 DEF RefuseEmpty, Observed
  <2>2. Now' = "classify"
    BY <1>1, <1>2, <2>1, ContinueMoves DEF IInv, Typed, ControlInv, Given, Order
  <2>3. VerdictInv'
    BY <1>1, <1>2, <1>3, <2>1, <2>2 DEF IInv, VerdictInv, Given, Continue, Earned, Drifted, Bound, Hashable, Observed
  <2>4. NoneRuns /\ OutcomeTyped
    BY <1>1, <1>2, NotRunning, OutcomeKept
  <2>5. QED BY <1>1, <1>2, <2>1, <2>2, <2>3, <2>4, ContinueKeeps DEF NoneRuns
<1>4. CASE ~ Observed(server)
  <2>1. Envelope("skipped") /\ "skipped" \in Statuses \ {"none"} /\ Earned(server, "skipped")
    BY <1>4 DEF RefuseEmpty, Observed, Statuses, Earned
  <2>2. QED BY <1>1, <1>2, <2>1, FiledAway
<1>5. QED BY <1>3, <1>4

LEMMA ClassifyInv == IInv /\ Classify => IInv'
<1> SUFFICES ASSUME IInv, Classify PROVE IInv'
  OBVIOUS
<1>1. Now = "classify" /\ Working
  BY AtIsNow DEF Classify, Working
<1>2. /\ verb \in {"audit", "verify", "fleet_audit", "fleet_verify"}
      /\ Given /\ UNCHANGED <<outcome, backend>>
  BY <1>1, StepFacts DEF StepsOf, Classify
<1>3. CASE Fail({"ValueError", "other"}, "error")
  <2>1. {"ValueError", "other"} \in SUBSET Errors
    BY DEF Errors
  <2>2. QED BY <1>1, <1>2, <1>3, <2>1, FailKeeps
<1>4. CASE IsFleet /\ Envelope(StatusOf(server))
  <2>1. StatusOf(server) \in Statuses \ {"none"} /\ Earned(server, StatusOf(server))
    BY <1>1, <1>2, <1>4 DEF IInv, VerdictInv, StatusOf, Statuses, Earned, IsFleet
  <2>2. QED BY <1>1, <1>2, <1>4, <2>1, FiledAway
<1>5. CASE ~ IsFleet /\ Continue
  <2>1. verb \in {"audit", "verify"} /\ Now # Last(verb)
    BY <1>1, <1>2, <1>5 DEF IsFleet, Last
  <2>2. Now' = "write"
    BY <1>1, <1>2, <1>5, <2>1, ContinueMoves DEF IInv, Typed, ControlInv, Given, Order
  <2>3. VerdictInv'
    BY <1>1, <1>2, <1>5, <2>1, <2>2 DEF IInv, VerdictInv, Given, Continue, Earned, Drifted, Bound, Hashable, Observed
  <2>4. NoneRuns /\ OutcomeTyped
    BY <1>1, <1>2, NotRunning, OutcomeKept
  <2>5. QED BY <1>1, <1>2, <1>5, <2>1, <2>2, <2>3, <2>4, ContinueKeeps DEF NoneRuns
<1>6. QED BY <1>3, <1>4, <1>5 DEF Classify

LEMMA StartServerInv == IInv /\ StartServer => IInv'
<1> SUFFICES ASSUME IInv, StartServer PROVE IInv'
  OBVIOUS
<1>1. Now = "start" /\ Working /\ Now # Last(verb)
  BY AtIsNow DEF StartServer, Working, Last
<1>2. Given /\ UNCHANGED outcome
  BY DEF StartServer
<1>3. CASE Continue /\ backend' = [backend EXCEPT ![server] = "up"]
  <2>1. Now' = "monitor"
    BY <1>1, <1>2, <1>3, ContinueMoves DEF IInv, Typed, ControlInv, Given, Order
  <2>2. VerdictInv'
    BY <1>2, <1>3, <2>1 DEF IInv, VerdictInv, Given, Continue, Earned, Drifted, Bound, Hashable, Observed
  <2>3. /\ backend' \in [Server -> {"down", "up", "stuck"}]
        /\ \A s \in Server : backend'[s] = "up" =>
             (s = server /\ Now' \in {"monitor", "observe", "stop"}) \/ Forgotten(s)
    BY <1>1, <1>3, <2>1, StepFacts DEF IInv, BackendInv
  <2>4. QED BY <1>1, <1>2, <1>3, <2>1, <2>2, <2>3, OutcomeKept, ContinueKeeps
<1>4. CASE Fail({"ValueError", "other"}, "error") /\ UNCHANGED backend
  <2>1. {"ValueError", "other"} \in SUBSET Errors
    BY DEF Errors
  <2>2. QED BY <1>1, <1>2, <1>4, <2>1, FailKeeps
<1>5. QED BY <1>3, <1>4 DEF StartServer

LEMMA RunningOne ==
    IInv /\ Now \in {"monitor", "observe", "stop"} =>
      /\ Working /\ Now # Last("run") /\ verb \in {"run", "fleet_run"}
      /\ IsFleet <=> verb = "fleet_run"
      /\ \A s \in Server : backend[s] = "up" => s = server \/ Forgotten(s)
  BY StepFacts DEF IInv, BackendInv, Working, Last, StepsOf, IsFleet

LEMMA CreateMonitorInv == IInv /\ CreateMonitor => IInv'
<1> SUFFICES ASSUME IInv, CreateMonitor PROVE IInv'
  OBVIOUS
<1>1. Now = "monitor"
  BY AtIsNow DEF CreateMonitor
<1>2. /\ Given /\ UNCHANGED backend /\ Working /\ verb \in {"run", "fleet_run"}
      /\ IsFleet <=> verb = "fleet_run"
  BY <1>1, RunningOne DEF CreateMonitor
<1>3. Now # Last(verb) /\ verb \in Verbs
  BY <1>1, <1>2, StepFacts DEF Last
<1>4. CASE MonitorErrors(server) = {} /\ Continue /\ UNCHANGED outcome
  <2>1. Continue /\ UNCHANGED outcome /\ Bound(server)
    BY <1>4 DEF MonitorErrors, Bound, HashErrors
  <2>2. Now' = "observe"
    BY <1>1, <1>2, <1>3, <2>1, ContinueMoves DEF IInv, ControlInv, Given, Order
  <2>3. VerdictInv'
    BY <1>2, <2>1, <2>2 DEF IInv, VerdictInv, Given, Continue, Earned, Drifted, Bound, Hashable, Observed
  <2>4. /\ backend' \in [Server -> {"down", "up", "stuck"}]
        /\ \A s \in Server : backend'[s] = "up" =>
             (s = server /\ Now' \in {"monitor", "observe", "stop"}) \/ Forgotten(s)
    BY <1>1, <1>2, <2>2, StepFacts, RunningOne
  <2>5. QED BY <1>2, <1>3, <2>1, <2>2, <2>3, <2>4, OutcomeKept, ContinueKeeps
<1>e. ASSUME NEW error \in MonitorErrors(server)
      PROVE  /\ error \in {"drift"} \cup Errors
             /\ error = "drift" <=> Drifted(server)
             /\ error # "drift" => ~ Hashable(server)
  <2>1. CASE Drifted(server)
    <3>1. Hashable(server)
      BY <2>1 DEF Drifted, Hashable
    <3>2. QED BY <2>1, <3>1 DEF MonitorErrors
  <2>2. CASE ~ Drifted(server)
    <3>1. error \in HashErrors /\ ~ Hashable(server)
      BY <1>e, <2>2 DEF MonitorErrors
    <3>2. QED BY <2>2, <3>1 DEF HashErrors, Errors
  <2>3. QED BY <2>1, <2>2
<1>5. ASSUME NEW error \in MonitorErrors(server), IsFleet, UNCHANGED outcome,
             Envelope(IF error = "drift" THEN "rug_pull" ELSE "error")
      PROVE  IInv'
  <2> DEFINE st == IF error = "drift" THEN "rug_pull" ELSE "error"
  <2>1. Envelope(st) /\ st \in Statuses \ {"none"}
    BY <1>5 DEF Statuses
  <2>2. Earned(server, st)
    BY <1>2, <1>5, <1>e DEF Earned
  <2>3. backend' \in [Server -> {"down", "up", "stuck"}]
    BY <1>2, StepFacts
  <2>4. \A s \in Server : backend'[s] = "up" =>
           Forgotten(s) \/ (s = server /\ verb = "fleet_run" /\ st = "rug_pull")
    <3>1. st = "rug_pull" \/ ~ Hashable(server)
      BY <1>5, <1>e
    <3>2. \A s \in Server : backend'[s] = "up" => s = server \/ Forgotten(s)
      BY <1>1, <1>2, RunningOne
    <3> HIDE DEF st
    <3>3. QED BY <1>2, <1>5, <3>1, <3>2 DEF Forgotten
  <2>5. OutcomeTyped
    BY <1>5, OutcomeKept
  <2> HIDE DEF st
  <2>6. QED BY <1>2, <1>5, <2>1, <2>2, <2>3, <2>4, <2>5, EnvelopeKeeps
<1>6. ASSUME NEW error \in MonitorErrors(server), ~ IsFleet,
             outcome' = error, todo' = Tail(Tail(todo)),
             UNCHANGED <<server, status, raised, exit>>
      PROVE  IInv'
  <2>1. /\ outcome' = error /\ todo' = Tail(Tail(todo)) /\ verb = "run"
        /\ UNCHANGED <<server, status, raised, exit>>
    BY <1>2, <1>6
  <2>2. Place' /\ Now' = "stop"
    <3>1. PICK k \in 1..Len(Steps(verb)) : todo = Rest(verb, k)
      BY <1>2, <1>3, NowBelongs DEF IInv, ControlInv
    <3>2. Now = Steps(verb)[k] /\ Tail(todo) = Rest(verb, k + 1)
      BY <1>3, <3>1, RestStarts DEF Now
    <3>3. k + 1 \in 1..Len(Steps(verb)) /\ Steps(verb)[k + 1] = "observe"
      BY <1>1, <1>3, <3>2, <2>1, StepTable DEF Order
    <3>4. k + 2 \in 1..Len(Steps(verb)) /\ Steps(verb)[k + 2] = "stop"
      <4>1. k + 1 # Len(Steps(verb)) /\ Len(Steps(verb)) \in Nat
        BY <1>3, <2>1, <3>3, StepTable DEF Last
      <4>2. Order(verb, Steps(verb)[k + 1], Steps(verb)[(k + 1) + 1]) /\ (k + 1) + 1 = k + 2
        BY <1>3, <3>3, <4>1, StepTable
      <4>3. QED BY <2>1, <3>3, <4>1, <4>2 DEF Order
    <3>5. todo' = Rest(verb, k + 2)
      <4>1. Tail(Rest(verb, k + 1)) = Rest(verb, (k + 1) + 1) /\ (k + 1) + 1 = k + 2
        BY <1>3, <3>3, RestStarts
      <4>2. QED BY <2>1, <3>2, <4>1
    <3>6. todo' # << >> /\ Now' = "stop"
      BY <1>3, <3>4, <3>5, RestStarts DEF Now
    <3>7. QED BY <1>2, <3>4, <3>5, <3>6 DEF Place, Given
  <2>3. Typed'
    BY <1>2, <1>e, <1>6, <2>1 DEF IInv, Typed, Given
  <2>4. ControlInv'
    BY <1>1, <1>2, <1>e, <1>6, <2>1, <2>2 DEF Errors, IInv, ControlInv, Given, IsFleet, Working
  <2>5. BatchInv'
    BY <1>2, <1>6, <2>1 DEF BatchInv, Aborted, Hashable, IsFleet, Given
  <2>6. BackendInv'
    BY <1>1, <1>2, <2>1, <2>2, RunningOne DEF BackendInv, Forgotten, Hashable, Given
  <2>7. VerdictInv'
    BY <1>2, <1>e, <1>6, <2>1, <2>2 DEF Errors, IInv, VerdictInv, Given, Earned, Drifted, Bound, Hashable, Observed
  <2>8. ExitInv'
    BY <1>2, <2>1, StepFacts DEF Given, ExitInv, ExitCodeIsTheVerdict, Judged, Exited, NoCode
  <2>9. QED BY <2>3, <2>4, <2>5, <2>6, <2>7, <2>8 DEF IInv
<1>7. QED BY <1>4, <1>5, <1>6 DEF CreateMonitor

LEMMA ObserveInv == IInv /\ Observe => IInv'
<1> SUFFICES ASSUME IInv, Observe PROVE IInv'
  OBVIOUS
<1>1. Now = "observe" /\ Given /\ UNCHANGED backend /\ Continue
  BY AtIsNow DEF Observe
<1>2. Working /\ Now # Last(verb)
  BY <1>1, RunningOne DEF Last
<1>3. Now' = "stop"
  BY <1>1, <1>2, ContinueMoves DEF IInv, Typed, ControlInv, Given, Order
<1>4. outcome' \notin {"none", "drift"} /\ OutcomeTyped
  BY DEF Observe, OutcomeTyped, Errors
<1>5. VerdictInv'
  BY <1>1, <1>3, <1>4 DEF IInv, VerdictInv, Given, Continue, Earned, Drifted, Bound, Hashable, Observed
<1>6. /\ backend' \in [Server -> {"down", "up", "stuck"}]
      /\ \A s \in Server : backend'[s] = "up" =>
           (s = server /\ Now' \in {"monitor", "observe", "stop"}) \/ Forgotten(s)
  BY <1>1, <1>3, StepFacts, RunningOne
<1>7. QED BY <1>1, <1>2, <1>3, <1>4, <1>5, <1>6, ContinueKeeps

LEMMA StopServerInv == IInv /\ StopServer => IInv'
<1> SUFFICES ASSUME IInv, StopServer PROVE IInv'
  OBVIOUS
<1>1. Now = "stop" /\ Given /\ outcome' = "none"
  BY AtIsNow DEF StopServer
<1>2. /\ Working /\ verb \in {"run", "fleet_run"} /\ (IsFleet <=> verb = "fleet_run")
      /\ server \in Server /\ raised = "none"
      /\ outcome \in {"report", "drift", "interrupt"} \cup Errors
      /\ outcome = "drift" => verb = "run"
      /\ outcome = "drift" <=> Drifted(server)
      /\ outcome = "report" => Bound(server)
  BY <1>1, RunningOne, StepFacts DEF IInv, ControlInv, VerdictInv
<1>3. NoneRuns
  <2>1. \A s \in Server : s # server => backend'[s] = backend[s]
    BY <1>2, StepFacts DEF StopServer
  <2>2. backend' \in [Server -> {"down", "up", "stuck"}] /\ backend'[server] # "up"
    BY <1>2, StepFacts DEF StopServer
  <2>3. QED BY <1>1, <2>1, <2>2, RunningOne DEF NoneRuns
<1>4. OutcomeTyped
  BY <1>1 DEF OutcomeTyped
<1>5. \A st \in Statuses \ {"none"} :
         Envelope(st) /\ IsFleet /\ Earned(server, st) => IInv'
  <2> SUFFICES ASSUME NEW st \in Statuses \ {"none"}, Envelope(st), IsFleet, Earned(server, st)
               PROVE  IInv'
    OBVIOUS
  <2>1. /\ backend' \in [Server -> {"down", "up", "stuck"}]
        /\ \A s \in Server : backend'[s] = "up" =>
             Forgotten(s) \/ (s = server /\ verb = "fleet_run" /\ st = "rug_pull")
    BY <1>3 DEF NoneRuns
  <2>2. QED BY <1>1, <1>2, <1>4, <2>1, EnvelopeKeeps
<1>6. CASE outcome = "report" /\ IsFleet
  <2>1. Envelope(StatusOf(server))
    BY <1>6 DEF StopServer
  <2>2. StatusOf(server) \in Statuses \ {"none"} /\ Earned(server, StatusOf(server))
    BY <1>2, <1>6 DEF StatusOf, Statuses, Earned
  <2>3. QED BY <1>5, <1>6, <2>1, <2>2
<1>7. CASE outcome = "report" /\ ~ IsFleet
  <2>1. Continue /\ verb = "run" /\ Now # Last(verb)
    BY <1>1, <1>2, <1>7 DEF StopServer, Last
  <2>2. Now' = "write"
    BY <1>1, <1>2, <2>1, ContinueMoves DEF IInv, Typed, ControlInv, Given, Order
  <2>3. VerdictInv'
    BY <1>1, <1>2, <1>7, <2>1, <2>2 DEF IInv, VerdictInv, Given, Continue, Earned, Drifted, Bound, Hashable, Observed
  <2>4. QED BY <1>1, <1>2, <1>3, <1>4, <2>1, <2>2, <2>3, ContinueKeeps DEF NoneRuns
<1>8. CASE outcome = "drift"
  <2>1. Return(3) /\ 3 \in Codes /\ verb = "run" /\ ~ IsFleet /\ n = 1 /\ server = 1
    BY <1>2, <1>8 DEF StopServer, Codes, IInv, ControlInv
  <2>2. Drifted(1)
    BY <1>2, <1>8, <2>1
  <2>3. ExitInv'
    BY <1>1, <2>1, <2>2 DEF Given, Return, ExitInv, ExitCodeIsTheVerdict, Drifted, Bound, Hashable
  <2>4. QED BY <1>1, <1>3, <1>4, <2>1, <2>3, ReturnKeeps
<1>9. CASE outcome = "interrupt"
  <2>1. Raise({"interrupt"}) /\ {"interrupt"} \in SUBSET (Errors \cup {"interrupt"})
    BY <1>9 DEF StopServer
  <2>2. QED BY <1>1, <1>3, <1>4, <2>1, RaiseKeeps
<1>10. CASE outcome \in Errors
  <2>1. Fail({outcome}, "error")
    BY <1>10 DEF StopServer, Errors
  <2>2. CASE IsFleet
    BY <1>5, <2>1, <2>2 DEF Fail, Statuses, Earned
  <2>3. CASE ~ IsFleet
    <3>1. Raise({outcome}) /\ {outcome} \in SUBSET (Errors \cup {"interrupt"})
      BY <1>10, <2>1, <2>3 DEF Fail
    <3>2. QED BY <1>1, <1>3, <1>4, <2>3, <3>1, RaiseKeeps
  <2>4. QED BY <2>2, <2>3
<1>11. QED BY <1>2, <1>6, <1>7, <1>8, <1>9, <1>10

(* The code of a gating verb is earned by the statuses, or by the one      *)
(* server of a single verb.                                                *)
LEMMA CodeIsEarned ==
    ASSUME IInv, Now = "write", Given, UNCHANGED raised, exit' = ReturnCode, status' = status
    PROVE  ReturnCode \in Codes /\ ExitInv'
<1>1. /\ verb \in Verbs /\ raised = "none" /\ n \in Nat /\ 1..n \subseteq Server
      /\ \A s \in Server : Earned(s, status[s]) /\ status[s] \in Statuses
      /\ IsFleet => Filed
      /\ ~ IsFleet => n = 1 /\ server = 1
      /\ verb \in {"run", "verify"} => Bound(server)
  BY ServersOfABatch DEF IInv, Typed, ControlInv, BatchInv, VerdictInv
<1>2. CASE ~ IsFleet
  <2>1. verb \in {"run", "audit", "verify"} /\ n = 1
    BY <1>1, <1>2 DEF Verbs, IsFleet
  <2>2. CASE verb = "run"
    BY <1>1, <1>2, <2>2 DEF ReturnCode, Codes, Given, ExitInv, ExitCodeIsTheVerdict, Judged, Exited, NoCode, Drifted, Bound, Hashable
  <2>3. CASE verb = "audit"
    BY <1>1, <1>2, <2>3 DEF ReturnCode, Codes, Given, ExitInv, ExitCodeIsTheVerdict, Judged, Exited, NoCode, Drifted, Bound, Hashable
  <2>4. CASE verb = "verify"
    BY <1>1, <1>2, <2>4 DEF ReturnCode, Codes, Given, ExitInv, ExitCodeIsTheVerdict, Judged, Exited, NoCode, Drifted, Bound, Hashable
  <2>5. QED BY <2>1, <2>2, <2>3, <2>4
<1>3. CASE IsFleet
  <2> DEFINE seen == {status[s] : s \in 1..n}
  <2>1. \A s \in 1..n :
           /\ status[s] # "none" /\ status[s] \in seen /\ Earned(s, status[s])
           /\ status[s] \in {"ok", "violation", "rug_pull", "skipped", "error"}
    BY <1>1, <1>3 DEF Filed, Statuses
  <2>2. \A st \in seen : \E s \in 1..n : status[s] = st
    OBVIOUS
  <2>3. exit_code = IF "rug_pull" \in seen THEN 2
                    ELSE IF "violation" \in seen THEN 1
                    ELSE IF seen \intersect {"error", "skipped"} # {} THEN 4 ELSE 0
    BY DEF exit_code
  <2>4. CASE verb = "fleet_audit"
    <3>1. "rug_pull" \notin seen /\ "violation" \notin seen
      BY <2>1, <2>2, <2>4 DEF Earned
    <3>2. ReturnCode = exit_code /\ exit_code \in {0, 4}
      BY <2>3, <2>4, <3>1 DEF ReturnCode
    <3>3. QED BY <2>4, <3>2 DEF Given, Codes, ExitInv, ExitCodeIsTheVerdict, Judged
  <2>5. CASE verb \in {"fleet_verify", "fleet_run"} /\ n = 0
    BY <2>5 DEF ReturnCode, Codes, Given, ExitInv, ExitCodeIsTheVerdict
  <2>6. CASE verb \in {"fleet_verify", "fleet_run"} /\ n # 0
    <3>1. ReturnCode = exit_code /\ exit_code \in {0, 1, 2, 4} /\ n > 0
      BY <1>1, <2>3, <2>6 DEF ReturnCode
    <3> HIDE DEF seen
    <3>2. exit_code = 0 => \A s \in 1..n : status[s] = "ok"
      BY <2>1, <2>3
    <3>3. exit_code = 1 => \E s \in 1..n : status[s] = "violation"
      BY <2>2, <2>3
    <3>4. \A s \in 1..n : status[s] = "rug_pull" => exit_code = 2
      BY <2>1, <2>3
    <3>5. \A s \in 1..n : status[s] = "violation" => exit_code \in {1, 2}
      BY <2>1, <2>3
    <3>6. \A s \in 1..n : Examined(s) => status[s] \in {"ok", "violation", "rug_pull"}
      BY <1>3, <2>1 DEF Examined
    <3>7. ExitCodeIsTheVerdict'
      <4>1. exit' = 0 => \A s \in 1..n :
               /\ Bound(s) /\ truth[s].behaviour # "outside"
               /\ verb = "fleet_verify" => Observed(s)
        BY <2>1, <2>6, <3>1, <3>2 DEF Earned
      <4>2. exit' = 1 => \E s \in 1..n : truth[s].behaviour = "outside" /\ Bound(s)
        BY <2>1, <3>1, <3>3 DEF Earned
      <4>3. \A s \in 1..n : Examined(s) /\ Drifted(s) => exit' = 2
        BY <2>1, <2>6, <3>1, <3>4, <3>6 DEF Earned, Bound
      <4>4. \A s \in 1..n : Examined(s) /\ truth[s].behaviour = "outside" /\ Bound(s)
               => exit' \in {1, 2}
        BY <2>1, <2>6, <3>1, <3>4, <3>5, <3>6 DEF Earned
      <4>5. /\ \A s : Drifted(s)' <=> Drifted(s)
            /\ \A s : Bound(s)' <=> Bound(s)
            /\ \A s : Examined(s)' <=> Examined(s)
        BY DEF Drifted, Bound, Hashable, Examined, IsFleet, Given
      <4>6. QED BY <2>6, <3>1, <4>1, <4>2, <4>3, <4>4, <4>5
                 DEF ExitCodeIsTheVerdict, Given, Observed
    <3>8. QED BY <2>6, <3>1, <3>7 DEF ExitInv, Codes, Given
  <2>7. QED BY <1>1, <1>3, <2>4, <2>5, <2>6 DEF Verbs, IsFleet
<1>4. QED BY <1>2, <1>3

LEMMA WriteInv == IInv /\ Write => IInv'
<1> SUFFICES ASSUME IInv, Write PROVE IInv'
  OBVIOUS
<1>1. Now = "write" /\ Given /\ UNCHANGED <<outcome, backend>>
  BY AtIsNow DEF Write
<1>2. NoneRuns /\ OutcomeTyped
  BY <1>1, NotRunning, OutcomeKept
<1>3. CASE Raise({"FileNotFoundError", "other"})
  <2>1. {"FileNotFoundError", "other"} \in SUBSET (Errors \cup {"interrupt"})
    BY DEF Errors
  <2>2. QED BY <1>1, <1>2, <1>3, <2>1, RaiseKeeps
<1>4. CASE Return(ReturnCode)
  <2>1. exit' = ReturnCode /\ UNCHANGED <<raised, status>>
    BY <1>4 DEF Return
  <2>2. ReturnCode \in Codes /\ ExitInv'
    BY <1>1, <2>1, CodeIsEarned
  <2>3. IsFleet => Filed
    BY <1>1 DEF IInv, BatchInv
  <2>4. QED BY <1>1, <1>2, <1>4, <2>2, <2>3, ReturnKeeps
<1>5. QED BY <1>3, <1>4 DEF Write

LEMMA MainInv == IInv /\ Main => IInv'
<1> SUFFICES ASSUME IInv, Main PROVE IInv'
  OBVIOUS
<1>1. Now = "main" /\ raised # "none" /\ Given /\ UNCHANGED <<outcome, backend>>
  BY AtIsNow DEF Main, IInv, ControlInv
<1>2. NoneRuns /\ OutcomeTyped
  BY <1>1, NotRunning, OutcomeKept
<1>3. PICK code \in {1, 4, 130} : Return(code)
  BY DEF Main
<1>4. ExitInv'
  BY <1>1, <1>3 DEF Return, ExitInv, ExitCodeIsTheVerdict, Judged
<1>5. QED BY <1>1, <1>2, <1>3, <1>4, ReturnKeeps DEF Codes

-----------------------------------------------------------------------------
(* The results.                                                            *)

LEMMA NextInv == IInv /\ [Next]_vars => IInv'
<1> SUFFICES ASSUME IInv, [Next]_vars PROVE IInv'
  OBVIOUS
<1>1. CASE Next
  BY <1>1, ConfigureInv, CheckEnvInv, LoadContractInv, GateInv, LoadEventsInv,
     RefuseEmptyInv, ClassifyInv, ToServerSpecInv, GetAdapterInv, StartServerInv,
     CreateMonitorInv, ObserveInv, StopServerInv, WriteInv, MainInv DEF Next
<1>2. CASE UNCHANGED vars
  <2>1. Typed' /\ ControlInv'
    BY <1>2 DEF IInv, Typed, ControlInv, Place, Now, Working, IsFleet, vars
  <2>2. BatchInv' /\ BackendInv' /\ VerdictInv'
    BY <1>2 DEF IInv, BatchInv, Aborted, BackendInv, VerdictInv, Filed, Now, Working, IsFleet, Forgotten, Hashable,
       Earned, Observed, Drifted, Bound, vars
  <2>3. ExitInv'
    BY <1>2 DEF IInv, ExitInv, ExitCodeIsTheVerdict, Judged, Exited, Examined, Drifted, Bound, Hashable, IsFleet, vars
  <2>4. QED BY <2>1, <2>2, <2>3 DEF IInv
<1>3. QED BY <1>1, <1>2

LEMMA Invariance == Spec => []IInv
  BY InitInv, NextInv, PTL DEF Spec

(* Every variable keeps its type, 3 is a code of `run` alone, and an audit *)
(* never ends with the code of a rug pull.                                 *)
THEOREM TypeCorrect == Spec => []TypeOK
<1>1. IInv => TypeOK
  BY DEF IInv, Typed, ExitInv, TypeOK, Codes
<1>2. QED BY <1>1, Invariance, PTL

(* However many servers a fleet has, and whatever fails with each of them, *)
(* the exit code of a gating verb is the verdict on what they really did.  *)
(* (FleetReport.exit_code, _cmd_run, _cmd_verify)                          *)
THEOREM TheVerdictIsTheExitCode == Spec => []ExitCodeIsTheVerdict
<1>1. IInv => ExitCodeIsTheVerdict
  BY DEF IInv, ExitInv
<1>2. QED BY <1>1, Invariance, PTL

(* A server that fails never keeps its siblings from being looked at.      *)
(* (Fleet.audit_all, Fleet.verify_all, Fleet.run_all)                      *)
THEOREM TheBatchGoesOn == Spec => []OneServerNeverAbortsTheBatch
<1>1. IInv => OneServerNeverAbortsTheBatch
  <2> SUFFICES ASSUME IInv, IsFleet PROVE OneServerNeverAbortsTheBatch
    BY DEF OneServerNeverAbortsTheBatch
  <2>1. Exited /\ raised = "none" => Filed
    BY DEF IInv, ControlInv, BatchInv, Exited
  <2>2. raised \notin {"none", "interrupt"} => Filed \/ Aborted
    BY DEF IInv, Typed, BatchInv
  <2>3. QED BY <2>1, <2>2 DEF OneServerNeverAbortsTheBatch, Filed, Aborted
<1>2. QED BY <1>1, Invariance, PTL

(* A server that was started is stopped before the next one is looked at   *)
(* and before the command exits, save for the one _run_one forgets.        *)
(* (the finally clauses of _cmd_run and Fleet._run_one)                    *)
THEOREM ServersAreStopped == Spec => []NoServerOutlivesTheCommand
<1>1. IInv => NoServerOutlivesTheCommand
  <2> SUFFICES ASSUME IInv, NEW s \in Server, backend[s] = "up", Exited \/ s < server
               PROVE  Forgotten(s)
    BY DEF NoServerOutlivesTheCommand, Forgotten
  <2>1. CASE Exited
    BY <2>1 DEF IInv, ControlInv, BackendInv, Exited
  <2>2. CASE s < server
    BY <2>2 DEF IInv, Typed, BackendInv, Server
  <2>3. QED BY <2>1, <2>2
<1>2. QED BY <1>1, Invariance, PTL
=============================================================================

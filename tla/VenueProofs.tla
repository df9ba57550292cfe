----------------------------- MODULE VenueProofs -----------------------------
(* The services, pages and screens that Handlers models, and the rules they  *)
(* answer by.                                                                *)
(*                                                                           *)
(* Handlers, for any subjects of the shapes SubjectAssumption names, any     *)
(* rows, any number of requests and any number of failures and restarts.     *)
(* None of the properties is inductive by itself: a program acts in several  *)
(* steps, with other requests, failures and restarts in between.  Each proof *)
(* adds what a request in the middle of its program owes to the past:        *)
(*   RecordedSoFar   it has written what it has passed (announcements);      *)
(*   OnceInv         what it claims has a row, and no one else has passed    *)
(*                   the same INSERT since the key last expired;             *)
(*   EvacuationInv   only what is announced is remembered (evacuations);     *)
(*   FlowInv         rows and what was read of them are of the life cycle;   *)
(*   ShownInv        at most one load of a page is on its way, and what it   *)
(*                   has read lies between what is shown and the row.        *)
(*                                                                           *)
(* Routes, for any venue graph, any red zones and whichever of several       *)
(* nearest nodes is settled first: SearchInv is the invariant of Dijkstra's  *)
(* loop, and BackInv that of the walk back from the destination.             *)
(*                                                                           *)
(* Rules, for every input: alert flooding, priorities, waits, surge prices,  *)
(* fire limits, BLE advertisements, staff plans, simulated crowds and the    *)
(* registry of models.                                                       *)
EXTENDS Venue, FiniteSetTheorems, SequenceTheorems, WellFoundedInduction, TLAPS

\* A request that is well formed.
Call == [st: {"idle", "running", "ok", "over"}, route: DOMAIN Me.routes \union {""},
         item: Items, pc: Nat, seen: [Items -> Values]]
GoodCall ==
    {x \in Call : x.st = "running" =>
        x.route \in DOMAIN Me.routes /\ x.pc \in DOMAIN Me.routes[x.route]}

Sure == {"create", "insert", "upsert", "log"}

\* A request that runs has recorded what it has passed.
RecordedSoFar ==
    \A c \in Calls : Running(c) =>
        \A j \in 1..(calls[c].pc - 1) :
            Program(c)[j].op \in Sure /\ Program(c)[j].fails # "ignore"
                => <<Item(c), Program(c)[j].to>> \in recorded

IInv == TypeOK /\ RecordedSoFar /\ AnnouncedIsRecorded

-----------------------------------------------------------------------------
(* Types.                                                                    *)

LEMMA OpenedType == Opened \in Items
BY BoundsAssumption DEF Opened

LEMMA NoneType == None \in Values /\ Blank \in [Items -> Values]
BY DEF Values, Blank

LEMMA CallsType == TypeOK => calls \in [Calls -> GoodCall]
<1> SUFFICES ASSUME TypeOK PROVE calls \in [Calls -> GoodCall]
  OBVIOUS
<1>1. calls \in [Calls -> Call]
  BY DEF TypeOK, Call
<1>2. ASSUME NEW c \in Calls PROVE calls[c] \in GoodCall
  <2>1. calls[c] \in Call
    BY <1>1
  <2>2. calls[c].st = "running" =>
            calls[c].route \in DOMAIN Me.routes /\ calls[c].pc \in DOMAIN Me.routes[calls[c].route]
    BY DEF TypeOK, Running, Program
  <2> QED BY <2>1, <2>2 DEF GoodCall
<1> QED BY <1>1, <1>2

\* What a request that runs is about to do.
LEMMA ProgramType ==
    ASSUME TypeOK, NEW c \in Calls, Running(c)
    PROVE  /\ Program(c) \in Seq(Statement) /\ RecordsFirst(Program(c))
           /\ calls[c].pc \in 1..Len(Program(c))
           /\ Current(c) \in Statement
           /\ Item(c) \in Items /\ calls[c] \in GoodCall
<1>1. subject \in DOMAIN Subject /\ calls[c].route \in DOMAIN Me.routes /\ calls[c].pc \in DOMAIN Program(c)
  BY DEF TypeOK
<1>2. Program(c) \in Seq(Statement) /\ RecordsFirst(Program(c))
  BY <1>1, SubjectAssumption DEF SubjectType, Me, Program
<1>3. calls[c] \in GoodCall /\ Item(c) \in Items
  BY CallsType DEF GoodCall, Call, Item
<1>4. calls[c].pc \in 1..Len(Program(c)) /\ Current(c) \in Statement
  BY <1>1, <1>2 DEF Current
<1> QED BY <1>2, <1>3, <1>4

LEMMA StatementType ==
    ASSUME NEW s \in Statement
    PROVE  s.to \in Values /\ s.keeps \in Values /\ s.only \in BOOLEAN /\ s.op \in Operations
BY DEF Statement

LEMMA EffectType ==
    ASSUME TypeOK, NEW c \in Calls, Running(c)
    PROVE  /\ RowsAfter(c) \in [Items -> Values]
           /\ RecordedAfter(c) \subseteq Items \X Values
           /\ SentAfter(c) \in Seq(Items \X Values)
<1>1. /\ Current(c).to \in Values /\ Item(c) \in Items
      /\ rows \in [Items -> Values] /\ sent \in Seq(Items \X Values) /\ recorded \subseteq Items \X Values
  BY ProgramType, StatementType DEF TypeOK
<1>2. [rows EXCEPT ![Item(c)] = Current(c).to] \in [Items -> Values]
  BY <1>1
<1>3. RowsAfter(c) \in [Items -> Values]
  BY <1>1, <1>2 DEF RowsAfter
<1>4. <<Item(c), Current(c).to>> \in Items \X Values
  BY <1>1
<1> QED BY <1>1, <1>3, <1>4 DEF RecordedAfter, SentAfter

LEMMA MemoryType ==
    ASSUME TypeOK, NEW c \in Calls, Running(c)
    PROVE  MemoryAfter(c) \in [Items -> Values]
<1>1. /\ Current(c).keeps \in Values /\ Item(c) \in Items
      /\ memory \in [Items -> Values] /\ calls[c].seen \in [Items -> Values]
  BY ProgramType, StatementType DEF TypeOK, GoodCall, Call
<1>2. /\ [memory EXCEPT ![Item(c)] = calls[c].seen[Item(c)]] \in [Items -> Values]
      /\ [Blank EXCEPT ![Item(c)] = Current(c).keeps] \in [Items -> Values]
      /\ [memory EXCEPT ![Item(c)] = Current(c).keeps] \in [Items -> Values]
      /\ [memory EXCEPT ![Item(c)] = None] \in [Items -> Values]
  BY <1>1, NoneType
<1> QED BY <1>1, <1>2 DEF MemoryAfter

LEMMA OverType ==
    ASSUME TypeOK, NEW c \in Calls
    PROVE  /\ GivenUp(c) \in GoodCall /\ GivenUp(c).st # "running"
           /\ Running(c) => Done(c) \in GoodCall /\ Done(c).st # "running"
<1>1. Idle \in GoodCall /\ Idle.st # "running"
  BY OpenedType, NoneType DEF Idle, GoodCall, Call
<1>2. [Idle EXCEPT !.st = "over"] \in GoodCall /\ [Idle EXCEPT !.st = "over"].st # "running"
  BY OpenedType, NoneType DEF Idle, GoodCall, Call
<1>3. ASSUME Running(c)
      PROVE  LET d == [calls[c] EXCEPT !.st = "ok", !.pc = 0, !.seen = Blank]
             IN  d \in GoodCall /\ d.st # "running"
  BY <1>3, CallsType, NoneType DEF GoodCall, Call
<1> QED BY <1>1, <1>2, <1>3 DEF GivenUp, Done

\* The next state of a request that goes on.
LEMMA AdvancedType ==
    ASSUME TypeOK, NEW c \in Calls, Running(c)
    PROVE  /\ Advanced(c) \in GoodCall
           /\ Advanced(c).st = "running" =>
                  /\ Advanced(c).pc = calls[c].pc + 1
                  /\ Advanced(c).route = calls[c].route /\ Advanced(c).item = calls[c].item
<1>1. /\ calls[c] \in GoodCall /\ Item(c) \in Items /\ calls[c].st = "running"
      /\ Program(c) \in Seq(Statement) /\ calls[c].pc \in 1..Len(Program(c))
  BY ProgramType DEF Running
<1>2. CASE calls[c].pc = Len(Program(c))
  BY <1>2, OverType DEF Advanced
<1>3. CASE calls[c].pc # Len(Program(c))
  <2> DEFINE n == [calls[c] EXCEPT !.pc = calls[c].pc + 1, !.seen = SeenAfter(c)]
  <2>1. Advanced(c) = n
    BY <1>1, <1>3 DEF Advanced, GoodCall, Call
  <2>2. rows[Item(c)] \in Values /\ rows \in [Items -> Values]
    BY <1>1 DEF TypeOK
  <2>3. [Blank EXCEPT ![Item(c)] = rows[Item(c)]] \in [Items -> Values]
    BY <2>2, NoneType
  <2>4. SeenAfter(c) \in [Items -> Values]
    BY <1>1, <2>2, <2>3 DEF SeenAfter, GoodCall, Call
  <2>5. calls[c] \in Call /\ calls[c].pc \in Nat
    BY <1>1 DEF GoodCall, Call
  <2>6. ASSUME NEW p \in Nat
        PROVE  LET d == [calls[c] EXCEPT !.pc = p, !.seen = SeenAfter(c)]
               IN  d \in Call /\ d.pc = p /\ d.route = calls[c].route /\ d.item = calls[c].item
    BY <2>4, <2>5 DEF Call
  <2>7. calls[c].pc + 1 \in Nat
    BY <2>5
  <2>8. n \in Call /\ n.pc = calls[c].pc + 1 /\ n.route = calls[c].route /\ n.item = calls[c].item
    BY <2>6, <2>7
  <2>9. calls[c].pc + 1 \in DOMAIN Me.routes[calls[c].route] /\ calls[c].route \in DOMAIN Me.routes
    BY <1>1, <1>3 DEF Program, GoodCall
  <2> QED BY <2>1, <2>8, <2>9 DEF GoodCall
<1> QED BY <1>2, <1>3

-----------------------------------------------------------------------------
(* The parts of a step.                                                      *)

LEMMA TypeFromParts ==
    ASSUME TypeOK, subject' = subject,
           rows' \in [Items -> Values], memory' \in [Items -> Values],
           sent' \in Seq(Items \X Values), recorded' \subseteq Items \X Values,
           calls' \in [Calls -> GoodCall], renewed' \in [Items -> Nat],
           polling' \in BOOLEAN, faults' \in 0..MaxFaults
    PROVE  TypeOK'
<1>1. Me' = Me /\ subject' \in DOMAIN Subject
  BY DEF Me, TypeOK
<1>2. calls' \in [Calls -> Call]
  BY DEF GoodCall
<1>3. \A c \in Calls : calls'[c].st = "running" =>
          calls'[c].route \in DOMAIN Me.routes /\ calls'[c].pc \in DOMAIN Me.routes[calls'[c].route]
  BY DEF GoodCall
<1> QED BY <1>1, <1>2, <1>3 DEF TypeOK, Call, Running, Program

\* The operation of a request that runs takes effect, or does not.
LEMMA EffectKeepsTypes ==
    ASSUME TypeOK, NEW c \in Calls, Running(c), Effect(c) \/ NoEffect
    PROVE  /\ rows' \in [Items -> Values] /\ recorded' \subseteq Items \X Values
           /\ sent' \in Seq(Items \X Values) /\ recorded \subseteq recorded'
<1>1. CASE Effect(c)
  <2>1. recorded \subseteq RecordedAfter(c)
    BY DEF RecordedAfter
  <2> QED BY <1>1, <2>1, EffectType DEF Effect
<1>2. CASE NoEffect
  <2>1. rows' = rows /\ recorded' = recorded /\ sent' = sent
    BY <1>2 DEF NoEffect
  <2> QED BY <2>1 DEF TypeOK
<1> QED BY <1>1, <1>2

\* What a statement whose failure is not ignored writes is recorded once it has
\* taken effect.
LEMMA SureIsRecorded ==
    ASSUME TypeOK, NEW c \in Calls, Running(c), Effect(c), Current(c).op \in Sure
    PROVE  <<Item(c), Current(c).to>> \in recorded'
<1>1. CASE Current(c).op = "log"
  BY <1>1 DEF Effect, RecordedAfter
<1>2. CASE Current(c).op \in {"create", "insert", "upsert"}
  <2>1. RowsAfter(c) = [rows EXCEPT ![Item(c)] = Current(c).to]
    BY <1>2 DEF RowsAfter
  <2>2. RowsAfter(c)[Item(c)] = Current(c).to
    BY <2>1, ProgramType DEF TypeOK
  <2>3. Current(c).op \in Writes
    BY <1>2 DEF Writes, RowWrites
  <2> QED BY <2>2, <2>3 DEF Effect, RecordedAfter
<1> QED BY <1>1, <1>2 DEF Sure

\* A request stays where it is, begins, ends, or goes on to the next statement
\* with what it was sure to write recorded.
LEMMA GoingOnKeepsRecorded ==
    ASSUME TypeOK, RecordedSoFar, subject' = subject, recorded \subseteq recorded',
           \A d \in Calls : calls'[d].st = "running" =>
               \/ calls'[d] = calls[d]
               \/ calls'[d].pc = 1
               \/ /\ Running(d)
                  /\ calls'[d].pc = calls[d].pc + 1
                  /\ calls'[d].route = calls[d].route /\ calls'[d].item = calls[d].item
                  /\ Current(d).op \in Sure /\ Current(d).fails # "ignore"
                         => <<Item(d), Current(d).to>> \in recorded'
    PROVE  RecordedSoFar'
<1> SUFFICES ASSUME NEW d \in Calls, calls'[d].st = "running", NEW j \in 1..(calls'[d].pc - 1),
                    (Program(d)')[j].op \in Sure, (Program(d)')[j].fails # "ignore"
             PROVE  <<calls'[d].item, (Program(d)')[j].to>> \in recorded'
  BY DEF RecordedSoFar, Running, Item
<1>1. Me' = Me
  BY DEF Me
<1>2. CASE calls'[d] = calls[d]
  <2>1. Program(d)' = Program(d) /\ Running(d) /\ calls'[d].item = Item(d) /\ j \in 1..(calls[d].pc - 1)
    BY <1>1, <1>2 DEF Program, Running, Item
  <2> QED BY <2>1 DEF RecordedSoFar
<1>3. CASE calls'[d].pc = 1
  BY <1>3
<1>4. CASE /\ Running(d)
           /\ calls'[d].pc = calls[d].pc + 1
           /\ calls'[d].route = calls[d].route /\ calls'[d].item = calls[d].item
           /\ Current(d).op \in Sure /\ Current(d).fails # "ignore"
                  => <<Item(d), Current(d).to>> \in recorded'
  <2>1. Program(d)' = Program(d) /\ calls'[d].item = Item(d) /\ calls[d].pc \in Nat
    BY <1>1, <1>4, ProgramType DEF Program, Item
  <2>2. j \in 1..(calls[d].pc - 1) \/ j = calls[d].pc
    BY <1>4, <2>1
  <2>3. CASE j \in 1..(calls[d].pc - 1)
    BY <1>4, <2>1, <2>3 DEF RecordedSoFar
  <2>4. CASE j = calls[d].pc
    BY <1>4, <2>1, <2>4 DEF Current
  <2> QED BY <2>2, <2>3, <2>4
<1> QED BY <1>2, <1>3, <1>4

\* An operation announces only what its request has recorded.
LEMMA EffectKeepsAnnounced ==
    ASSUME IInv, NEW c \in Calls, Running(c), Effect(c) \/ NoEffect
    PROVE  AnnouncedIsRecorded'
<1>1. recorded \subseteq recorded' /\ sent \in Seq(Items \X Values)
  BY EffectKeepsTypes DEF IInv, TypeOK
<1>2. CASE sent' = sent
  BY <1>1, <1>2 DEF IInv, AnnouncedIsRecorded
<1>3. CASE sent' = Append(sent, <<Item(c), Current(c).to>>) /\ Current(c).op = "publish"
  <2>1. /\ RecordsFirst(Program(c)) /\ calls[c].pc \in 1..Len(Program(c))
        /\ Program(c) \in Seq(Statement) /\ Current(c) = Program(c)[calls[c].pc]
    BY ProgramType DEF IInv, Current
  <2>2. PICK j \in 1..(calls[c].pc - 1) :
            /\ Program(c)[j].op \in Sure /\ Program(c)[j].fails # "ignore"
            /\ Program(c)[j].to = Current(c).to
    BY <1>3, <2>1 DEF RecordsFirst, Sure
  <2>3. <<Item(c), Current(c).to>> \in recorded
    BY <2>2 DEF IInv, RecordedSoFar
  <2> QED BY <1>1, <1>3, <2>3 DEF IInv, AnnouncedIsRecorded
<1>4. sent' = sent \/ (sent' = Append(sent, <<Item(c), Current(c).to>>) /\ Current(c).op = "publish")
  BY DEF Effect, NoEffect, SentAfter
<1> QED BY <1>2, <1>3, <1>4

-----------------------------------------------------------------------------
(* The actions.                                                              *)

LEMMA InitHolds == Init => IInv
<1> SUFFICES ASSUME Init PROVE IInv
  OBVIOUS
<1>1. /\ subject \in DOMAIN Subject
      /\ \A e \in Subject[subject].flow : e[1] \in Values
  BY SubjectAssumption DEF Init, SubjectType
<1>2. {e[1] : e \in Subject[subject].flow} \union {None} \subseteq Values
  BY <1>1, NoneType
<1>3. rows \in [Items -> Values]
  BY <1>2 DEF Init
<1>4. calls \in [Calls -> Call] /\ \A c \in Calls : calls[c].st # "running"
  BY OpenedType, NoneType DEF Init, Idle, Call
<1>5. faults \in 0..MaxFaults /\ sent \in Seq(Items \X Values) /\ recorded \subseteq Items \X Values
  BY BoundsAssumption DEF Init
<1>6. TypeOK
  BY <1>1, <1>3, <1>4, <1>5, NoneType DEF Init, TypeOK, Call, Running
<1>7. RecordedSoFar /\ AnnouncedIsRecorded
  BY <1>4 DEF Init, RecordedSoFar, AnnouncedIsRecorded, Running
<1> QED BY <1>6, <1>7 DEF IInv

LEMMA BeginKeeps ==
    ASSUME IInv, NEW c \in Calls, NEW i \in Items, NEW r \in DOMAIN Me.routes, Begin(c, r, i)
    PROVE  IInv'
<1> USE DEF IInv
<1> DEFINE new == [st |-> "running", route |-> r, item |-> i, pc |-> 1, seen |-> Blank]
<1>1. /\ subject' = subject /\ rows' = rows /\ memory' = memory /\ sent' = sent
      /\ recorded' = recorded /\ polling' = polling /\ faults' = faults
      /\ calls' = [calls EXCEPT ![c] = new] /\ renewed' = renewed
  BY DEF Begin
<1>2. Me.routes[r] \in Seq(Statement) /\ Me.routes[r] # <<>>
  BY SubjectAssumption DEF TypeOK, SubjectType, Me
<1>3. new \in GoodCall /\ new.pc = 1
  <2>1. 1 \in DOMAIN Me.routes[r]
    BY <1>2
  <2>2. new \in Call
    BY NoneType DEF Call
  <2> QED BY <2>1, <2>2 DEF GoodCall
<1>4. calls' \in [Calls -> GoodCall]
  BY <1>1, <1>3, CallsType
<1>5. TypeOK'
  BY <1>1, <1>4, TypeFromParts DEF TypeOK
<1>6. \A d \in Calls : calls'[d] = calls[d] \/ calls'[d].pc = 1
  BY <1>1, <1>3 DEF TypeOK
<1>7. RecordedSoFar'
  BY <1>1, <1>6, GoingOnKeepsRecorded
<1>8. AnnouncedIsRecorded'
  BY <1>1 DEF AnnouncedIsRecorded
<1> QED BY <1>5, <1>7, <1>8

LEMMA PerformKeeps ==
    ASSUME IInv, NEW c \in Calls, Perform(c)
    PROVE  IInv'
<1> USE DEF IInv
<1>1. /\ Running(c) /\ Effect(c) /\ subject' = subject /\ memory' = MemoryAfter(c)
      /\ renewed' = renewed /\ faults' = faults
  BY DEF Perform
<1>2. calls' = [d \in Calls |->
                  IF d = c THEN Advanced(c)
                  ELSE IF Current(c).op = "abort" /\ Loading(d) THEN GivenUp(d)
                  ELSE calls[d]]
  BY DEF Perform
<1>3. polling' \in BOOLEAN
  BY DEF Perform
<1>4. \A d \in Calls : GivenUp(d) \in GoodCall /\ GivenUp(d).st # "running" /\ calls[d] \in GoodCall
  BY OverType, CallsType
<1>5. calls' \in [Calls -> GoodCall]
  BY <1>1, <1>2, <1>4, AdvancedType
<1>6. TypeOK'
  BY <1>1, <1>3, <1>5, EffectKeepsTypes, MemoryType, TypeFromParts DEF TypeOK
<1>7. Current(c).op \in Sure => <<Item(c), Current(c).to>> \in recorded'
  BY <1>1, SureIsRecorded
<1>8. RecordedSoFar'
  <2>1. ASSUME NEW d \in Calls, calls'[d].st = "running"
        PROVE  calls'[d] = calls[d] \/ (d = c /\ calls'[d] = Advanced(c))
    BY <1>2, <1>4, <2>1
  <2> QED BY <1>1, <1>7, <2>1, AdvancedType, EffectKeepsTypes, GoingOnKeepsRecorded
<1>9. AnnouncedIsRecorded'
  BY <1>1, EffectKeepsAnnounced
<1> QED BY <1>6, <1>8, <1>9

\* An operation that fails: some requests are over, one may go on.
LEMMA FailingKeeps ==
    ASSUME IInv, NEW c \in Calls, Running(c), Effect(c) \/ NoEffect,
           subject' = subject, renewed' = renewed, polling' = polling, faults' \in 0..MaxFaults,
           memory' \in [Items -> Values], calls' \in [Calls -> GoodCall],
           \A d \in Calls : calls'[d].st = "running" =>
               \/ calls'[d] = calls[d]
               \/ d = c /\ Current(c).fails = "ignore" /\ calls'[d] = Advanced(c)
    PROVE  IInv'
<1>1. TypeOK'
  BY EffectKeepsTypes, TypeFromParts DEF IInv, TypeOK
<1>2. RecordedSoFar'
  BY AdvancedType, EffectKeepsTypes, GoingOnKeepsRecorded DEF IInv
<1>3. AnnouncedIsRecorded'
  BY EffectKeepsAnnounced
<1> QED BY <1>1, <1>2, <1>3 DEF IInv

\* One request is given up.
LEMMA GivenUpAlone ==
    ASSUME TypeOK, NEW c \in Calls, calls' = [calls EXCEPT ![c] = GivenUp(c)]
    PROVE  /\ calls' \in [Calls -> GoodCall]
           /\ \A d \in Calls : calls'[d].st = "running" => calls'[d] = calls[d]
<1>1. GivenUp(c) \in GoodCall /\ GivenUp(c).st # "running"
  BY OverType
<1> QED BY <1>1, CallsType

LEMMA RefuseKeeps ==
    ASSUME IInv, NEW c \in Calls, Refuse(c)
    PROVE  IInv'
<1>1. /\ Running(c) /\ NoEffect /\ calls' = [calls EXCEPT ![c] = GivenUp(c)]
      /\ subject' = subject /\ memory' = memory /\ polling' = polling /\ faults' = faults
      /\ renewed' = renewed
  BY DEF Refuse
<1> QED BY <1>1, GivenUpAlone, FailingKeeps DEF IInv, TypeOK

LEMMA OneMoreFault ==
    ASSUME TypeOK, faults < MaxFaults, faults' = faults + 1
    PROVE  faults' \in 0..MaxFaults
<1>1. faults \in 0..MaxFaults
  BY DEF TypeOK
<1> QED BY <1>1, BoundsAssumption

LEMMA FailsFacts ==
    ASSUME IInv, NEW c \in Calls, Fails(c)
    PROVE  /\ Running(c) /\ (Effect(c) \/ NoEffect) /\ faults' \in 0..MaxFaults
           /\ subject' = subject /\ renewed' = renewed /\ polling' = polling
<1>1. faults' \in 0..MaxFaults
  BY OneMoreFault DEF Fails, IInv
<1>2. /\ Running(c) /\ (Effect(c) \/ NoEffect)
      /\ subject' = subject /\ renewed' = renewed /\ polling' = polling
  BY DEF Fails
<1> QED BY <1>1, <1>2

LEMMA FailsCaughtKeeps ==
    ASSUME IInv, NEW c \in Calls, FailsCaught(c)
    PROVE  IInv'
<1>1. Fails(c) /\ calls' = [calls EXCEPT ![c] = GivenUp(c)] /\ memory' = MemoryAfter(c)
  BY DEF FailsCaught
<1> QED BY <1>1, FailsFacts, GivenUpAlone, MemoryType, FailingKeeps DEF IInv

LEMMA FailsIgnoredKeeps ==
    ASSUME IInv, NEW c \in Calls, FailsIgnored(c)
    PROVE  IInv'
<1>1. /\ Fails(c) /\ Current(c).fails = "ignore"
      /\ calls' = [calls EXCEPT ![c] = Advanced(c)] /\ memory' = MemoryAfter(c)
  BY DEF FailsIgnored
<1>2. calls' \in [Calls -> GoodCall]
  BY <1>1, FailsFacts, CallsType, AdvancedType DEF IInv
<1>3. \A d \in Calls : calls'[d] = calls[d] \/ (d = c /\ calls'[d] = Advanced(c))
  BY <1>1 DEF IInv, TypeOK
<1> QED BY <1>1, <1>2, <1>3, FailsFacts, MemoryType, FailingKeeps DEF IInv

LEMMA DownFacts ==
    ASSUME TypeOK, Down
    PROVE  /\ calls' \in [Calls -> GoodCall] /\ memory' \in [Items -> Values]
           /\ \A d \in Calls : calls'[d].st = "running" => calls'[d] = calls[d]
<1>1. \A d \in Calls : GivenUp(d) \in GoodCall /\ GivenUp(d).st # "running" /\ calls[d] \in GoodCall
  BY OverType, CallsType
<1>2. calls' = [d \in Calls |-> IF Running(d) THEN GivenUp(d) ELSE calls[d]]
  BY DEF Down
<1>3. memory' \in [Items -> Values]
  BY NoneType DEF Down, TypeOK
<1> QED BY <1>1, <1>2, <1>3

LEMMA FailsUncaughtKeeps ==
    ASSUME IInv, NEW c \in Calls, FailsUncaught(c)
    PROVE  IInv'
<1>1. Fails(c) /\ Down
  BY DEF FailsUncaught
<1> QED BY <1>1, FailsFacts, DownFacts, FailingKeeps DEF IInv

LEMMA RestartKeeps ==
    ASSUME IInv, Restart
    PROVE  IInv'
<1> USE DEF IInv
<1>1. /\ subject' = subject /\ polling' = polling /\ faults' = faults + 1 /\ faults < MaxFaults
      /\ rows' = rows /\ recorded' = recorded /\ sent' = sent /\ renewed' = renewed /\ Down
  BY DEF Restart, NoEffect
<1>2. faults' \in 0..MaxFaults
  BY <1>1, OneMoreFault
<1>3. TypeOK'
  BY <1>1, <1>2, DownFacts, TypeFromParts DEF TypeOK
<1>4. RecordedSoFar'
  BY <1>1, DownFacts, GoingOnKeepsRecorded
<1>5. AnnouncedIsRecorded'
  BY <1>1 DEF AnnouncedIsRecorded
<1> QED BY <1>3, <1>4, <1>5

LEMMA ExpireKeeps ==
    ASSUME IInv, NEW i \in Items, Expire(i)
    PROVE  IInv'
<1> USE DEF IInv
<1>1. /\ subject' = subject /\ memory' = memory /\ sent' = sent /\ recorded' = recorded
      /\ polling' = polling /\ faults' = faults
      /\ rows' = [rows EXCEPT ![i] = None] /\ renewed' = [renewed EXCEPT ![i] = Len(sent)]
      /\ calls' = [c \in Calls |-> IF Claims(c) /\ Item(c) = i THEN GivenUp(c) ELSE calls[c]]
  BY DEF Expire
<1>2. \A c \in Calls : GivenUp(c) \in GoodCall /\ GivenUp(c).st # "running" /\ calls[c] \in GoodCall
  BY OverType, CallsType
<1>3. calls' \in [Calls -> GoodCall] /\ \A c \in Calls : calls'[c].st = "running" => calls'[c] = calls[c]
  BY <1>1, <1>2
<1>4. rows' \in [Items -> Values] /\ renewed' \in [Items -> Nat]
  <2>1. rows \in [Items -> Values] /\ renewed \in [Items -> Nat] /\ sent \in Seq(Items \X Values)
    BY DEF TypeOK
  <2>2. Len(sent) \in Nat
    BY <2>1
  <2> QED BY <1>1, <2>1, <2>2, NoneType
<1>5. TypeOK'
  BY <1>1, <1>3, <1>4, TypeFromParts DEF TypeOK
<1>6. RecordedSoFar'
  BY <1>1, <1>3, GoingOnKeepsRecorded
<1>7. AnnouncedIsRecorded'
  BY <1>1 DEF AnnouncedIsRecorded
<1> QED BY <1>5, <1>6, <1>7

LEMMA StepKeeps ==
    ASSUME IInv, [Next]_vars
    PROVE  IInv'
<1>1. ASSUME NEW c \in Calls, NEW i \in Items, NEW r \in DOMAIN Me.routes, Begin(c, r, i)
      PROVE  IInv'
  BY <1>1, BeginKeeps
<1>2. ASSUME NEW c \in Calls, Step(c)
      PROVE  IInv'
  <2>1. CASE Perform(c)
    BY <2>1, PerformKeeps
  <2>2. CASE Refuse(c)
    BY <2>2, RefuseKeeps
  <2>3. CASE FailsCaught(c)
    BY <2>3, FailsCaughtKeeps
  <2>4. CASE FailsIgnored(c)
    BY <2>4, FailsIgnoredKeeps
  <2>5. CASE FailsUncaught(c)
    BY <2>5, FailsUncaughtKeeps
  <2> QED BY <1>2, <2>1, <2>2, <2>3, <2>4, <2>5 DEF Step
<1>3. CASE Restart
  BY <1>3, RestartKeeps
<1>4. ASSUME NEW i \in Items, Expire(i)
      PROVE  IInv'
  BY <1>4, ExpireKeeps
<1>5. CASE UNCHANGED vars
  <2>1. /\ subject' = subject /\ rows' = rows /\ memory' = memory /\ sent' = sent
        /\ calls' = calls /\ recorded' = recorded /\ renewed' = renewed
        /\ polling' = polling /\ faults' = faults
    BY <1>5 DEF vars
  <2>2. TypeOK'
    BY <2>1, CallsType, TypeFromParts DEF IInv, TypeOK
  <2>3. RecordedSoFar'
    BY <2>1, GoingOnKeepsRecorded DEF IInv
  <2>4. AnnouncedIsRecorded'
    BY <2>1 DEF IInv, AnnouncedIsRecorded
  <2> QED BY <2>2, <2>3, <2>4 DEF IInv
<1> QED BY <1>1, <1>2, <1>3, <1>4, <1>5 DEF Next

-----------------------------------------------------------------------------
(* The shape of a step: nothing is done to the rows, a request begins, a     *)
(* request acts, or the time of a key has passed.                            *)

Leaves(d) == calls'[d].st \notin {"running", "ok"}
Rests == NoEffect /\ \A d \in Calls : calls'[d] = calls[d] \/ Leaves(d)

Starts(c) ==
    /\ NoEffect /\ ~Running(c)
    /\ \A d \in Calls : d # c => calls'[d] = calls[d]
    /\ \E i \in Items : \E r \in DOMAIN Me.routes :
           Fresh(r, i) /\ calls'[c] = [st |-> "running", route |-> r, item |-> i,
                                       pc |-> 1, seen |-> Blank]

Acts(c) ==
    /\ Running(c)
    /\ \A d \in Calls : d # c => calls'[d] = calls[d] \/ Leaves(d)
    /\ \/ Effect(c) /\ ~Rejected(c)
       \/ NoEffect
    /\ \/ Leaves(c)
       \/ /\ calls'[c] = Advanced(c)
          /\ (Effect(c) /\ ~Rejected(c)) \/ Current(c).fails = "ignore"

Lapses(i) ==
    /\ Expire(i)
    /\ \A d \in Calls : /\ calls'[d] = calls[d] \/ Leaves(d)
                        /\ Claims(d) /\ Item(d) = i => Leaves(d)

LEMMA StepShape ==
    ASSUME IInv, [Next]_vars
    PROVE  /\ subject' = subject /\ Me' = Me
           /\ \/ /\ renewed' = renewed
                 /\ \/ Rests
                    \/ \E c \in Calls : Starts(c) \/ Acts(c)
              \/ \E i \in Items : Lapses(i)
<1>1. \A d \in Calls : GivenUp(d).st \notin {"running", "ok"}
  BY DEF GivenUp, Idle
<1>2. TypeOK /\ calls = [d \in Calls |-> calls[d]]
  BY DEF IInv, TypeOK
<1>3. ASSUME NEW c \in Calls, NEW i \in Items, NEW r \in DOMAIN Me.routes, Begin(c, r, i)
      PROVE  subject' = subject /\ renewed' = renewed /\ Starts(c)
  BY <1>2, <1>3 DEF Begin, Free, Running, Starts, NoEffect
<1>4. ASSUME NEW c \in Calls, Perform(c)
      PROVE  subject' = subject /\ renewed' = renewed /\ Acts(c)
  <2>1. ASSUME NEW d \in Calls, d # c
        PROVE  calls'[d] = calls[d] \/ Leaves(d)
    BY <1>1, <1>4, <2>1 DEF Perform, Leaves
  <2> QED BY <1>4, <2>1 DEF Perform, Acts
<1>5. ASSUME NEW c \in Calls, calls' = [calls EXCEPT ![c] = GivenUp(c)]
      PROVE  Leaves(c) /\ \A d \in Calls : d # c => calls'[d] = calls[d]
  BY <1>1, <1>2, <1>5 DEF Leaves
<1>6. ASSUME NEW c \in Calls, Refuse(c)
      PROVE  subject' = subject /\ renewed' = renewed /\ Acts(c)
  BY <1>5, <1>6 DEF Refuse, Acts
<1>7. ASSUME NEW c \in Calls, FailsCaught(c)
      PROVE  subject' = subject /\ renewed' = renewed /\ Acts(c)
  BY <1>5, <1>7 DEF FailsCaught, Fails, Acts
<1>8. ASSUME NEW c \in Calls, FailsIgnored(c)
      PROVE  subject' = subject /\ renewed' = renewed /\ Acts(c)
  <2>1. calls'[c] = Advanced(c) /\ \A d \in Calls : d # c => calls'[d] = calls[d]
    BY <1>2, <1>8 DEF FailsIgnored
  <2> QED BY <1>8, <2>1 DEF FailsIgnored, Fails, Acts
<1>9. ASSUME Down
      PROVE  \A d \in Calls : IF Running(d) THEN Leaves(d) ELSE calls'[d] = calls[d]
  BY <1>1, <1>9 DEF Down, Leaves
<1>10. ASSUME NEW c \in Calls, FailsUncaught(c)
      PROVE  subject' = subject /\ renewed' = renewed /\ Acts(c)
  BY <1>9, <1>10 DEF FailsUncaught, Fails, Acts
<1>11. ASSUME Restart
      PROVE  subject' = subject /\ renewed' = renewed /\ Rests
  BY <1>9, <1>11 DEF Restart, Rests
<1>12. ASSUME UNCHANGED vars
      PROVE  subject' = subject /\ renewed' = renewed /\ Rests
  BY <1>12 DEF vars, Rests, NoEffect
<1>13. ASSUME NEW i \in Items, Expire(i)
       PROVE  subject' = subject /\ Lapses(i)
  BY <1>1, <1>13 DEF Expire, Lapses, Leaves
<1>14. /\ subject' = subject
       /\ \/ /\ renewed' = renewed
             /\ \/ Rests
                \/ \E c \in Calls : Starts(c) \/ Acts(c)
          \/ \E i \in Items : Lapses(i)
  BY <1>3, <1>4, <1>6, <1>7, <1>8, <1>10, <1>11, <1>12, <1>13 DEF Next, Step
<1> QED BY <1>14 DEF Me

\* What the programs of the subject have in common.
LEMMA Habits ==
    ASSUME TypeOK, NEW c \in Calls, Running(c)
    PROVE  /\ calls[c].route \in DOMAIN Me.routes /\ Program(c) = Me.routes[calls[c].route]
           /\ DOMAIN Program(c) = 1..Len(Program(c)) /\ Len(Program(c)) \in Nat
           /\ calls[c].pc \in 1..Len(Program(c)) /\ Current(c) = Program(c)[calls[c].pc]
           /\ \A k \in DOMAIN Program(c) : Program(c)[k] \in Statement
           /\ ClaimsFirst(Program(c)) /\ KeepsFlow(Program(c), Me.flow)
<1>1. subject \in DOMAIN Subject /\ calls[c].route \in DOMAIN Me.routes
  BY DEF TypeOK
<1>2. ClaimsFirst(Program(c)) /\ KeepsFlow(Program(c), Me.flow)
  BY <1>1, SubjectAssumption DEF Me, Program
<1> QED BY <1>1, <1>2, ProgramType DEF Program, Current

\* A request that goes on stands one statement further, or was at the last.
LEMMA AdvancedShape ==
    ASSUME TypeOK, NEW c \in Calls, Running(c)
    PROVE  \/ /\ calls[c].pc = Len(Program(c))
              /\ \/ Advanced(c).st \notin {"running", "ok"}
                 \/ /\ Advanced(c).st = "ok" /\ Advanced(c).route = calls[c].route
                    /\ Advanced(c).item = calls[c].item
           \/ /\ calls[c].pc < Len(Program(c)) /\ Advanced(c).st = "running"
              /\ Advanced(c).pc = calls[c].pc + 1
              /\ Advanced(c).route = calls[c].route /\ Advanced(c).item = calls[c].item
              /\ Advanced(c).seen = SeenAfter(c)
<1>1. calls[c] \in Call /\ calls[c].pc \in 1..Len(Program(c)) /\ Len(Program(c)) \in Nat
  BY Habits, ProgramType DEF GoodCall
<1>2. CASE calls[c].pc = Len(Program(c))
  <2>1. Idle.st \notin {"running", "ok"}
    BY DEF Idle
  <2>2. LET d == [calls[c] EXCEPT !.st = "ok", !.pc = 0, !.seen = Blank]
        IN  d.st = "ok" /\ d.route = calls[c].route /\ d.item = calls[c].item
    BY <1>1 DEF Call
  <2> QED BY <1>2, <2>1, <2>2 DEF Advanced, Done
<1>3. CASE calls[c].pc # Len(Program(c))
  <2> DEFINE n == [calls[c] EXCEPT !.pc = calls[c].pc + 1, !.seen = SeenAfter(c)]
  <2>1. Advanced(c) = n
    BY <1>1, <1>3 DEF Advanced, Call
  <2>2. /\ n.st = calls[c].st /\ n.pc = calls[c].pc + 1 /\ n.seen = SeenAfter(c)
        /\ n.route = calls[c].route /\ n.item = calls[c].item
    BY <1>1 DEF Call
  <2> HIDE DEF n
  <2>3. calls[c].pc < Len(Program(c))
    BY <1>1, <1>3
  <2> QED BY <2>1, <2>2, <2>3 DEF Running
<1> QED BY <1>2, <1>3

\* A request that acts does not stay as it is.
LEMMA ActingMoves ==
    ASSUME IInv, NEW c \in Calls, Acts(c)
    PROVE  calls'[c] # calls[c]
<1>1. CASE Leaves(c)
  BY <1>1 DEF Leaves, Acts, Running
<1>2. CASE calls'[c] = Advanced(c)
  BY <1>2, AdvancedShape, Habits DEF Acts, Running, IInv
<1> QED BY <1>1, <1>2 DEF Acts

LEMMA OneActs ==
    ASSUME IInv, NEW c \in Calls, NEW d \in Calls, Acts(c), Acts(d), Running(d)'
    PROVE  c = d
BY ActingMoves DEF Acts, Running, Leaves

\* What a statement does to the rows: one row gets the status the statement
\* writes, and none is removed.
LEMMA RowsShape ==
    ASSUME IInv, NEW c \in Calls, Running(c), Effect(c), ~Rejected(c)
    PROVE  \/ rows' = rows /\ Current(c).op \notin {"create", "insert", "upsert"}
           \/ /\ Current(c).op \in RowWrites /\ Current(c).to # None
              /\ rows' = [rows EXCEPT ![Item(c)] = Current(c).to]
              /\ rows[Item(c)] \in Current(c).needs
              /\ Current(c).op = "ensure" => rows[Item(c)] = None
              /\ Current(c).op = "update" => rows[Item(c)] # None
<1>1. rows[Item(c)] \in Current(c).needs /\ rows' = RowsAfter(c)
  BY DEF Rejected, Effect
<1>2. Current(c).op \in RowWrites => Current(c).to # None
  BY Habits DEF IInv, ClaimsFirst
<1> QED BY <1>1, <1>2 DEF RowsAfter, RowWrites

LEMMA RowsStay ==
    ASSUME IInv, [Next]_vars, NEW i \in Items, rows[i] # None
    PROVE  rows'[i] # None \/ Lapses(i)
<1>1. rows \in [Items -> Values]
  BY DEF IInv, TypeOK
<1>2. CASE NoEffect
  BY <1>2 DEF NoEffect
<1>3. ASSUME NEW c \in Calls, Running(c), Effect(c), ~Rejected(c)
      PROVE  rows'[i] # None
  BY <1>1, <1>3, RowsShape
<1>4. ASSUME NEW j \in Items, Lapses(j), j # i
      PROVE  rows'[i] # None
  BY <1>1, <1>4 DEF Lapses, Expire
<1> QED BY <1>2, <1>3, <1>4, StepShape DEF Rests, Starts, Acts

-----------------------------------------------------------------------------
(* A key is claimed once while it is there.  A request passes its INSERT     *)
(* only over a row that is not there and leaves one that is, and the row is  *)
(* removed only when nobody is on his way from it, with the claims on it.    *)

Passed(c) == Holds(c) \/ Claims(c)

WillOffer(c) == Running(c) /\ \E k \in calls[c].pc..Len(Program(c)) : Offers(Program(c)[k])

PassedHasRow == \A c \in Calls : Passed(c) => rows[Item(c)] # None
PassedAlone == \A c, d \in Calls : Passed(c) /\ Passed(d) /\ Item(c) = Item(d) => c = d
OfferedHasRow == \A k \in DOMAIN sent : OfferedLately(k) => rows[sent[k][1]] # None
OfferedAfter ==
    \A c \in Calls : Passed(c) /\ WillOffer(c) =>
        \A k \in DOMAIN sent : OfferedLately(k) => sent[k][1] # Item(c)
OfferedOnce ==
    \A j, k \in DOMAIN sent :
        sent[j] = sent[k] /\ OfferedLately(j) /\ OfferedLately(k) => j = k

OnceInv == PassedHasRow /\ PassedAlone /\ OfferedHasRow /\ OfferedAfter /\ OfferedOnce

\* Whoever has passed its INSERT had before, or passes it now.
LEMMA PassedShape ==
    ASSUME IInv, [Next]_vars, NEW d \in Calls, Passed(d)'
    PROVE  /\ calls'[d].item = Item(d)
           /\ \/ Passed(d)
              \/ /\ Acts(d) /\ Effect(d) /\ ~Rejected(d) /\ Current(d).op = "insert"
<1> USE DEF IInv
<1>1. Me' = Me
  BY StepShape
<1>2. CASE calls'[d] = calls[d]
  <2>1. Program(d)' = Program(d) /\ Running(d)' = Running(d) /\ Item(d) = calls'[d].item
    BY <1>1, <1>2 DEF Program, Running, Item
  <2> QED BY <1>2, <2>1 DEF Passed, Holds, Claims
<1>3. CASE Leaves(d)
  BY <1>3 DEF Leaves, Passed, Holds, Running, Claims
<1>4. CASE Starts(d)
  <2>1. calls'[d].pc = 1 /\ calls'[d].st = "running"
    BY <1>4 DEF Starts
  <2> QED BY <2>1 DEF Passed, Holds, Claims
<1>5. ASSUME Acts(d), calls'[d] = Advanced(d)
      PROVE  /\ calls'[d].item = Item(d)
             /\ \/ Passed(d)
                \/ Effect(d) /\ ~Rejected(d) /\ Current(d).op = "insert"
  <2>1. Running(d) /\ calls[d].pc \in 1..Len(Program(d)) /\ DOMAIN Program(d) = 1..Len(Program(d))
    BY <1>5, Habits DEF Acts
  <2>2. /\ Advanced(d).route = calls[d].route /\ Advanced(d).item = calls[d].item
        /\ \/ Advanced(d).st = "ok" /\ calls[d].pc = Len(Program(d))
           \/ Advanced(d).st = "running" /\ Advanced(d).pc = calls[d].pc + 1
    BY <1>5, <2>1, AdvancedShape DEF Passed, Holds, Running, Claims
  <2>3. Program(d)' = Program(d)
    BY <1>1, <1>5, <2>2 DEF Program
  <2>4. PICK k \in 1..calls[d].pc : Program(d)[k].op = "insert"
    BY <1>5, <2>1, <2>2, <2>3 DEF Passed, Holds, Running, Claims
  <2>5. CASE k < calls[d].pc
    BY <1>5, <2>1, <2>2, <2>4, <2>5 DEF Passed, Holds, Item
  <2>6. CASE k = calls[d].pc
    <3>1. Current(d).op = "insert" /\ Current(d).fails # "ignore"
      BY <2>1, <2>4, <2>6, Habits DEF ClaimsFirst
    <3>2. ~Leaves(d)
      BY <1>5, <2>2 DEF Leaves
    <3> QED BY <1>5, <2>2, <3>1, <3>2 DEF Acts, Item
  <2> QED BY <2>1, <2>4, <2>5, <2>6
<1> QED BY <1>2, <1>3, <1>4, <1>5, StepShape DEF Rests, Starts, Acts, Lapses

\* An INSERT finds no row and leaves one.
LEMMA InsertShape ==
    ASSUME IInv, NEW c \in Calls, Running(c), Effect(c), ~Rejected(c), Current(c).op = "insert"
    PROVE  rows[Item(c)] = None /\ rows'[Item(c)] # None
<1>1. Current(c).needs = {None} /\ Current(c).to # None
  BY Habits DEF IInv, ClaimsFirst, RowWrites
<1>2. rows' = [rows EXCEPT ![Item(c)] = Current(c).to] /\ rows[Item(c)] = None
  BY <1>1 DEF Effect, RowsAfter, Rejected
<1>3. Item(c) \in Items /\ rows \in [Items -> Values]
  BY ProgramType DEF IInv, TypeOK
<1> QED BY <1>1, <1>2, <1>3

\* A row is not removed under a request that has passed its INSERT and stays.
LEMMA PassedOutlasts ==
    ASSUME NEW c \in Calls, Passed(c), Passed(c)', NEW i \in Items, Lapses(i)
    PROVE  Item(c) # i
<1>1. Holds(c) => Item(c) # i
  BY DEF Lapses, Expire
<1>2. ~Leaves(c)
  BY DEF Passed, Holds, Claims, Running, Leaves
<1> QED BY <1>1, <1>2 DEF Passed, Lapses

LEMMA PassedStays ==
    ASSUME IInv, OnceInv, [Next]_vars
    PROVE  PassedHasRow' /\ PassedAlone'
<1>1. \A c \in Calls : Item(c) \in Items
  BY CallsType DEF IInv, GoodCall, Call, Item
<1>2. ASSUME NEW c \in Calls, Passed(c)'
      PROVE  rows'[calls'[c].item] # None
  <2>1. CASE Passed(c)
    BY <1>1, <1>2, <2>1, PassedShape, PassedOutlasts, RowsStay DEF OnceInv, PassedHasRow
  <2> QED BY <1>2, <2>1, PassedShape, InsertShape DEF Acts
<1>3. ASSUME NEW c \in Calls, NEW d \in Calls, Passed(c)', Passed(d)', calls'[c].item = calls'[d].item
      PROVE  c = d
  <2>1. Item(c) = Item(d)
    BY <1>3, PassedShape
  <2>2. ASSUME NEW e \in Calls, ~Passed(e), Passed(e)'
        PROVE  Acts(e) /\ calls'[e] # calls[e] /\ ~Leaves(e) /\ rows[Item(e)] = None
    <3>1. Acts(e) /\ rows[Item(e)] = None
      BY <2>2, PassedShape, InsertShape DEF Acts
    <3>2. calls'[e] # calls[e]
      BY <2>2, StepShape DEF Passed, Holds, Running, Claims, Program
    <3>3. ~Leaves(e)
      BY <2>2 DEF Passed, Holds, Running, Claims, Leaves
    <3> QED BY <3>1, <3>2, <3>3
  <2>3. CASE Passed(c) /\ Passed(d)
    BY <2>1, <2>3 DEF OnceInv, PassedAlone
  <2>4. CASE ~Passed(c) /\ ~Passed(d)
    BY <1>3, <2>2, <2>4 DEF Acts
  <2>5. CASE Passed(c) /\ ~Passed(d)
    BY <1>3, <2>1, <2>2, <2>5 DEF OnceInv, PassedHasRow
  <2>6. CASE ~Passed(c) /\ Passed(d)
    BY <1>3, <2>1, <2>2, <2>6 DEF OnceInv, PassedHasRow
  <2> QED BY <2>3, <2>4, <2>5, <2>6
<1> QED BY <1>2, <1>3 DEF PassedHasRow, PassedAlone, Item

\* What a step adds to the announcements.
LEMMA SentShape ==
    ASSUME IInv, [Next]_vars
    PROVE  \/ sent' = sent
           \/ \E c \in Calls : /\ Acts(c) /\ Effect(c) /\ ~Rejected(c) /\ Current(c).op = "publish"
                               /\ sent' = Append(sent, <<Item(c), Current(c).to>>)
<1>1. CASE NoEffect
  BY <1>1 DEF NoEffect
<1>2. ASSUME NEW c \in Calls, Acts(c), Effect(c), ~Rejected(c)
      PROVE  \/ sent' = sent
             \/ Current(c).op = "publish" /\ sent' = Append(sent, <<Item(c), Current(c).to>>)
  BY <1>2 DEF Effect, SentAfter
<1>3. ASSUME NEW i \in Items, Lapses(i)
      PROVE  sent' = sent
  BY <1>3 DEF Lapses, Expire
<1> QED BY <1>1, <1>2, <1>3, StepShape DEF Rests, Starts, Acts

\* An announcement that is of late was so before, and its key is still there.
LEMMA LatelyShape ==
    ASSUME IInv, [Next]_vars, NEW k \in 1..Len(sent), sent'[k] = sent[k], OfferedLately(k)'
    PROVE  OfferedLately(k) /\ sent[k][1] \in Items /\ ~Lapses(sent[k][1])
<1>1. sent \in Seq(Items \X Values) /\ renewed \in [Items -> Nat]
  BY DEF IInv, TypeOK
<1>2. /\ sent[k] \in Items \X Values /\ sent[k][1] \in Items /\ Len(sent) \in Nat
      /\ sent[k][2] = "offered" /\ k > renewed'[sent[k][1]]
  BY <1>1 DEF OfferedLately
<1>3. ASSUME NEW i \in Items, Lapses(i)
      PROVE  i # sent[k][1] /\ renewed'[sent[k][1]] = renewed[sent[k][1]]
  <2>1. renewed' = [renewed EXCEPT ![i] = Len(sent)]
    BY <1>3 DEF Lapses, Expire
  <2> QED BY <1>1, <1>2, <2>1
<1> QED BY <1>2, <1>3, StepShape DEF OfferedLately

LEMMA OfferedStays ==
    ASSUME IInv, OnceInv, [Next]_vars
    PROVE  OfferedHasRow' /\ OfferedAfter' /\ OfferedOnce'
<1> USE DEF IInv
<1>1. /\ sent \in Seq(Items \X Values) /\ DOMAIN sent = 1..Len(sent)
      /\ \A c \in Calls : Item(c) \in Items
  <2>1. \A c \in Calls : Item(c) \in Items
    BY CallsType DEF GoodCall, Call, Item
  <2>2. sent \in Seq(Items \X Values)
    BY DEF TypeOK
  <2> QED BY <2>1, <2>2
\* Who is about to offer was before, and announces nothing of the kind twice.
<1>2. ASSUME NEW d \in Calls, Passed(d)', WillOffer(d)'
      PROVE  /\ \A k \in DOMAIN sent : OfferedLately(k) => sent[k][1] # Item(d)
             /\ Acts(d) => ~Offers(Current(d))
  <2>1. Me' = Me
    BY StepShape
  <2>2. CASE calls'[d] = calls[d]
    <3>1. Passed(d) /\ WillOffer(d)
      BY <1>2, <2>1, <2>2 DEF Passed, Holds, WillOffer, Running, Claims, Program
    <3>2. ~Acts(d)
      BY <2>2, ActingMoves
    <3> QED BY <3>1, <3>2 DEF OnceInv, OfferedAfter
  <2>3. CASE calls'[d] # calls[d]
    <3>1. Running(d)' /\ ~Leaves(d)
      BY <1>2 DEF WillOffer, Leaves, Running
    <3>2. ~Starts(d)
      <4>1. ASSUME Starts(d) PROVE FALSE
        <5>1. calls'[d].pc = 1 /\ calls'[d].st = "running"
          BY <4>1 DEF Starts
        <5> QED BY <1>2, <5>1 DEF Passed, Holds, Claims
      <4> QED BY <4>1
    <3>3. Acts(d) /\ calls'[d] = Advanced(d) /\ Running(d)
      BY <2>3, <3>1, <3>2, StepShape DEF Rests, Starts, Acts, Lapses
    <3>4. /\ calls'[d].pc = calls[d].pc + 1 /\ calls'[d].route = calls[d].route
          /\ calls[d].pc \in 1..Len(Program(d)) /\ DOMAIN Program(d) = 1..Len(Program(d))
      BY <3>1, <3>3, AdvancedShape, Habits DEF Running
    <3>5. Program(d)' = Program(d)
      BY <2>1, <3>4 DEF Program
    <3>6. PICK k \in (calls[d].pc + 1)..Len(Program(d)) : Offers(Program(d)[k])
      BY <1>2, <3>4, <3>5 DEF WillOffer
    <3>7. ~Offers(Current(d))
      BY <3>3, <3>4, <3>6, Habits DEF ClaimsFirst
    <3>8. WillOffer(d)
      BY <3>3, <3>4, <3>6 DEF WillOffer
    <3>9. CASE Passed(d)
      BY <3>7, <3>8, <3>9 DEF OnceInv, OfferedAfter
    <3>10. CASE ~Passed(d)
      <4>1. rows[Item(d)] = None
        BY <1>2, <3>3, <3>10, PassedShape, InsertShape
      <4> QED BY <3>7, <4>1 DEF OnceInv, OfferedHasRow
    <3> QED BY <3>9, <3>10
  <2> QED BY <2>2, <2>3
\* Who offers has passed its INSERT.
<1>3. ASSUME NEW c \in Calls, Acts(c), Offers(Current(c))
      PROVE  Passed(c) /\ WillOffer(c)
  <2>1. /\ Running(c) /\ calls[c].pc \in 1..Len(Program(c)) /\ Current(c) = Program(c)[calls[c].pc]
        /\ DOMAIN Program(c) = 1..Len(Program(c)) /\ ClaimsFirst(Program(c))
    BY <1>3, Habits DEF Acts
  <2>2. \E j \in 1..(calls[c].pc - 1) : Program(c)[j].op = "insert"
    BY <1>3, <2>1 DEF ClaimsFirst
  <2> QED BY <1>3, <2>1, <2>2 DEF Passed, Holds, WillOffer
\* What was announced before this step.
<1>4. ASSUME NEW k \in 1..Len(sent), sent'[k] = sent[k], OfferedLately(k)'
      PROVE  OfferedLately(k) /\ sent[k][1] \in Items /\ rows'[sent[k][1]] # None
  <2>1. OfferedLately(k) /\ sent[k][1] \in Items /\ ~Lapses(sent[k][1])
    BY <1>4, LatelyShape
  <2> QED BY <1>1, <2>1, RowsStay DEF OnceInv, OfferedHasRow
<1>5. CASE sent' = sent
  <2>1. OfferedHasRow'
    BY <1>1, <1>4, <1>5 DEF OfferedHasRow
  <2>2. OfferedAfter'
    <3>1. \A d \in Calls : Passed(d)' => calls'[d].item = Item(d)
      BY PassedShape
    <3> QED BY <1>1, <1>2, <1>4, <1>5, <3>1 DEF OfferedAfter, Item
  <2>3. OfferedOnce'
    BY <1>1, <1>4, <1>5 DEF OnceInv, OfferedOnce
  <2> QED BY <2>1, <2>2, <2>3
<1>6. ASSUME NEW c \in Calls, Acts(c), Effect(c), ~Rejected(c), Current(c).op = "publish",
             sent' = Append(sent, <<Item(c), Current(c).to>>)
      PROVE  OfferedHasRow' /\ OfferedAfter' /\ OfferedOnce'
  <2> DEFINE new == <<Item(c), Current(c).to>>
  <2>0. PICK n \in Nat : n = Len(sent) + 1
    BY <1>1
  <2>1. /\ Len(sent) \in Nat /\ DOMAIN sent' = 1..n /\ sent'[n] = new
        /\ \A k \in 1..Len(sent) : sent'[k] = sent[k]
        /\ \A k \in 1..n : k \in 1..Len(sent) \/ k = n
    <3>1. new \in Items \X Values
      BY <1>1, <1>6, Habits, StatementType DEF Acts
    <3> QED BY <1>1, <1>6, <2>0, <3>1
  <2>2. new[1] = Item(c) /\ new[2] = Current(c).to
    OBVIOUS
  <2> HIDE DEF new
  <2>3. ASSUME OfferedLately(n)'
        PROVE  /\ Passed(c) /\ Offers(Current(c)) /\ rows'[Item(c)] # None
               /\ \A k \in DOMAIN sent : OfferedLately(k) => sent[k][1] # Item(c)
    <3>1. Offers(Current(c))
      BY <1>6, <2>1, <2>2, <2>3 DEF OfferedLately, Offers
    <3>2. Passed(c) /\ WillOffer(c)
      BY <1>3, <1>6, <3>1
    <3>3. rows' = rows
      BY <1>6 DEF Effect, RowsAfter
    <3> QED BY <3>1, <3>2, <3>3 DEF OnceInv, PassedHasRow, OfferedAfter
  <2>4. OfferedHasRow'
    BY <1>4, <2>1, <2>2, <2>3 DEF OfferedHasRow
  <2>5. OfferedOnce'
    <3>1. ASSUME NEW k \in 1..Len(sent), OfferedLately(k)', OfferedLately(n)', sent[k] = new
          PROVE  FALSE
      BY <1>1, <1>4, <2>1, <2>2, <2>3, <3>1
    <3>2. ASSUME NEW j \in 1..Len(sent), NEW k \in 1..Len(sent), sent[j] = sent[k],
                 OfferedLately(j)', OfferedLately(k)'
          PROVE  j = k
      BY <1>1, <1>4, <2>1, <3>2 DEF OnceInv, OfferedOnce
    <3> QED BY <2>1, <3>1, <3>2 DEF OfferedOnce
  <2>6. OfferedAfter'
    <3>1. ASSUME NEW d \in Calls, Passed(d)', WillOffer(d)', NEW k \in 1..n, OfferedLately(k)'
          PROVE  sent'[k][1] # Item(d)
      <4>1. CASE k \in 1..Len(sent)
        BY <1>1, <1>2, <1>4, <2>1, <3>1, <4>1
      <4>2. CASE k = n
        <5>1. Passed(c) /\ Offers(Current(c)) /\ rows'[Item(c)] # None
          BY <2>3, <3>1, <4>2
        <5>2. d # c
          BY <1>2, <1>6, <3>1, <5>1
        <5>3. ASSUME Item(d) = Item(c)
              PROVE  FALSE
          <6>1. ~Passed(d)
            BY <5>1, <5>2, <5>3 DEF OnceInv, PassedAlone
          <6>2. Acts(d)
            BY <3>1, <6>1, PassedShape
          <6>3. Running(d)'
            BY <3>1 DEF WillOffer
          <6> QED BY <1>6, <5>2, <6>2, <6>3, OneActs
        <5> QED BY <2>1, <2>2, <4>2, <5>3
      <4> QED BY <2>1, <4>1, <4>2
    <3>2. \A d \in Calls : Passed(d)' => calls'[d].item = Item(d)
      BY PassedShape
    <3> QED BY <2>1, <3>1, <3>2 DEF OfferedAfter, Item
  <2> QED BY <2>4, <2>5, <2>6
<1> QED BY <1>5, <1>6, SentShape

LEMMA OnceStarts == Init => OnceInv
<1> SUFFICES ASSUME Init PROVE OnceInv
  OBVIOUS
<1>1. \A c \in Calls : calls[c].st = "idle"
  BY DEF Init, Idle
<1> QED BY <1>1 DEF Init, OnceInv, PassedHasRow, PassedAlone, OfferedHasRow, OfferedAfter,
                    OfferedOnce, Passed, Holds, Running, Claims

-----------------------------------------------------------------------------
(* The evacuation in memory is the one announced last: where evacuations are *)
(* announced at all, only their announcement changes the memory.             *)

Announces == \E r \in DOMAIN Me.routes : \E k \in DOMAIN Me.routes[r] : Evacuates(Me.routes[r][k])
OnlyAnnounced == (\E k \in DOMAIN sent : sent[k][2] = "evacuation") => Announces

EvacuationInv == OnlyAnnounced /\ ActiveIsAnnounced

\* As long as nothing fails, memory and announcements change together.
LEMMA SoundStep ==
    ASSUME IInv, [Next]_vars, faults' = 0
    PROVE  /\ faults = 0
           /\ \/ sent' = sent /\ memory' = memory
              \/ \E c \in Calls : Running(c) /\ Effect(c) /\ memory' = MemoryAfter(c)
<1>1. faults \in Nat
  <2>1. faults \in 0..MaxFaults /\ MaxFaults \in Nat
    BY BoundsAssumption DEF IInv, TypeOK
  <2> QED BY <2>1
<1>2. ASSUME NEW c \in Calls, Fails(c) PROVE FALSE
  BY <1>1, <1>2 DEF Fails
<1>3. ~Restart
  BY <1>1 DEF Restart
<1>4. ASSUME NEW c \in Calls, Perform(c)
      PROVE  faults = 0 /\ Running(c) /\ Effect(c) /\ memory' = MemoryAfter(c)
  BY <1>4 DEF Perform
<1>5. ASSUME NEW c \in Calls, Refuse(c)
      PROVE  faults = 0 /\ sent' = sent /\ memory' = memory
  BY <1>5 DEF Refuse, NoEffect
<1>6. ASSUME NEW c \in Calls, NEW i \in Items, NEW r \in DOMAIN Me.routes, Begin(c, r, i)
      PROVE  faults = 0 /\ sent' = sent /\ memory' = memory
  BY <1>6 DEF Begin
<1>7. ASSUME UNCHANGED vars
      PROVE  faults = 0 /\ sent' = sent /\ memory' = memory
  BY <1>7 DEF vars
<1>8. ASSUME NEW i \in Items, Expire(i)
      PROVE  faults = 0 /\ sent' = sent /\ memory' = memory
  BY <1>8 DEF Expire
<1> QED BY <1>2, <1>3, <1>4, <1>5, <1>6, <1>7, <1>8
        DEF Next, Step, FailsCaught, FailsIgnored, FailsUncaught

\* A statement of the subject evacuates and keeps that, or changes no memory.
LEMMA MemoryHabit ==
    ASSUME IInv, NEW c \in Calls, Running(c), Announces
    PROVE  IF Evacuates(Current(c)) THEN Current(c).keeps = "evacuation" /\ Current(c).only
           ELSE Current(c).keeps = None /\ Current(c).op \notin {"show", "forget"}
<1>1. /\ calls[c].route \in DOMAIN Me.routes /\ Program(c) = Me.routes[calls[c].route]
      /\ calls[c].pc \in DOMAIN Program(c) /\ Current(c) = Program(c)[calls[c].pc]
  BY Habits DEF IInv
<1>2. KeepsWhatItAnnounces(Me.routes)
  BY SubjectAssumption DEF IInv, TypeOK, Me
<1>3. \A r \in DOMAIN Me.routes : \A k \in DOMAIN Me.routes[r] :
          IF Evacuates(Me.routes[r][k])
          THEN Me.routes[r][k].keeps = "evacuation" /\ Me.routes[r][k].only
          ELSE Me.routes[r][k].keeps = None /\ Me.routes[r][k].op \notin {"show", "forget"}
  BY <1>2 DEF KeepsWhatItAnnounces, Announces
<1> QED BY <1>1, <1>3

LEMMA EvacuationStarts == Init => EvacuationInv
BY DEF Init, EvacuationInv, OnlyAnnounced, ActiveIsAnnounced

LEMMA EvacuationStays ==
    ASSUME IInv, EvacuationInv, [Next]_vars
    PROVE  EvacuationInv'
<1> USE DEF IInv
<1>1. sent \in Seq(Items \X Values) /\ Me' = Me
  BY StepShape DEF TypeOK
<1>2. OnlyAnnounced'
  <2>1. CASE sent' = sent
    BY <1>1, <2>1 DEF EvacuationInv, OnlyAnnounced, Announces
  <2>2. ASSUME NEW c \in Calls, Acts(c), Current(c).op = "publish",
               sent' = Append(sent, <<Item(c), Current(c).to>>)
        PROVE  OnlyAnnounced'
    <3>1. Evacuates(Current(c)) => Announces
      BY <2>2, Habits DEF Acts, Announces
    <3>2. Announces' = Announces
      BY <1>1 DEF Announces
    <3>3. ASSUME NEW k \in DOMAIN sent', sent'[k][2] = "evacuation"
          PROVE  Announces
      <4>1. CASE k \in DOMAIN sent
        BY <1>1, <2>2, <3>3, <4>1 DEF EvacuationInv, OnlyAnnounced
      <4>2. CASE k = Len(sent) + 1
        BY <1>1, <2>2, <3>1, <3>3, <4>2 DEF Evacuates
      <4> QED BY <1>1, <2>2, <4>1, <4>2
    <3> QED BY <3>2, <3>3 DEF OnlyAnnounced
  <2> QED BY <2>1, <2>2, SentShape
<1>3. ASSUME faults' = 0, NEW k \in DOMAIN sent', sent'[k][2] = "evacuation",
             \A j \in (k + 1)..Len(sent') : sent'[j][2] # "evacuation"
      PROVE  memory' = [Blank EXCEPT ![sent'[k][1]] = "evacuation"]
  <2>1. CASE sent' = sent /\ memory' = memory
    BY <1>3, <2>1, SoundStep DEF EvacuationInv, ActiveIsAnnounced
  <2>2. ASSUME NEW c \in Calls, Running(c), Effect(c), memory' = MemoryAfter(c), Evacuates(Current(c))
        PROVE  memory' = [Blank EXCEPT ![sent'[k][1]] = "evacuation"]
    <3>1. Announces
      BY <2>2, Habits DEF Announces
    <3>2. sent' = Append(sent, <<Item(c), "evacuation">>)
      BY <2>2 DEF Effect, SentAfter, Evacuates
    <3>3. sent' [Len(sent) + 1] = <<Item(c), "evacuation">> /\ Len(sent') = Len(sent) + 1
      BY <1>1, <3>2
    <3>4. k = Len(sent) + 1
      <4>1. CASE k \in 1..Len(sent)
        <5>1. Len(sent) + 1 \in (k + 1)..Len(sent')
          BY <1>1, <3>3, <4>1
        <5>2. sent'[Len(sent) + 1][2] # "evacuation"
          BY <1>3, <5>1
        <5> QED BY <3>3, <5>2
      <4> QED BY <1>1, <3>2, <3>3, <4>1
    <3>5. memory' = [Blank EXCEPT ![Item(c)] = "evacuation"]
      <4>1. Current(c).keeps = "evacuation" /\ Current(c).only /\ Current(c).op = "publish"
        BY <2>2, <3>1, MemoryHabit DEF Evacuates
      <4>2. Current(c).op # "show" /\ Current(c).op # "forget" /\ Current(c).op # "revise"
        BY <4>1
      <4>3. Current(c).keeps # None
        BY <4>1 DEF None
      <4>4. MemoryAfter(c) = [Blank EXCEPT ![Item(c)] = Current(c).keeps]
        BY <4>1, <4>2, <4>3 DEF MemoryAfter
      <4> QED BY <2>2, <4>1, <4>4
    <3>6. sent'[k] = <<Item(c), "evacuation">>
      BY <3>3, <3>4
    <3>7. sent'[k][1] = Item(c)
      BY <3>6
    <3> QED BY <3>5, <3>7
  <2>3. ASSUME NEW c \in Calls, Running(c), Effect(c), memory' = MemoryAfter(c), ~Evacuates(Current(c))
        PROVE  memory' = [Blank EXCEPT ![sent'[k][1]] = "evacuation"]
    <3>1. /\ k \in 1..Len(sent) /\ sent'[k] = sent[k]
          /\ \A j \in (k + 1)..Len(sent) : sent[j][2] # "evacuation"
      <4>1. CASE sent' = sent
        BY <1>1, <1>3, <4>1
      <4>2. CASE sent' = Append(sent, <<Item(c), Current(c).to>>) /\ Current(c).op = "publish"
        <5>1. Current(c).to # "evacuation"
          BY <2>3, <4>2 DEF Evacuates
        <5>2. Len(sent') = Len(sent) + 1 /\ Len(sent) \in Nat
          BY <1>1, <4>2
        <5>3. \A j \in 1..Len(sent) : sent'[j] = sent[j]
          BY <1>1, <4>2
        <5>4. sent'[Len(sent) + 1][2] = Current(c).to
          BY <1>1, <4>2
        <5>5. k \in 1..(Len(sent) + 1)
          BY <1>1, <4>2, <5>2
        <5>6. k # Len(sent) + 1
          BY <1>3, <5>1, <5>4
        <5>7. k \in 1..Len(sent)
          BY <5>2, <5>5, <5>6
        <5>8. ASSUME NEW j \in (k + 1)..Len(sent)
              PROVE  sent[j][2] # "evacuation"
          <6>1. j \in (k + 1)..Len(sent') /\ j \in 1..Len(sent)
            BY <5>2, <5>7, <5>8
          <6> QED BY <1>3, <5>3, <6>1
        <5> QED BY <5>3, <5>7, <5>8
      <4> QED BY <2>3, <4>1, <4>2 DEF Effect, SentAfter
    <3>2. Announces
      BY <1>1, <1>3, <3>1 DEF EvacuationInv, OnlyAnnounced
    <3>3. memory' = memory
      BY <2>3, <3>2, MemoryHabit DEF MemoryAfter
    <3>4. k \in DOMAIN sent /\ sent[k][2] = "evacuation" /\ faults = 0
      BY <1>1, <1>3, <3>1, SoundStep
    <3> QED BY <3>1, <3>3, <3>4 DEF EvacuationInv, ActiveIsAnnounced
  <2> QED BY <1>3, <2>1, <2>2, <2>3, SoundStep
<1>4. ActiveIsAnnounced'
  BY <1>3 DEF ActiveIsAnnounced, Blank
<1> QED BY <1>2, <1>4 DEF EvacuationInv

-----------------------------------------------------------------------------
(* Life cycles.  Every row stands somewhere in the life cycle of its         *)
(* subject; a row about to be created is not there and nobody else will      *)
(* create it; what a request has read of its row allowed it to go on.        *)

RowsInFlow == \A i \in Items : rows[i] \in Ends(Me.flow)

WillCreate(c) ==
    Running(c) /\ \E k \in calls[c].pc..Len(Program(c)) : Program(c)[k].op = "create"

CreationsAreFresh ==
    \A c \in Calls : WillCreate(c) =>
        /\ rows[Item(c)] = None
        /\ \A d \in Calls : WillCreate(d) /\ Item(d) = Item(c) => d = c

\* The handler has read its row, and nothing else since.
HasRead(c, j) == Running(c) /\ j \in 1..(calls[c].pc - 1) /\ Program(c)[j].op = "read"

ReadsAllowed ==
    \A c \in Calls : \A j \in 1..Len(Program(c)) : HasRead(c, j) =>
        /\ calls[c].seen[Item(c)] \in Program(c)[j].needs
        /\ None \notin Program(c)[j].needs => rows[Item(c)] # None

FlowInv == RowsInFlow /\ CreationsAreFresh /\ ReadsAllowed

\* A request that runs on had begun, and stood one statement before.
LEMMA RunningShape ==
    ASSUME IInv, [Next]_vars, NEW d \in Calls, Running(d)'
    PROVE  \/ calls'[d] = calls[d] /\ Running(d) /\ Program(d)' = Program(d)
           \/ Starts(d) /\ calls'[d].pc = 1 /\ NoEffect
           \/ /\ Acts(d) /\ Running(d) /\ Program(d)' = Program(d) /\ calls'[d].item = Item(d)
              /\ calls'[d].pc = calls[d].pc + 1 /\ calls'[d].seen = SeenAfter(d)
              /\ calls[d].pc \in 1..Len(Program(d))
              /\ ((Effect(d) /\ ~Rejected(d)) \/ Current(d).fails = "ignore")
<1>1. Me' = Me
  BY StepShape
<1>2. ~Leaves(d)
  BY DEF Running, Leaves
<1>3. CASE calls'[d] = calls[d]
  BY <1>1, <1>3 DEF Running, Program
<1>4. CASE Starts(d)
  BY <1>4 DEF Starts
<1>5. CASE Acts(d)
  <2>1. Running(d) /\ calls'[d] = Advanced(d)
    BY <1>2, <1>5 DEF Acts
  <2>2. /\ Advanced(d).pc = calls[d].pc + 1 /\ Advanced(d).seen = SeenAfter(d)
        /\ Advanced(d).route = calls[d].route /\ Advanced(d).item = calls[d].item
    BY <2>1, AdvancedShape DEF IInv, Running
  <2>3. Program(d)' = Program(d) /\ calls[d].pc \in 1..Len(Program(d))
    BY <1>1, <2>1, <2>2, Habits DEF IInv, Program
  <2>4. (Effect(d) /\ ~Rejected(d)) \/ Current(d).fails = "ignore"
    BY <1>2, <1>5 DEF Acts
  <2> QED BY <1>5, <2>1, <2>2, <2>3, <2>4 DEF Item
<1>6. calls'[d] = calls[d] \/ Starts(d) \/ Acts(d)
  <2>1. ASSUME NEW c \in Calls, Starts(c) PROVE calls'[d] = calls[d] \/ Starts(d)
    BY <2>1 DEF Starts
  <2>2. ASSUME NEW c \in Calls, Acts(c) PROVE calls'[d] = calls[d] \/ Acts(d)
    BY <1>2, <2>2 DEF Acts
  <2> QED BY <1>2, <2>1, <2>2, StepShape DEF Rests, Lapses
<1> QED BY <1>3, <1>4, <1>5, <1>6

\* What a statement that takes effect makes of its row.
LEMMA FlowShape ==
    ASSUME IInv, FlowInv, NEW c \in Calls, Running(c), Effect(c), ~Rejected(c)
    PROVE  \/ rows' = rows
           \/ /\ Current(c).op \in RowWrites
              /\ rows' = [rows EXCEPT ![Item(c)] = Current(c).to]
              /\ Current(c).to \in Ends(Me.flow)
              /\ \/ rows[Item(c)] = Current(c).to
                 \/ <<rows[Item(c)], Current(c).to>> \in Me.flow
                 \/ \E k \in 1..(calls[c].pc - 1) :
                        Program(c)[k].op = "read" /\ calls[c].seen[Item(c)] # rows[Item(c)]
<1> USE DEF IInv
<1>1. CASE rows' # rows
  <2> DEFINE v == rows[Item(c)]
             k == calls[c].pc
  <2>1. /\ Current(c).op \in RowWrites /\ rows' = [rows EXCEPT ![Item(c)] = Current(c).to]
        /\ v \in Current(c).needs
        /\ Current(c).op = "ensure" => v = None
        /\ Current(c).op = "update" => v # None
    BY <1>1, RowsShape
  <2>2. /\ KeepsFlow(Program(c), Me.flow) /\ k \in DOMAIN Program(c) /\ Current(c) = Program(c)[k]
        /\ k \in 1..Len(Program(c)) /\ Len(Program(c)) \in Nat
    BY Habits
  <2>3. Item(c) \in Items /\ v \in Ends(Me.flow)
    BY ProgramType DEF FlowInv, RowsInFlow
  <2>4. Current(c).to \in Ends(Me.flow)
    BY <2>1, <2>2 DEF KeepsFlow
  <2>5. CASE \A j \in 1..(k - 1) : Program(c)[j].op = "read" => calls[c].seen[Item(c)] = v
    <3>1. Current(c).op = "create" => v = None
      BY <2>2 DEF FlowInv, CreationsAreFresh, WillCreate
    <3>2. \A j \in 1..(k - 1) : Program(c)[j].op = "read" => v \in Program(c)[j].needs
      BY <2>2, <2>5 DEF FlowInv, ReadsAllowed, HasRead
    <3>3. MayBe(Program(c), k, v)
      BY <2>1, <2>2, <3>1, <3>2 DEF MayBe
    <3>4. v = Current(c).to \/ <<v, Current(c).to>> \in Me.flow
      BY <2>1, <2>2, <2>3, <3>3 DEF KeepsFlow
    <3> QED BY <2>1, <2>4, <3>4
  <2> QED BY <2>1, <2>4, <2>5
<1> QED BY <1>1

\* The other writers leave alone a row that is about to be created.
LEMMA CreationIsLeftAlone ==
    ASSUME IInv, FlowInv, NEW c \in Calls, WillCreate(c),
           NEW d \in Calls, Running(d), Effect(d), ~Rejected(d), Item(d) = Item(c),
           d = c => Current(d).op # "create"
    PROVE  rows' = rows
<1> USE DEF IInv
<1>1. Running(c) /\ rows[Item(c)] = None
  BY DEF WillCreate, FlowInv, CreationsAreFresh
<1>2. SUFFICES ASSUME Current(d).op \in RowWrites, Current(d).op # "update" PROVE FALSE
  BY <1>1, RowsShape
<1>3. /\ calls[c].route \in DOMAIN Me.routes /\ Program(c) = Me.routes[calls[c].route]
      /\ calls[c].pc \in 1..Len(Program(c)) /\ DOMAIN Program(c) = 1..Len(Program(c))
      /\ Creates(Program(c))
  <2>1. /\ calls[c].route \in DOMAIN Me.routes /\ Program(c) = Me.routes[calls[c].route]
        /\ calls[c].pc \in 1..Len(Program(c)) /\ DOMAIN Program(c) = 1..Len(Program(c))
    BY <1>1, Habits
  <2>2. Creates(Program(c))
    BY <2>1 DEF WillCreate, Creates
  <2> QED BY <2>1, <2>2
<1>4. /\ calls[d].route \in DOMAIN Me.routes /\ Program(d) = Me.routes[calls[d].route]
      /\ calls[d].pc \in 1..Len(Program(d)) /\ DOMAIN Program(d) = 1..Len(Program(d))
      /\ Current(d) = Program(d)[calls[d].pc]
  BY Habits
<1>5. CreatesAlone(Me.routes)
  BY SubjectAssumption DEF TypeOK, Me
<1>6. \/ Current(d).op = "create"
          /\ \A j \in DOMAIN Program(d) : Program(d)[j].op \in RowWrites => j = calls[d].pc
      \/ /\ ~Creates(Program(d))
         /\ \E j \in 1..(calls[d].pc - 1) : Program(d)[j].op = "read" /\ None \notin Program(d)[j].needs
  BY <1>2, <1>3, <1>4, <1>5 DEF CreatesAlone
<1>7. CASE Current(d).op = "create"
  <2>1. WillCreate(d)
    BY <1>4, <1>7 DEF WillCreate
  <2>2. d = c
    BY <2>1 DEF FlowInv, CreationsAreFresh
  <2> QED BY <1>7, <2>2
<1>8. CASE \E j \in 1..(calls[d].pc - 1) : Program(d)[j].op = "read" /\ None \notin Program(d)[j].needs
  <2>1. PICK j \in 1..(calls[d].pc - 1) : Program(d)[j].op = "read" /\ None \notin Program(d)[j].needs
    BY <1>8
  <2>2. HasRead(d, j) /\ j \in 1..Len(Program(d))
    BY <1>4, <2>1 DEF HasRead
  <2> QED BY <1>1, <2>1, <2>2 DEF FlowInv, ReadsAllowed
<1> QED BY <1>6, <1>7, <1>8

\* Who is about to create a row has just begun, or was about to before.
LEMMA CreationShape ==
    ASSUME IInv, [Next]_vars, NEW c \in Calls, WillCreate(c)'
    PROVE  \/ WillCreate(c) /\ calls'[c].item = Item(c) /\ (Acts(c) => Current(c).op # "create")
           \/ /\ Starts(c) /\ NoEffect /\ rows[calls'[c].item] = None
              /\ \A d \in Calls : Running(d) => Item(d) # calls'[c].item
<1> USE DEF IInv
<1>1. Running(c)' /\ Me' = Me
  BY StepShape DEF WillCreate
<1>2. CASE calls'[c] = calls[c] /\ Running(c) /\ Program(c)' = Program(c)
  <2>1. WillCreate(c) /\ calls'[c].item = Item(c)
    BY <1>2 DEF WillCreate, Item
  <2>2. ~Acts(c)
    <3>1. ASSUME Acts(c) PROVE FALSE
      <4>1. ~Leaves(c)
        BY <1>1 DEF Running, Leaves
      <4>2. calls[c] = Advanced(c) /\ calls[c].pc \in 1..Len(Program(c))
        BY <1>2, <3>1, <4>1, Habits DEF Acts
      <4> QED BY <1>2, <4>2, AdvancedShape DEF Running
    <3> QED BY <3>1
  <2> QED BY <2>1, <2>2
<1>3. CASE /\ Acts(c) /\ Running(c) /\ Program(c)' = Program(c) /\ calls'[c].item = Item(c)
           /\ calls'[c].pc = calls[c].pc + 1 /\ calls[c].pc \in 1..Len(Program(c))
  <2>1. DOMAIN Program(c) = 1..Len(Program(c)) /\ Len(Program(c)) \in Nat
        /\ Current(c) = Program(c)[calls[c].pc]
        /\ calls[c].route \in DOMAIN Me.routes /\ Program(c) = Me.routes[calls[c].route]
    BY <1>3, Habits
  <2>2. PICK k \in (calls[c].pc + 1)..Len(Program(c)) : Program(c)[k].op = "create"
    BY <1>3 DEF WillCreate
  <2>3. WillCreate(c)
    BY <1>3, <2>1, <2>2 DEF WillCreate
  <2>4. CreatesAlone(Me.routes) /\ Creates(Program(c))
    <3>1. Creates(Program(c))
      BY <1>3, <2>1, <2>2 DEF Creates
    <3>2. CreatesAlone(Me.routes)
      BY SubjectAssumption DEF TypeOK, Me
    <3> QED BY <3>1, <3>2
  <2>5. \A j \in DOMAIN Program(c) : Program(c)[j].op \in RowWrites => j = k
    <3>1. k \in DOMAIN Program(c) /\ Program(c)[k].op \in RowWrites
      BY <1>3, <2>1, <2>2 DEF RowWrites
    <3> QED BY <2>1, <2>4, <3>1 DEF CreatesAlone
  <2>6. Current(c).op # "create"
    BY <1>3, <2>1, <2>2, <2>5 DEF RowWrites
  <2> QED BY <1>3, <2>3, <2>6
<1>4. CASE Starts(c)
  <2>1. PICK i \in Items, r \in DOMAIN Me.routes :
            Fresh(r, i) /\ calls'[c] = [st |-> "running", route |-> r, item |-> i, pc |-> 1, seen |-> Blank]
    BY <1>4 DEF Starts
  <2>2. Program(c)' = Me.routes[r] /\ calls'[c].item = i /\ calls'[c].pc = 1
    BY <1>1, <2>1 DEF Program
  <2>3. Me.routes[r] \in Seq(Statement)
    BY SubjectAssumption DEF TypeOK, SubjectType, Me
  <2>4. \E k \in DOMAIN Me.routes[r] : Me.routes[r][k].op = "create"
    BY <2>2, <2>3 DEF WillCreate
  <2>5. rows[i] = None /\ \A d \in Calls : calls[d].st # "idle" => Item(d) # i
    BY <2>1, <2>4 DEF Fresh
  <2>6. \A d \in Calls : Running(d) => Item(d) # i
    BY <2>5 DEF Running
  <2>7. NoEffect
    BY <1>4 DEF Starts
  <2> QED BY <1>4, <2>2, <2>5, <2>6, <2>7
<1> QED BY <1>1, <1>2, <1>3, <1>4, RunningShape

LEMMA CreationsStayFresh ==
    ASSUME IInv, FlowInv, [Next]_vars
    PROVE  CreationsAreFresh'
<1> USE DEF IInv
<1>1. rows \in [Items -> Values] /\ \A c \in Calls : Item(c) \in Items
  BY CallsType DEF TypeOK, GoodCall, Call, Item
<1>2. ASSUME NEW c \in Calls, WillCreate(c)'
      PROVE  rows'[calls'[c].item] = None
  <2>1. CASE NoEffect
    <3>1. rows' = rows
      BY <2>1 DEF NoEffect
    <3> QED BY <1>2, <3>1, CreationShape DEF FlowInv, CreationsAreFresh
  <2>2. ASSUME NEW d \in Calls, Acts(d), Effect(d), ~Rejected(d)
        PROVE  rows'[calls'[c].item] = None
    <3>1. ~Starts(c) \/ NoEffect
      BY DEF Starts
    <3>2. CASE NoEffect
      BY <2>1, <3>2
    <3>3. CASE WillCreate(c) /\ calls'[c].item = Item(c) /\ (Acts(c) => Current(c).op # "create")
      <4>1. Running(d) /\ rows[Item(c)] = None
        BY <2>2, <3>3 DEF Acts, FlowInv, CreationsAreFresh
      <4>2. CASE Item(d) = Item(c)
        BY <2>2, <3>3, <4>1, <4>2, CreationIsLeftAlone
      <4>3. CASE Item(d) # Item(c)
        BY <1>1, <2>2, <3>3, <4>1, <4>3, RowsShape
      <4> QED BY <4>2, <4>3
    <3> QED BY <1>2, <3>1, <3>2, <3>3, CreationShape
  <2>3. ASSUME NEW i \in Items, Lapses(i)
        PROVE  rows'[calls'[c].item] = None
    <3>1. rows' = [rows EXCEPT ![i] = None]
      BY <2>3 DEF Lapses, Expire
    <3>2. CASE WillCreate(c) /\ calls'[c].item = Item(c)
      BY <1>1, <3>1, <3>2 DEF FlowInv, CreationsAreFresh
    <3> QED BY <1>2, <2>1, <3>2, CreationShape
  <2> QED BY <2>1, <2>2, <2>3, StepShape DEF Rests, Starts, Acts
<1>3. ASSUME NEW c \in Calls, WillCreate(c)', NEW d \in Calls, WillCreate(d)',
             calls'[d].item = calls'[c].item
      PROVE  d = c
  <2>1. CASE WillCreate(c) /\ WillCreate(d) /\ calls'[c].item = Item(c) /\ calls'[d].item = Item(d)
    BY <1>3, <2>1 DEF FlowInv, CreationsAreFresh
  <2>2. ASSUME NEW x \in Calls, NEW y \in Calls, WillCreate(x)', WillCreate(y)',
               calls'[x].item = calls'[y].item, Starts(x)
        PROVE  y = x
    <3>1. y # x => calls'[y] = calls[y]
      BY <2>2 DEF Starts
    <3>2. \A e \in Calls : Running(e) => Item(e) # calls'[x].item
      BY <2>2, CreationShape DEF Starts, WillCreate
    <3>3. y # x => Running(y) /\ Item(y) = calls'[x].item
      BY <2>2, <3>1 DEF WillCreate, Running, Item
    <3> QED BY <3>2, <3>3
  <2>3. CASE Starts(c) \/ Starts(d)
    BY <1>3, <2>2, <2>3
  <2> QED BY <1>3, <2>1, <2>3, CreationShape
<1> QED BY <1>2, <1>3 DEF CreationsAreFresh, Item

LEMMA RowsStayInFlow ==
    ASSUME IInv, FlowInv, [Next]_vars
    PROVE  RowsInFlow'
<1>1. Me' = Me /\ rows \in [Items -> Values]
  BY StepShape DEF IInv, TypeOK
<1>2. CASE NoEffect
  BY <1>1, <1>2 DEF NoEffect, FlowInv, RowsInFlow
<1>3. ASSUME NEW c \in Calls, Running(c), Effect(c), ~Rejected(c)
      PROVE  RowsInFlow'
  BY <1>1, <1>3, FlowShape DEF FlowInv, RowsInFlow
<1>4. ASSUME NEW i \in Items, Lapses(i)
      PROVE  RowsInFlow'
  BY <1>1, <1>4 DEF Lapses, Expire, FlowInv, RowsInFlow, Ends
<1> QED BY <1>2, <1>3, <1>4, StepShape DEF Rests, Starts, Acts

\* A row that a request has found and relies on does not expire.
LEMMA ReadsOutlast ==
    ASSUME IInv, [Next]_vars, NEW c \in Calls, Running(c), NEW j \in 1..Len(Program(c)),
           Program(c)[j].op = "read", None \notin Program(c)[j].needs, rows[Item(c)] # None
    PROVE  rows'[Item(c)] # None
<1>1. /\ calls[c].route \in DOMAIN Me.routes /\ Program(c) = Me.routes[calls[c].route]
      /\ j \in DOMAIN Program(c) /\ Item(c) \in Items
  BY Habits, ProgramType DEF IInv
<1>2. FoundKeysMayExpire(Me)
  BY SubjectAssumption DEF IInv, TypeOK, Me
<1>3. Me.expires = {}
  BY <1>1, <1>2 DEF FoundKeysMayExpire
<1>4. ~Lapses(Item(c))
  BY <1>3 DEF Lapses, Expire
<1> QED BY <1>1, <1>4, RowsStay

LEMMA ReadsStayAllowed ==
    ASSUME IInv, FlowInv, [Next]_vars
    PROVE  ReadsAllowed'
<1> USE DEF IInv
<1>1. Me' = Me /\ rows \in [Items -> Values] /\ \A c \in Calls : Item(c) \in Items
  BY StepShape, CallsType DEF TypeOK, GoodCall, Call, Item
<1> SUFFICES ASSUME NEW c \in Calls, NEW j \in 1..Len(Program(c))', HasRead(c, j)'
             PROVE  /\ calls'[c].seen[calls'[c].item] \in (Program(c)')[j].needs
                    /\ None \notin (Program(c)')[j].needs => rows'[calls'[c].item] # None
  BY DEF ReadsAllowed, Item
<1>2. Running(c)' /\ j \in 1..(calls'[c].pc - 1) /\ (Program(c)')[j].op = "read"
  BY DEF HasRead
<1>3. CASE calls'[c] = calls[c] /\ Running(c) /\ Program(c)' = Program(c)
  <2>1. HasRead(c, j) /\ calls'[c].item = Item(c) /\ j \in 1..Len(Program(c))
    BY <1>2, <1>3 DEF HasRead, Item
  <2>2. None \notin Program(c)[j].needs => rows'[Item(c)] # None
    BY <1>2, <1>3, <2>1, ReadsOutlast DEF FlowInv, ReadsAllowed
  <2> QED BY <1>3, <2>1, <2>2 DEF FlowInv, ReadsAllowed
<1>4. CASE Starts(c) /\ calls'[c].pc = 1
  BY <1>2, <1>4
<1>5. CASE /\ Acts(c) /\ Running(c) /\ Program(c)' = Program(c) /\ calls'[c].item = Item(c)
           /\ calls'[c].pc = calls[c].pc + 1 /\ calls'[c].seen = SeenAfter(c)
           /\ calls[c].pc \in 1..Len(Program(c))
           /\ ((Effect(c) /\ ~Rejected(c)) \/ Current(c).fails = "ignore")
  <2>1. /\ KeepsFlow(Program(c), Me.flow) /\ DOMAIN Program(c) = 1..Len(Program(c))
        /\ Current(c) = Program(c)[calls[c].pc] /\ calls[c].pc \in Nat
    BY <1>5, Habits
  <2>2. j \in 1..Len(Program(c)) /\ Program(c)[j].op = "read" /\ j \in 1..calls[c].pc
    BY <1>2, <1>5, <2>1
  <2>3. CASE j \in 1..(calls[c].pc - 1)
    <3>1. HasRead(c, j)
      BY <1>5, <2>2, <2>3 DEF HasRead
    <3>2. Current(c).op \notin {"read", "fetch"}
      <4>1. j \in DOMAIN Program(c) /\ calls[c].pc \in DOMAIN Program(c) /\ calls[c].pc # j
        BY <1>5, <2>1, <2>2, <2>3
      <4> QED BY <2>1, <2>2, <4>1 DEF KeepsFlow
    <3>3. calls'[c].seen = calls[c].seen
      BY <1>5, <3>2 DEF SeenAfter
    <3>4. None \notin Program(c)[j].needs => rows'[Item(c)] # None
      BY <1>5, <2>2, <3>1, ReadsOutlast DEF FlowInv, ReadsAllowed
    <3> QED BY <1>5, <2>2, <3>1, <3>3, <3>4 DEF FlowInv, ReadsAllowed
  <2>4. CASE j = calls[c].pc
    <3>1. Current(c).op = "read" /\ Current(c).fails # "ignore"
      BY <2>1, <2>2, <2>4 DEF KeepsFlow
    <3>2. Effect(c) /\ rows[Item(c)] \in Current(c).needs
      BY <1>5, <3>1 DEF Rejected
    <3>3. SeenAfter(c)[Item(c)] = rows[Item(c)]
      BY <1>1, <3>1 DEF SeenAfter, Blank
    <3>4. None \notin Current(c).needs => rows'[Item(c)] # None
      BY <1>5, <2>1, <2>2, <2>4, <3>2, ReadsOutlast
    <3> QED BY <1>5, <2>1, <2>4, <3>2, <3>3, <3>4
  <2> QED BY <2>1, <2>2, <2>3, <2>4
<1> QED BY <1>2, <1>3, <1>4, <1>5, RunningShape

LEMMA FlowStarts == Init => FlowInv
<1> SUFFICES ASSUME Init PROVE FlowInv
  OBVIOUS
<1>1. \A c \in Calls : calls[c].st = "idle"
  BY DEF Init, Idle
<1>2. RowsInFlow
  BY DEF Init, RowsInFlow, Me, Ends
<1> QED BY <1>1, <1>2 DEF FlowInv, CreationsAreFresh, WillCreate, ReadsAllowed, HasRead, Running

LEMMA FlowStays ==
    ASSUME IInv, FlowInv, [Next]_vars
    PROVE  FlowInv'
BY RowsStayInFlow, CreationsStayFresh, ReadsStayAllowed DEF FlowInv

LEMMA FlowIsKept ==
    ASSUME IInv, FlowInv, [Next]_vars, NEW i \in Items
    PROVE  \/ rows'[i] = rows[i] \/ <<rows[i], rows'[i]>> \in Me.flow
           \/ rows[i] \in Me.expires /\ rows'[i] = None
           \/ \E c \in Calls : Item(c) = i /\ Overtaken(c)
<1>1. rows \in [Items -> Values]
  BY DEF IInv, TypeOK
<1>2. CASE NoEffect
  BY <1>2 DEF NoEffect
<1>3. ASSUME NEW c \in Calls, Acts(c), Effect(c), ~Rejected(c), rows'[i] # rows[i]
      PROVE  <<rows[i], rows'[i]>> \in Me.flow \/ (Item(c) = i /\ Overtaken(c))
  <2>1. Running(c) /\ calls'[c] # calls[c]
    BY <1>3, ActingMoves DEF Acts
  <2>2. /\ rows' = [rows EXCEPT ![Item(c)] = Current(c).to]
        /\ \/ rows[Item(c)] = Current(c).to
           \/ <<rows[Item(c)], Current(c).to>> \in Me.flow
           \/ \E k \in 1..(calls[c].pc - 1) :
                  Program(c)[k].op = "read" /\ calls[c].seen[Item(c)] # rows[Item(c)]
    BY <1>3, <2>1, FlowShape
  <2>3. Item(c) = i /\ rows'[i] = Current(c).to
    BY <1>1, <1>3, <2>2
  <2> QED BY <1>3, <2>1, <2>2, <2>3 DEF Overtaken
<1>4. ASSUME NEW j \in Items, Lapses(j), rows'[i] # rows[i]
      PROVE  rows[i] \in Me.expires /\ rows'[i] = None
  BY <1>1, <1>4 DEF Lapses, Expire
<1> QED BY <1>2, <1>3, <1>4, StepShape DEF Rests, Starts, Acts

-----------------------------------------------------------------------------
(* What a page shows.  At most one load is on its way, since the next aborts *)
(* it; what is shown is from before what that load has got, and that is from *)
(* before what the row is now.                                               *)

OneLoad == \A c, d \in Calls : Loading(c) /\ Loading(d) => c = d

ShownIsPast ==
    \A i \in Items : /\ memory[i] \in Ends(Me.flow)
                     /\ memory[i] = None \/ Leads(Me.flow, memory[i], rows[i])

LoadedIsBetween ==
    \A c \in Calls : Running(c) /\ Current(c).op = "show" => \A i \in Items :
        /\ calls[c].seen[i] \in Ends(Me.flow)
        /\ Leads(Me.flow, calls[c].seen[i], rows[i])
        /\ memory[i] = None \/ Leads(Me.flow, memory[i], calls[c].seen[i])

ShownInv == subject \in AbortingPages => OneLoad /\ ShownIsPast /\ LoadedIsBetween

LEMMA LeadsHere == \A flow, v : Leads(flow, v, v)
BY DEF Leads

LEMMA LeadsOn ==
    ASSUME NEW flow, NEW v, NEW w, NEW x, Leads(flow, v, w), <<w, x>> \in flow \/ w = x
    PROVE  Leads(flow, v, x)
<1>1. CASE <<w, x>> \in flow
  <2> SUFFICES ASSUME NEW S \in SUBSET Ends(flow), v \in S, \A e \in flow : e[1] \in S => e[2] \in S
               PROVE  x \in S
    BY DEF Leads
  <2>1. w \in S
    BY DEF Leads
  <2>2. <<w, x>>[1] \in S => <<w, x>>[2] \in S
    BY <1>1
  <2> QED BY <2>1, <2>2
<1> QED BY <1>1

\* No status comes before there is a row.
LEMMA NothingLeadsToNone ==
    ASSUME NEW flow, Onward(flow), NEW v \in Ends(flow), v # None
    PROVE  ~Leads(flow, v, None)
<1> DEFINE S == Ends(flow) \ {None}
<1>1. S \in SUBSET Ends(flow) /\ v \in S /\ None \notin S
  OBVIOUS
<1>2. \A e \in flow : e[2] \in S
  BY DEF Onward, Ends
<1> QED BY <1>1, <1>2 DEF Leads

\* What the programs of such a page have in common.
LEMMA PageHabits ==
    ASSUME IInv, subject \in AbortingPages
    PROVE  /\ Me.page /\ Onward(Me.flow) /\ Me.expires = {}
           /\ \A r \in DOMAIN Me.routes : LoadsAndShows(Me.routes[r])
           /\ \A c \in Calls : Running(c) => LoadsAndShows(Program(c))
<1>1. /\ Me.page /\ Onward(Me.flow) /\ Me.expires = {}
      /\ \A r \in DOMAIN Me.routes : LoadsAndShows(Me.routes[r])
  BY SubjectAssumption DEF AbortingPages, Me
<1>2. \A c \in Calls : Running(c) => LoadsAndShows(Program(c))
  BY <1>1, Habits DEF IInv
<1> QED BY <1>1, <1>2

\* The rows behind such a page move on.
LEMMA RowsMoveOn ==
    ASSUME IInv, FlowInv, [Next]_vars, subject \in AbortingPages, NEW i \in Items, NEW v,
           Leads(Me.flow, v, rows[i])
    PROVE  Leads(Me.flow, v, rows'[i])
<1>1. ASSUME NEW c \in Calls, Overtaken(c) PROVE FALSE
  <2>1. Running(c) /\ \E k \in 1..(calls[c].pc - 1) : Program(c)[k].op = "read"
    BY <1>1 DEF Overtaken
  <2>2. /\ calls[c].pc \in 1..Len(Program(c)) /\ DOMAIN Program(c) = 1..Len(Program(c))
        /\ LoadsAndShows(Program(c))
    BY <2>1, Habits, PageHabits DEF IInv
  <2> QED BY <2>1, <2>2 DEF LoadsAndShows
<1>2. rows'[i] = rows[i] \/ <<rows[i], rows'[i]>> \in Me.flow
  BY <1>1, FlowIsKept, PageHabits
<1> QED BY <1>2, LeadsOn

\* Only an answer changes what is shown.
LEMMA MemoryShape ==
    ASSUME IInv, [Next]_vars, subject \in AbortingPages
    PROVE  \/ memory' = memory
           \/ \E c \in Calls : /\ Running(c) /\ Acts(c) /\ Current(c).op = "show"
                               /\ memory' = calls[c].seen /\ rows' = rows
<1>1. ASSUME NEW c \in Calls, Running(c)
      PROVE  /\ Current(c).op # "show" => MemoryAfter(c) = memory
             /\ Current(c).op = "show" => MemoryAfter(c) = calls[c].seen /\ RowsAfter(c) = rows
  <2>1. /\ LoadsAndShows(Program(c)) /\ calls[c].pc \in DOMAIN Program(c)
        /\ Current(c) = Program(c)[calls[c].pc]
    BY <1>1, Habits, PageHabits DEF IInv
  <2>2. /\ Current(c).keeps = None /\ Current(c).op # "forget"
        /\ Current(c).op = "show" => ~Current(c).only
    BY <2>1 DEF LoadsAndShows
  <2> QED BY <2>2 DEF MemoryAfter, RowsAfter
<1>2. ASSUME NEW c \in Calls, Perform(c)
      PROVE  \/ memory' = memory
             \/ Running(c) /\ Acts(c) /\ Current(c).op = "show" /\ memory' = calls[c].seen /\ rows' = rows
  <2>1. Running(c) /\ memory' = MemoryAfter(c) /\ rows' = RowsAfter(c) /\ calls'[c] = Advanced(c)
    BY <1>2 DEF Perform, Effect
  <2>2. CASE Current(c).op # "show"
    BY <1>1, <2>1, <2>2
  <2>3. CASE Current(c).op = "show"
    <3>1. \A d \in Calls : d # c => calls'[d] = calls[d]
      BY <1>2, <2>3 DEF Perform
    <3> QED BY <1>1, <1>2, <2>1, <2>3, <3>1 DEF Acts, Perform
  <2> QED BY <2>2, <2>3
<1>3. ASSUME NEW c \in Calls, Fails(c), memory' = MemoryAfter(c)
      PROVE  memory' = memory
  BY <1>1, <1>3 DEF Fails, Immediate
<1>4. Down => memory' = memory
  BY PageHabits DEF Down
<1>5. ASSUME NEW c \in Calls, FailsCaught(c) \/ FailsIgnored(c) \/ FailsUncaught(c) \/ Refuse(c)
      PROVE  memory' = memory
  BY <1>3, <1>4, <1>5 DEF FailsCaught, FailsIgnored, FailsUncaught, Refuse
<1>6. ASSUME NEW c \in Calls, NEW i \in Items, NEW r \in DOMAIN Me.routes, Begin(c, r, i)
      PROVE  memory' = memory
  BY <1>6 DEF Begin
<1>7. Restart => memory' = memory
  BY <1>4 DEF Restart
<1>8. (\E i \in Items : Expire(i)) \/ UNCHANGED vars => memory' = memory
  BY DEF Expire, vars
<1> QED BY <1>2, <1>5, <1>6, <1>7, <1>8 DEF Next, Step

\* A request that goes on from an abort has given up every load under way.
LEMMA AbortShape ==
    ASSUME IInv, [Next]_vars, NEW d \in Calls, Acts(d), Running(d)', Current(d).op = "abort",
           NEW e \in Calls, e # d, Loading(e)
    PROVE  Leaves(e)
<1>1. ~Leaves(d) /\ calls'[d] # calls[d] /\ Running(d)
  BY ActingMoves DEF Acts, Running, Leaves
<1>2. \A c \in Calls : GivenUp(c).st \notin {"running", "ok"}
  BY DEF GivenUp, Idle
<1>3. ASSUME NEW c \in Calls, Perform(c) PROVE Leaves(e)
  <2>1. c = d
    BY <1>1, <1>2, <1>3 DEF Perform, Leaves
  <2> QED BY <1>2, <1>3, <2>1 DEF Perform, Leaves
<1>4. ASSUME NEW c \in Calls, calls' = [calls EXCEPT ![c] = GivenUp(c)] PROVE FALSE
  BY <1>1, <1>2, <1>4 DEF Leaves, IInv, TypeOK
<1>5. ASSUME Down PROVE FALSE
  BY <1>1, <1>2, <1>5 DEF Down, Leaves
<1>6. ASSUME NEW c \in Calls, Fails(c), calls' = [calls EXCEPT ![c] = Advanced(c)] PROVE FALSE
  <2>1. c = d
    BY <1>1, <1>6 DEF IInv, TypeOK
  <2> QED BY <1>6, <2>1 DEF Fails, Immediate
<1>7. ASSUME NEW c \in Calls, Step(c) PROVE Leaves(e)
  BY <1>3, <1>4, <1>5, <1>6, <1>7 DEF Step, Refuse, FailsCaught, FailsIgnored, FailsUncaught
<1>8. ASSUME NEW c \in Calls, NEW i \in Items, NEW r \in DOMAIN Me.routes, Begin(c, r, i)
      PROVE  FALSE
  <2>1. c # d /\ calls'[d] = calls[d]
    BY <1>1, <1>8 DEF Begin, Free, Running, IInv, TypeOK
  <2> QED BY <1>1, <2>1
<1>9. ~Restart /\ (\A i \in Items : ~Expire(i)) /\ ~UNCHANGED vars
  BY <1>1, <1>2, <1>5 DEF Restart, Expire, Leaves, vars
<1> QED BY <1>7, <1>8, <1>9 DEF Next

\* A load is where it was, has just aborted the one before, or got its answer.
LEMMA LoadShape ==
    ASSUME IInv, [Next]_vars, subject \in AbortingPages, NEW d \in Calls, Loading(d)'
    PROVE  \/ calls'[d] = calls[d] /\ Loading(d) /\ (Current(d).op)' = Current(d).op
           \/ Acts(d) /\ Running(d)' /\ Current(d).op = "abort" /\ (Current(d).op)' = "fetch"
           \/ /\ Acts(d) /\ Running(d)' /\ Loading(d) /\ Current(d).op = "fetch"
              /\ calls'[d].seen = rows
<1> USE DEF IInv
<1>1. Running(d)' /\ (Current(d).op)' \in {"fetch", "show"} /\ Me' = Me
  BY StepShape DEF Loading
<1>2. CASE calls'[d] = calls[d] /\ Running(d) /\ Program(d)' = Program(d)
  BY <1>1, <1>2 DEF Loading, Current
<1>3. CASE Starts(d) /\ calls'[d].pc = 1
  <2>1. PICK r \in DOMAIN Me.routes : calls'[d].route = r
    BY <1>3 DEF Starts
  <2>2. LoadsAndShows(Me.routes[r]) /\ Me.routes[r] \in Seq(Statement) /\ Me.routes[r] # <<>>
    BY PageHabits, SubjectAssumption DEF TypeOK, SubjectType, Me
  <2>3. 1 \in DOMAIN Me.routes[r] /\ (Current(d).op)' = Me.routes[r][1].op
    BY <1>1, <1>3, <2>1, <2>2 DEF Current, Program
  <2> QED BY <1>1, <2>2, <2>3 DEF LoadsAndShows
<1>4. CASE /\ Acts(d) /\ Running(d) /\ Program(d)' = Program(d)
           /\ calls'[d].pc = calls[d].pc + 1 /\ calls'[d].seen = SeenAfter(d)
           /\ calls[d].pc \in 1..Len(Program(d))
  <2> DEFINE k == calls[d].pc
  <2>1. /\ LoadsAndShows(Program(d)) /\ DOMAIN Program(d) = 1..Len(Program(d))
        /\ Len(Program(d)) \in Nat /\ Current(d) = Program(d)[k]
    BY <1>4, PageHabits, Habits
  <2>2. (Current(d).op)' = Program(d)[k + 1].op
    BY <1>4 DEF Current
  <2>3. k + 1 \in DOMAIN Program(d)
    <3>1. ~Leaves(d)
      BY <1>1 DEF Running, Leaves
    <3>2. calls'[d] = Advanced(d)
      BY <1>4, <3>1 DEF Acts
    <3> QED BY <1>1, <1>4, <2>1, <3>2, AdvancedShape DEF Running
  <2>4. (k + 1) - 1 = k
    BY <1>4
  <2>5. /\ Program(d)[k + 1].op = "fetch" => Program(d)[k].op = "abort"
        /\ Program(d)[k + 1].op = "show" => Program(d)[k].op = "fetch"
        /\ Program(d)[k].op = "fetch" => ~Program(d)[k].only
    BY <1>4, <2>1, <2>3, <2>4 DEF LoadsAndShows
  <2>6. CASE Program(d)[k + 1].op = "fetch"
    BY <1>1, <1>4, <2>1, <2>2, <2>5, <2>6
  <2>7. CASE Program(d)[k + 1].op = "show"
    <3>1. Current(d).op = "fetch" /\ ~Current(d).only
      BY <2>1, <2>5, <2>7
    <3>2. SeenAfter(d) = rows
      BY <3>1 DEF SeenAfter
    <3> QED BY <1>1, <1>4, <3>1, <3>2 DEF Loading
  <2> QED BY <1>1, <2>2, <2>6, <2>7
<1> QED BY <1>2, <1>3, <1>4, RunningShape, <1>1

LEMMA OneLoadStays ==
    ASSUME IInv, [Next]_vars, subject \in AbortingPages, OneLoad
    PROVE  OneLoad'
<1> SUFFICES ASSUME NEW c \in Calls, NEW d \in Calls, Loading(c)', Loading(d)', c # d
             PROVE  FALSE
  BY DEF OneLoad
<1>1. Running(c)' /\ Running(d)'
  BY DEF Loading
<1>2. ~(Loading(c) /\ Loading(d))
  BY DEF OneLoad
<1>3. ~(Acts(c) /\ Acts(d))
  BY <1>1, OneActs
<1>4. ~(Acts(c) /\ Current(c).op = "abort" /\ Loading(d))
  BY <1>1, AbortShape DEF Running, Leaves
<1>5. ~(Acts(d) /\ Current(d).op = "abort" /\ Loading(c))
  BY <1>1, AbortShape DEF Running, Leaves
<1> QED BY <1>2, <1>3, <1>4, <1>5, LoadShape

LEMMA ShownStays ==
    ASSUME IInv, FlowInv, ShownInv, [Next]_vars
    PROVE  ShownInv'
<1>1. subject' = subject /\ Me' = Me
  BY StepShape
<1>2. SUFFICES ASSUME subject \in AbortingPages
               PROVE  OneLoad' /\ ShownIsPast' /\ LoadedIsBetween'
  BY <1>1 DEF ShownInv, AbortingPages
<1>3. OneLoad /\ ShownIsPast /\ LoadedIsBetween
  BY <1>2 DEF ShownInv
<1>4. OneLoad'
  BY <1>2, <1>3, OneLoadStays
<1>5. ShownIsPast'
  <2>1. CASE memory' = memory
    BY <1>1, <1>2, <1>3, <2>1, RowsMoveOn DEF ShownIsPast
  <2>2. ASSUME NEW c \in Calls, Running(c), Current(c).op = "show",
               memory' = calls[c].seen, rows' = rows
        PROVE  ShownIsPast'
    BY <1>1, <1>3, <2>2 DEF ShownIsPast, LoadedIsBetween
  <2> QED BY <1>2, <2>1, <2>2, MemoryShape
<1>6. LoadedIsBetween'
  <2> SUFFICES ASSUME NEW c \in Calls, Running(c)', (Current(c).op)' = "show", NEW i \in Items
               PROVE  /\ calls'[c].seen[i] \in Ends(Me.flow)
                      /\ Leads(Me.flow, calls'[c].seen[i], rows'[i])
                      /\ memory'[i] = None \/ Leads(Me.flow, memory'[i], calls'[c].seen[i])
    BY <1>1 DEF LoadedIsBetween
  <2>1. Loading(c)'
    BY DEF Loading
  <2>2. CASE calls'[c] = calls[c] /\ Loading(c) /\ Current(c).op = "show"
    <3>1. memory' = memory
      <4>1. ASSUME NEW e \in Calls, Running(e), Acts(e), Current(e).op = "show" PROVE FALSE
        <5>1. Loading(e)
          BY <4>1 DEF Loading
        <5>2. e = c
          BY <1>3, <2>2, <5>1 DEF OneLoad
        <5> QED BY <2>2, <4>1, <5>2, ActingMoves
      <4> QED BY <1>2, <4>1, MemoryShape
    <3>2. /\ calls[c].seen[i] \in Ends(Me.flow) /\ Leads(Me.flow, calls[c].seen[i], rows[i])
          /\ memory[i] = None \/ Leads(Me.flow, memory[i], calls[c].seen[i])
      BY <1>3, <2>2 DEF LoadedIsBetween, Loading
    <3>3. Leads(Me.flow, calls[c].seen[i], rows'[i])
      BY <1>2, <3>2, RowsMoveOn
    <3> QED BY <2>2, <3>1, <3>2, <3>3
  <2>3. CASE Acts(c) /\ Loading(c) /\ Current(c).op = "fetch" /\ calls'[c].seen = rows
    <3>1. memory' = memory
      <4>1. ASSUME NEW e \in Calls, Running(e), Current(e).op = "show" PROVE FALSE
        <5>1. Loading(e)
          BY <4>1 DEF Loading
        <5>2. e = c
          BY <1>3, <2>3, <5>1 DEF OneLoad
        <5> QED BY <2>3, <4>1, <5>2
      <4> QED BY <1>2, <4>1, MemoryShape
    <3>2. rows[i] \in Ends(Me.flow) /\ (memory[i] = None \/ Leads(Me.flow, memory[i], rows[i]))
      BY <1>3 DEF FlowInv, RowsInFlow, ShownIsPast
    <3>3. Leads(Me.flow, rows[i], rows'[i])
      BY <1>2, LeadsHere, RowsMoveOn
    <3> QED BY <2>3, <3>1, <3>2, <3>3
  <2> QED BY <1>2, <2>1, <2>2, <2>3, LoadShape
<1> QED BY <1>4, <1>5, <1>6

LEMMA ShownStarts == Init => ShownInv
<1> SUFFICES ASSUME Init PROVE ShownInv
  OBVIOUS
<1>1. \A c \in Calls : ~Running(c)
  BY DEF Init, Idle, Running
<1>2. \A i \in Items : memory[i] = None /\ None \in Ends(Me.flow)
  BY DEF Init, Blank, Ends
<1> QED BY <1>1, <1>2 DEF ShownInv, OneLoad, Loading, ShownIsPast, LoadedIsBetween

LEMMA ShownGoesOn ==
    ASSUME IInv, FlowInv, ShownInv, [Next]_vars, subject \in AbortingPages, NEW i \in Items
    PROVE  GoesOn(i)
<1>1. CASE memory' = memory
  BY <1>1 DEF GoesOn
<1>2. ASSUME NEW c \in Calls, Running(c), Current(c).op = "show", memory' = calls[c].seen,
             memory'[i] # memory[i], Leads(Me.flow, memory'[i], memory[i])
      PROVE  FALSE
  <2>1. /\ memory'[i] \in Ends(Me.flow) /\ memory[i] \in Ends(Me.flow)
        /\ memory[i] = None \/ Leads(Me.flow, memory[i], memory'[i])
    BY <1>2 DEF ShownInv, ShownIsPast, LoadedIsBetween
  <2>2. Onward(Me.flow)
    BY PageHabits
  <2>3. CASE memory[i] = None
    BY <1>2, <2>1, <2>2, <2>3, NothingLeadsToNone
  <2>4. CASE Leads(Me.flow, memory[i], memory'[i])
    BY <1>2, <2>1, <2>2, <2>4 DEF Onward
  <2> QED BY <2>1, <2>3, <2>4
<1> QED BY <1>1, <1>2, MemoryShape DEF GoesOn

\* The type invariant of services and pages: rows, Maps, announcements and
\* requests stay well formed, whatever fails.
THEOREM TypeCorrect == Spec => []TypeOK
<1>1. IInv => TypeOK
  BY DEF IInv
<1> QED BY <1>1, InitHolds, StepKeeps, PTL DEF Spec

\* Whoever is told of an SOS, an evacuation, a case, a report, a location, a
\* threat, a stock or an offer finds it recorded: for any programs that record
\* before they announce, any rows, any number of requests, failed statements,
\* lost answers and restarts.  (emergency.ts:84)
THEOREM AnnouncementsAreRecorded == Spec => []AnnouncedIsRecorded
<1>1. IInv => AnnouncedIsRecorded
  BY DEF IInv
<1> QED BY <1>1, InitHolds, StepKeeps, PTL DEF Spec

\* A key is claimed once for as long as it is there: a ticket is scanned and an
\* address registered with success once, and an offer is delivered and pushed
\* once before its key expires: for any programs that claim a key by an INSERT,
\* any number of requests at once, keys that expire any number of times, and
\* whatever fails or is tried again.  (entry.ts:104, auth.ts:69, offers.py:48)
THEOREM ClaimedOnce == Spec => []OnceOnly
<1>1. OnceInv => OnceOnly
  <2>1. \A c \in Calls : Claims(c) => Passed(c)
    BY DEF Passed
  <2> QED BY <2>1 DEF OnceInv, PassedAlone, OfferedOnce, OnceOnly
<1>2. IInv /\ OnceInv /\ [Next]_vars => OnceInv'
  BY PassedStays, OfferedStays DEF OnceInv
<1> QED BY <1>1, <1>2, InitHolds, StepKeeps, OnceStarts, PTL DEF Spec

\* As long as nothing failed, the evacuation the coordinator answers with is the
\* one announced last, whatever the order in which any number of requests write
\* their audit rows, publish and return.  (emergency.ts:87)
THEOREM LastEvacuationIsActive == Spec => []ActiveIsAnnounced
<1>1. EvacuationInv => ActiveIsAnnounced
  BY DEF EvacuationInv
<1>2. IInv /\ EvacuationInv /\ [Next]_vars => EvacuationInv'
  BY EvacuationStays
<1> QED BY <1>1, <1>2, InitHolds, StepKeeps, EvacuationStarts, PTL DEF Spec

\* A row changes along the life cycle its service documents, or expires, or is
\* changed by a request that another has overtaken since it read the row: for any programs whose
\* writes are steps of that life cycle by what they check themselves, any number
\* of requests, and whatever fails.  (events.ts:122, orders.ts:123)
THEOREM LifecyclesAreKept == Spec => LifecycleIsKept
<1>1. IInv /\ FlowInv /\ [Next]_vars => FlowInv'
  BY FlowStays
<1>2. IInv /\ FlowInv /\ [Next]_vars =>
          [\A i \in Items :
              \/ rows'[i] = rows[i] \/ <<rows[i], rows'[i]>> \in Me.flow
              \/ rows[i] \in Me.expires /\ rows'[i] = None
              \/ \E c \in Calls : Item(c) = i /\ Overtaken(c)]_vars
  BY FlowIsKept
<1> QED BY <1>1, <1>2, InitHolds, StepKeeps, FlowStarts, PTL DEF Spec, LifecycleIsKept

\* A page that aborts a load when it starts another shows a row only further on
\* in a life cycle that never comes back: for any such page, any number of loads
\* and saves at once, and answers that come in any order or not at all.
\* (useApi.ts:52)
THEOREM PagesShowInOrder == Spec => ShownInOrder
<1>1. IInv /\ FlowInv /\ [Next]_vars => FlowInv'
  BY FlowStays
<1>2. IInv /\ FlowInv /\ ShownInv /\ [Next]_vars => ShownInv'
  BY ShownStays
<1>3. IInv /\ FlowInv /\ ShownInv /\ [Next]_vars =>
          [\A i \in Items : subject \in AbortingPages => GoesOn(i)]_vars
  BY ShownGoesOn
<1> QED BY <1>1, <1>2, <1>3, InitHolds, StepKeeps, FlowStarts, ShownStarts, PTL DEF Spec, ShownInOrder

-----------------------------------------------------------------------------
(* Recursion over an initial part of the naturals.  A recursive function   *)
(* is a CHOOSE; these lemmas say that there is something to choose.        *)

LEMMA SmallestIn ==
  ASSUME NEW T \in SUBSET Nat, T # {}
  PROVE  \E m \in T : \A k \in T : m <= k
<1>1. IsWellFoundedOn(OpToRel(<, Nat), Nat)
  BY NatLessThanWellFounded
<1>2. PICK m \in T : \A k \in T : <<k, m>> \notin OpToRel(<, Nat)
  BY <1>1, WFMin
<1>3. \A k \in T : ~(k < m)
  BY <1>2 DEF OpToRel
<1> QED  BY <1>3

\* The step function F, numbered by its turns, iterated n times from s0.
Iteration(g, n, S, s0, F) ==
  g \in [0..n -> S] /\ g[0] = s0 /\ \A k \in 1..n : g[k] = F[k][g[k - 1]]

LEMMA Iterates ==
  ASSUME NEW n \in Nat, NEW S, NEW s0 \in S, NEW F \in [1..n -> [S -> S]]
  PROVE  \E g : Iteration(g, n, S, s0, F)
<1> USE DEF Iteration
<1> DEFINE Good(m, g) == Iteration(g, m, S, s0, F)
           B == {m \in 0..n : ~ \E g : Good(m, g)}
<1>1. SUFFICES ASSUME B # {} PROVE FALSE
  <2>1. n \in 0..n
    OBVIOUS
  <2> QED  BY <2>1
<1>2. PICK m \in B : \A k \in B : m <= k
  <2>1. B \in SUBSET Nat
    OBVIOUS
  <2> HIDE DEF B
  <2> QED  BY <1>1, <2>1, SmallestIn
<1>3. m \in 0..n /\ ~ \E g : Good(m, g)
  OBVIOUS
<1>4. m # 0
  <2>1. Good(0, [k \in 0..0 |-> s0])
    OBVIOUS
  <2> QED  BY <1>3, <2>1
<1>5. PICK g : Good(m - 1, g)
  <2>1. m - 1 \in 0..n /\ ~ (m <= m - 1)
    BY <1>3, <1>4
  <2>2. m - 1 \notin B
    BY <1>2, <2>1
  <2> QED  BY <2>1, <2>2
<1> DEFINE h == [k \in 0..m |-> IF k = m THEN F[m][g[m - 1]] ELSE g[k]]
<1>6. Good(m, h)
  <2>1. m \in 1..n /\ m - 1 \in 0..(m - 1) /\ g \in [0..(m - 1) -> S]
    BY <1>3, <1>4, <1>5
  <2>2. F[m][g[m - 1]] \in S
    BY <2>1
  <2>3. h \in [0..m -> S]
    BY <2>1, <2>2
  <2>4. h[0] = s0
    BY <1>4, <1>5, <2>1
  <2>5. ASSUME NEW k \in 1..m PROVE h[k] = F[k][h[k - 1]]
    <3>1. CASE k = m
      BY <2>1, <3>1
    <3>2. CASE k # m
      <4>1. k \in 1..(m - 1) /\ k - 1 \in 0..m /\ k - 1 # m /\ k \in 0..m
        BY <2>1, <3>2
      <4> QED  BY <1>5, <3>2, <4>1
    <3> QED  BY <3>1, <3>2
  <2> QED  BY <2>3, <2>4, <2>5
<1> HIDE DEF h, Good
<1> QED  BY <1>3, <1>6

-----------------------------------------------------------------------------
(* What a step of a route costs.                                           *)

LEMMA MinIs ==
  ASSUME NEW S \in SUBSET Nat, S # {}
  PROVE  Min(S) \in S /\ \A y \in S : Min(S) <= y
<1>1. PICK m \in S : \A y \in S : m <= y
  BY SmallestIn
<1> QED  BY <1>1 DEF Min

\* The edges that are left to a search are between nodes and have a length.
Metric(E) == \A e \in E : e.ends \subseteq Nodes /\ e.distanceMeters \in Nat

LEMMA UsableIsMetric ==
  ASSUME NEW g \in Graphs, NEW a PROVE Metric(Usable(g, a))
  BY GraphAssumption DEF Metric, Usable

LEMMA MetresOf ==
  ASSUME NEW E, Metric(E), NEW u, NEW v, Between(E, u, v) # {}
  PROVE  Min(Between(E, u, v)) \in Nat
<1>1. Between(E, u, v) \in SUBSET Nat
  BY DEF Between, Metric
<1> QED  BY <1>1, MinIs

LEMMA CostOf ==
  ASSUME NEW E, Metric(E), NEW R, NEW u, NEW v
  PROVE  /\ EdgeCost(E, R, u, v) \in Nat
         /\ EdgeCost(E, R, u, v) < INFINITY
              => /\ v \notin R /\ Between(E, u, v) # {}
                 /\ EdgeCost(E, R, u, v) = Min(Between(E, u, v))
         /\ u # v /\ v \notin R /\ Between(E, u, v) # {}
              => EdgeCost(E, R, u, v) = Min(Between(E, u, v))
<1> DEFINE m == Min(Between(E, u, v))
<1>1. Between(E, u, v) # {} => m \in Nat
  BY MetresOf
<1> DEFINE base == IF u = v \/ Between(E, u, v) = {} THEN INFINITY ELSE m
           more == IF v \in R THEN INFINITY ELSE 0
<1>2. EdgeCost(E, R, u, v) = base + more
  BY DEF EdgeCost
<1> HIDE DEF m
<1>3. INFINITY \in Nat
  BY GraphAssumption
<1>4. more \in {0, INFINITY} /\ (v \notin R <=> more = 0)
  BY <1>3, GraphAssumption
<1>5. CASE u = v \/ Between(E, u, v) = {}
  <2>1. base = INFINITY
    BY <1>5
  <2> HIDE DEF base, more
  <2>2. EdgeCost(E, R, u, v) \in Nat /\ ~ (EdgeCost(E, R, u, v) < INFINITY)
    BY <1>2, <1>3, <1>4, <2>1
  <2> QED  BY <1>5, <2>2
<1>6. CASE u # v /\ Between(E, u, v) # {}
  <2>1. base = m /\ m \in Nat
    BY <1>1, <1>6
  <2> HIDE DEF base, more
  <2>2. EdgeCost(E, R, u, v) \in Nat
    BY <1>2, <1>3, <1>4, <2>1
  <2>3. v \in R => ~ (EdgeCost(E, R, u, v) < INFINITY)
    BY <1>2, <1>3, <1>4, <2>1
  <2>4. v \notin R => EdgeCost(E, R, u, v) = m
    BY <1>2, <1>4, <2>1
  <2> QED  BY <1>6, <2>2, <2>3, <2>4 DEF m
<1> QED  BY <1>5, <1>6

-----------------------------------------------------------------------------
(* The turns of the loop.                                                  *)

N == Cardinality(Nodes)

LEMMA NodeCount == N \in Nat /\ N > 0
<1>1. N \in Nat /\ (N = 0 <=> Nodes = {})
  BY GraphAssumption, FS_CardinalityType, FS_EmptySet DEF N
<1> QED  BY <1>1, GraphAssumption

SearchStates == [dist : [Nodes -> 0..INFINITY], prev : [Nodes -> Nodes \cup {NoNode}],
                 queue : SUBSET Nodes]

\* What a turn looks at and what it changes.
Reached(s) == {n \in s.queue : s.dist[n] < INFINITY}
Closest(s) == CHOOSE n \in Reached(s) : \A m \in Reached(s) : s.dist[n] <= s.dist[m]
Stopped(s) == Reached(s) = {} \/ Closest(s) = To
Via(E, R, s, v) == s.dist[Closest(s)] + EdgeCost(E, R, Closest(s), v)
Closer(E, R, s) == {v \in s.queue \ {Closest(s)} : Via(E, R, s, v) < s.dist[v]}

LEMMA ClosestIs ==
  ASSUME NEW s \in SearchStates, Reached(s) # {}
  PROVE  /\ Closest(s) \in s.queue /\ Closest(s) \in Nodes /\ s.dist[Closest(s)] < INFINITY
         /\ \A q \in s.queue : s.dist[Closest(s)] <= s.dist[q]
<1> DEFINE D == {s.dist[n] : n \in Reached(s)}
<1>1. Reached(s) \subseteq Nodes /\ INFINITY \in Nat
  BY GraphAssumption DEF Reached, SearchStates
<1>2. \A n \in Nodes : s.dist[n] \in Nat /\ s.dist[n] <= INFINITY
  BY GraphAssumption DEF SearchStates
<1>3. D \in SUBSET Nat /\ D # {}
  BY <1>1, <1>2
<1>4. PICK d \in D : \A e \in D : d <= e
  BY <1>3, SmallestIn
<1>5. \E n \in Reached(s) : \A m \in Reached(s) : s.dist[n] <= s.dist[m]
  BY <1>4
<1>6. Closest(s) \in Reached(s) /\ \A m \in Reached(s) : s.dist[Closest(s)] <= s.dist[m]
  BY <1>5 DEF Closest
<1>7. ASSUME NEW q \in s.queue PROVE s.dist[Closest(s)] <= s.dist[q]
  <2>1. q \in Nodes /\ Closest(s) \in Nodes /\ s.dist[Closest(s)] < INFINITY
    BY <1>1, <1>6 DEF SearchStates, Reached
  <2>2. CASE q \in Reached(s)
    BY <1>6, <2>2
  <2>3. CASE q \notin Reached(s)
    BY <1>1, <1>2, <2>1, <2>3 DEF Reached
  <2> QED  BY <2>2, <2>3
<1> QED  BY <1>1, <1>6, <1>7 DEF Reached

LEMMA TurnIs ==
  ASSUME NEW E, NEW R, NEW s
  PROVE  Settle(E, R, s) =
           IF Stopped(s) THEN s
           ELSE [dist |-> [n \in Nodes |-> IF n \in Closer(E, R, s) THEN Via(E, R, s, n)
                                           ELSE s.dist[n]],
                 prev |-> [n \in Nodes |-> IF n \in Closer(E, R, s) THEN Closest(s)
                                           ELSE s.prev[n]],
                 queue |-> s.queue \ {Closest(s)}]
  BY DEF Settle, Stopped, Reached, Closest, Via, Closer

LEMMA ViaIs ==
  ASSUME NEW E, Metric(E), NEW R, NEW s \in SearchStates, Reached(s) # {}, NEW v \in Nodes
  PROVE  /\ Via(E, R, s, v) \in Nat /\ s.dist[Closest(s)] <= Via(E, R, s, v)
         /\ v \in Closer(E, R, s) => Via(E, R, s, v) < INFINITY
<1>1. s.dist[Closest(s)] \in Nat /\ EdgeCost(E, R, Closest(s), v) \in Nat
  BY ClosestIs, CostOf, GraphAssumption DEF SearchStates
<1>2. s.dist[v] \in Nat /\ s.dist[v] <= INFINITY /\ INFINITY \in Nat
  BY GraphAssumption DEF SearchStates
<1> QED  BY <1>1, <1>2 DEF Via, Closer

LEMMA StartType == StartSearch \in SearchStates
  BY GraphAssumption DEF StartSearch, SearchStates

LEMMA TurnType ==
  ASSUME NEW E, Metric(E), NEW R, NEW s \in SearchStates
  PROVE  Settle(E, R, s) \in SearchStates
<1>1. CASE Stopped(s)
  BY <1>1, TurnIs
<1>2. CASE ~ Stopped(s)
  <2>1. Reached(s) # {} /\ Closest(s) \in Nodes
    BY <1>2, ClosestIs DEF Stopped
  <2>2. ASSUME NEW n \in Closer(E, R, s), n \in Nodes PROVE Via(E, R, s, n) \in 0..INFINITY
    BY <2>1, <2>2, ViaIs, GraphAssumption
  <2> QED  BY <1>2, <2>1, <2>2, TurnIs DEF SearchStates
<1> QED  BY <1>1, <1>2

\* The search is the last of N turns.
IsSearch(E, R, g) == g = [k \in 0..N |-> IF k = 0 THEN StartSearch ELSE Settle(E, R, g[k - 1])]

LEMMA SearchTurns ==
  ASSUME NEW E, Metric(E), NEW R
  PROVE  \E g \in [0..N -> SearchStates] :
            /\ g[0] = StartSearch /\ \A k \in 1..N : g[k] = Settle(E, R, g[k - 1])
            /\ Search(E, R) = g[N]
<1> DEFINE F == [k \in 1..N |-> [s \in SearchStates |-> Settle(E, R, s)]]
<1>1. F \in [1..N -> [SearchStates -> SearchStates]]
  BY TurnType
<1>2. PICK g : Iteration(g, N, SearchStates, StartSearch, F)
  <2>1. N \in Nat /\ StartSearch \in SearchStates
    BY NodeCount, StartType
  <2> HIDE DEF F
  <2> QED  BY <1>1, <2>1, Iterates
<1>3. ASSUME NEW k \in 1..N PROVE g[k] = Settle(E, R, g[k - 1])
  <2>1. k - 1 \in 0..N
    BY NodeCount
  <2> QED  BY <1>2, <2>1 DEF Iteration
<1>4. g \in [0..N -> SearchStates] /\ g[0] = StartSearch
  BY <1>2 DEF Iteration
<1> HIDE DEF F
<1>5. IsSearch(E, R, g)
  BY <1>3, <1>4, NodeCount DEF IsSearch
<1> DEFINE h == CHOOSE h : IsSearch(E, R, h)
<1>6. IsSearch(E, R, h)
  BY <1>5
<1>7. Search(E, R) = h[N]
  BY DEF Search, IsSearch, N
<1> HIDE DEF h
<1>8. h[0] = StartSearch /\ \A k \in 1..N : h[k] = Settle(E, R, h[k - 1])
  BY <1>6, NodeCount DEF IsSearch
<1> DEFINE B == {k \in 0..N : h[k] # g[k]}
<1>9. B = {}
  <2>1. SUFFICES ASSUME B # {} PROVE FALSE
    OBVIOUS
  <2>2. PICK k \in B : \A j \in B : k <= j
    <3>1. B \in SUBSET Nat
      OBVIOUS
    <3> HIDE DEF B
    <3> QED  BY <2>1, <3>1, SmallestIn
  <2>3. k \in 0..N /\ k # 0
    BY <1>4, <1>8
  <2>4. k - 1 \in 0..N /\ k - 1 \notin B /\ k \in 1..N
    BY <2>2, <2>3, NodeCount
  <2>5. h[k - 1] = g[k - 1]
    BY <2>4
  <2> QED  BY <1>3, <1>8, <2>4, <2>5
<1>10. h[N] = g[N]
  BY <1>9, NodeCount
<1> QED  BY <1>3, <1>4, <1>7, <1>10

-----------------------------------------------------------------------------
(* The invariant of the loop.                                              *)

Settled(s) == Nodes \ s.queue

\* What is settled is reached and no farther than what is not; the
\* destination is never settled.
FrontierInv(s) ==
  /\ To \in s.queue
  /\ \A u \in Settled(s) : s.dist[u] < INFINITY /\ \A q \in s.queue : s.dist[u] <= s.dist[q]

\* The source is settled first.
SourceInv(s) ==
  /\ s.dist[From] = 0 /\ s.prev[From] = NoNode
  /\ From \in s.queue => s.queue = Nodes

\* No node is farther than by way of a settled one.
RelaxedInv(E, R, s) ==
  \A u \in Settled(s), v \in Nodes : s.dist[v] <= s.dist[u] + EdgeCost(E, R, u, v)

\* A node that was reached was reached from a settled one.
TreeInv(E, R, s) ==
  \A v \in Nodes \ {From} : s.dist[v] < INFINITY =>
      /\ s.prev[v] \in Settled(s)
      /\ s.dist[v] = s.dist[s.prev[v]] + EdgeCost(E, R, s.prev[v], v)

\* Nodes are settled one after the other, each after the one it was reached from.
InTurn(s, rank) ==
  /\ rank \in [Nodes -> Nat]
  /\ \A u \in Settled(s) : rank[u] + Cardinality(s.queue) < N
  /\ \A u \in Settled(s) \ {From} : rank[s.prev[u]] < rank[u]

SearchInv(E, R, s) ==
  /\ s \in SearchStates
  /\ FrontierInv(s) /\ SourceInv(s) /\ RelaxedInv(E, R, s) /\ TreeInv(E, R, s)
  /\ \E rank : InTurn(s, rank)

LEMMA DistType ==
  ASSUME NEW s \in SearchStates, NEW v \in Nodes
  PROVE  s.dist[v] \in Nat /\ s.dist[v] <= INFINITY /\ INFINITY \in Nat
  BY GraphAssumption DEF SearchStates

LEMMA QueueSize ==
  ASSUME NEW s \in SearchStates
  PROVE  /\ IsFiniteSet(s.queue) /\ Cardinality(s.queue) \in Nat
         /\ \A u \in s.queue : Cardinality(s.queue \ {u}) = Cardinality(s.queue) - 1
         /\ s.queue # {} => Cardinality(s.queue) > 0
<1>1. s.queue \subseteq Nodes
  BY DEF SearchStates
<1>2. IsFiniteSet(s.queue)
  BY <1>1, GraphAssumption, FS_Subset
<1>3. \A u \in s.queue : Cardinality(s.queue \ {u}) = Cardinality(s.queue) - 1
  BY <1>2, FS_RemoveElement
<1> QED  BY <1>2, <1>3, FS_CardinalityType, FS_EmptySet

LEMMA StartInv == ASSUME NEW E, NEW R PROVE SearchInv(E, R, StartSearch)
<1>1. StartSearch.queue = Nodes /\ Settled(StartSearch) = {}
  BY DEF StartSearch, Settled
<1>2. /\ StartSearch.dist[From] = 0 /\ StartSearch.prev[From] = NoNode
      /\ \A v \in Nodes \ {From} : StartSearch.dist[v] = INFINITY
  BY GraphAssumption DEF StartSearch
<1>3. FrontierInv(StartSearch) /\ SourceInv(StartSearch) /\ RelaxedInv(E, R, StartSearch)
  BY <1>1, <1>2, GraphAssumption DEF FrontierInv, SourceInv, RelaxedInv
<1>4. TreeInv(E, R, StartSearch)
  BY <1>2, GraphAssumption DEF TreeInv
<1>5. InTurn(StartSearch, [n \in Nodes |-> 0])
  BY <1>1 DEF InTurn
<1> QED  BY <1>3, <1>4, <1>5, StartType DEF SearchInv

\* One turn that settles the closest node.
LEMMA TurnInv ==
  ASSUME NEW E, Metric(E), NEW R, NEW s, SearchInv(E, R, s)
  PROVE  SearchInv(E, R, Settle(E, R, s))
<1> SUFFICES ASSUME ~ Stopped(s) PROVE SearchInv(E, R, Settle(E, R, s))
  BY TurnIs
<1> DEFINE u == Closest(s)
           t == Settle(E, R, s)
<1>1. s \in SearchStates /\ t \in SearchStates
  BY TurnType DEF SearchInv
<1>2. /\ Reached(s) # {} /\ u # To /\ u \in s.queue /\ u \in Nodes /\ s.dist[u] < INFINITY
      /\ \A q \in s.queue : s.dist[u] <= s.dist[q]
  BY <1>1, ClosestIs DEF Stopped
<1>3. /\ t.queue = s.queue \ {u}
      /\ \A v \in Nodes : IF v \in Closer(E, R, s)
                          THEN t.dist[v] = Via(E, R, s, v) /\ t.prev[v] = u
                          ELSE t.dist[v] = s.dist[v] /\ t.prev[v] = s.prev[v]
  BY TurnIs
<1>4. \A v \in Closer(E, R, s) : v \in s.queue /\ v # u /\ Via(E, R, s, v) < s.dist[v]
  BY DEF Closer
<1>5. \A v \in s.queue \ {u} : v \notin Closer(E, R, s) => ~ (Via(E, R, s, v) < s.dist[v])
  BY DEF Closer
<1>6. \A v \in Nodes : /\ Via(E, R, s, v) = s.dist[u] + EdgeCost(E, R, u, v)
                       /\ EdgeCost(E, R, u, v) \in Nat /\ Via(E, R, s, v) \in Nat
                       /\ s.dist[u] <= Via(E, R, s, v)
  BY <1>1, <1>2, ViaIs, CostOf DEF Via
<1>7. \A v \in Nodes : /\ s.dist[v] \in Nat /\ t.dist[v] \in Nat /\ INFINITY \in Nat
                       /\ s.dist[v] <= INFINITY
  BY <1>1, DistType
<1>8. Settled(t) = Settled(s) \cup {u} /\ u \notin Settled(s) /\ Settled(t) \subseteq Nodes
  BY <1>2, <1>3 DEF Settled
<1>9. \A v \in Settled(t) : t.dist[v] = s.dist[v] /\ t.prev[v] = s.prev[v] /\ v \in Nodes
  BY <1>2, <1>3, <1>4, <1>8 DEF Settled
<1>10. s.queue \subseteq Nodes
  BY <1>1 DEF SearchStates
<1>11. \A v \in Nodes : t.dist[v] <= s.dist[v]
  BY <1>3, <1>4, <1>6, <1>7
<1> HIDE DEF t, u
<1>12. FrontierInv(t)
  <2>1. To \in t.queue
    BY <1>2, <1>3 DEF SearchInv, FrontierInv
  <2>2. ASSUME NEW v \in Settled(t) PROVE t.dist[v] < INFINITY /\ s.dist[v] <= s.dist[u]
    BY <1>2, <1>7, <1>8, <1>9, <2>2 DEF SearchInv, FrontierInv
  <2>3. ASSUME NEW v \in Settled(t), NEW q \in t.queue PROVE t.dist[v] <= t.dist[q]
    <3>1. q \in s.queue /\ q \in Nodes /\ s.dist[u] <= s.dist[q] /\ s.dist[u] <= Via(E, R, s, q)
      BY <1>2, <1>3, <1>6, <1>10
    <3>2. s.dist[u] <= t.dist[q]
      BY <1>3, <3>1
    <3> QED  BY <1>2, <1>7, <1>9, <2>2, <3>1, <3>2
  <2> QED  BY <2>1, <2>2, <2>3 DEF FrontierInv
<1>13. SourceInv(t)
  <2>1. /\ s.dist[From] = 0 /\ s.prev[From] = NoNode /\ From \in Nodes
        /\ From \in s.queue => s.queue = Nodes
    BY GraphAssumption DEF SearchInv, SourceInv
  <2>2. From \notin Closer(E, R, s)
    BY <1>4, <1>6, <2>1
  <2>3. From \notin t.queue
    <3>1. CASE From \notin s.queue
      BY <1>3, <3>1
    <3>2. CASE From \in s.queue
      <4>1. Settled(s) = {}
        BY <2>1, <3>2 DEF Settled
      <4>2. u \in Nodes \ {From} => FALSE
        BY <1>2, <4>1 DEF SearchInv, TreeInv
      <4> QED  BY <1>2, <1>3, <4>2
    <3> QED  BY <3>1, <3>2
  <2> QED  BY <1>3, <2>1, <2>2, <2>3 DEF SourceInv
<1>14. RelaxedInv(E, R, t)
  <2> SUFFICES ASSUME NEW w \in Settled(t), NEW v \in Nodes
               PROVE  t.dist[v] <= t.dist[w] + EdgeCost(E, R, w, v)
    BY DEF RelaxedInv
  <2>1. EdgeCost(E, R, w, v) \in Nat /\ w \in Nodes /\ t.dist[w] = s.dist[w]
    BY <1>9, CostOf
  <2>2. CASE w \in Settled(s)
    <3>1. s.dist[v] <= s.dist[w] + EdgeCost(E, R, w, v)
      BY <2>2 DEF SearchInv, RelaxedInv
    <3> QED  BY <1>7, <1>11, <2>1, <3>1
  <2>3. CASE w = u
    <3>1. CASE v \in s.queue \ {u}
      <4>1. t.dist[v] <= Via(E, R, s, v)
        BY <1>3, <1>5, <1>6, <1>7, <3>1
      <4> QED  BY <1>6, <2>1, <2>3, <4>1
    <3>2. CASE v \notin s.queue \ {u}
      <4>1. v \in Settled(t)
        BY <1>8, <3>2 DEF Settled
      <4>2. s.dist[v] <= s.dist[u]
        BY <1>2, <1>7, <1>8, <4>1 DEF SearchInv, FrontierInv
      <4>3. t.dist[v] = s.dist[v]
        BY <1>9, <4>1
      <4> QED  BY <1>2, <1>7, <2>1, <2>3, <4>2, <4>3
    <3> QED  BY <3>1, <3>2
  <2> QED  BY <1>8, <2>2, <2>3
<1>15. TreeInv(E, R, t)
  <2> SUFFICES ASSUME NEW v \in Nodes \ {From}, t.dist[v] < INFINITY
               PROVE  /\ t.prev[v] \in Settled(t)
                      /\ t.dist[v] = t.dist[t.prev[v]] + EdgeCost(E, R, t.prev[v], v)
    BY DEF TreeInv
  <2>1. CASE v \in Closer(E, R, s)
    <3>1. t.prev[v] = u /\ t.dist[v] = s.dist[u] + EdgeCost(E, R, u, v)
      BY <1>3, <1>6, <2>1
    <3>2. u \in Settled(t) /\ t.dist[u] = s.dist[u]
      BY <1>8, <1>9
    <3> QED  BY <3>1, <3>2
  <2>2. CASE v \notin Closer(E, R, s)
    <3>1. t.dist[v] = s.dist[v] /\ t.prev[v] = s.prev[v]
      BY <1>3, <2>2
    <3>2. s.prev[v] \in Settled(s) /\ s.dist[v] = s.dist[s.prev[v]] + EdgeCost(E, R, s.prev[v], v)
      BY <3>1 DEF SearchInv, TreeInv
    <3> QED  BY <1>8, <1>9, <3>1, <3>2
  <2> QED  BY <2>1, <2>2
<1>16. \E rank : InTurn(t, rank)
  <2>1. PICK rank : InTurn(s, rank)
    BY DEF SearchInv
  <2> DEFINE turn == N - Cardinality(s.queue)
             new == [rank EXCEPT ![u] = turn]
  <2>2. /\ Cardinality(s.queue) \in Nat /\ Cardinality(t.queue) = Cardinality(s.queue) - 1
        /\ N \in Nat
    BY <1>1, <1>2, <1>3, QueueSize, NodeCount
  <2>3. Cardinality(s.queue) <= N
    BY <1>10, GraphAssumption, FS_Subset DEF N
  <2>4. turn \in Nat /\ new \in [Nodes -> Nat] /\ new[u] = turn
        /\ \A v \in Nodes \ {u} : new[v] = rank[v]
    BY <1>2, <2>1, <2>2, <2>3 DEF InTurn
  <2>5. \A v \in Settled(s) : v \in Nodes /\ v # u /\ rank[v] \in Nat /\ rank[v] < turn
    BY <1>8, <2>1, <2>2, <2>4 DEF InTurn, Settled
  <2>6. \A v \in Settled(t) \ {From} : t.prev[v] = s.prev[v] /\ s.prev[v] \in Settled(s)
    <3> SUFFICES ASSUME NEW v \in Settled(t) \ {From}
                 PROVE  t.prev[v] = s.prev[v] /\ s.prev[v] \in Settled(s)
      OBVIOUS
    <3>1. t.prev[v] = s.prev[v] /\ s.dist[v] < INFINITY /\ v \in Nodes
      BY <1>2, <1>8, <1>9 DEF SearchInv, FrontierInv
    <3> QED  BY <3>1 DEF SearchInv, TreeInv
  <2> HIDE DEF new, turn
  <2>7. \A v \in Settled(t) : new[v] + Cardinality(t.queue) < N
    <3>1. new[u] + Cardinality(t.queue) < N
      BY <2>2, <2>4 DEF turn
    <3>2. ASSUME NEW v \in Settled(s) PROVE new[v] + Cardinality(t.queue) < N
      BY <2>1, <2>2, <2>4, <2>5 DEF InTurn
    <3> QED  BY <1>8, <3>1, <3>2
  <2>8. \A v \in Settled(t) \ {From} : new[t.prev[v]] < new[v]
    <3>1. u # From => new[t.prev[u]] < new[u]
      BY <1>8, <2>4, <2>5, <2>6
    <3>2. ASSUME NEW v \in Settled(s) \ {From} PROVE new[t.prev[v]] < new[v]
      BY <1>8, <2>1, <2>4, <2>5, <2>6 DEF InTurn
    <3> QED  BY <1>8, <3>1, <3>2
  <2>9. InTurn(t, new)
    BY <2>4, <2>7, <2>8 DEF InTurn
  <2> QED  BY <2>9
<1> QED  BY <1>1, <1>12, <1>13, <1>14, <1>15, <1>16 DEF SearchInv, t

-----------------------------------------------------------------------------
(* The end of the search.                                                  *)

\* N turns are enough: each one settles a node unless the search has stopped.
LEMMA SearchEnds ==
  ASSUME NEW E, Metric(E), NEW R
  PROVE  SearchInv(E, R, Search(E, R)) /\ Stopped(Search(E, R))
<1>1. PICK g \in [0..N -> SearchStates] :
        /\ g[0] = StartSearch /\ \A k \in 1..N : g[k] = Settle(E, R, g[k - 1])
        /\ Search(E, R) = g[N]
  BY SearchTurns
<1> DEFINE Good(k) == /\ SearchInv(E, R, g[k])
                      /\ Stopped(g[k]) \/ Cardinality(g[k].queue) = N - k
           B == {k \in 0..N : ~ Good(k)}
<1>2. SUFFICES ASSUME B # {} PROVE FALSE
  <2>1. SUFFICES ASSUME Good(N) PROVE SearchInv(E, R, g[N]) /\ Stopped(g[N])
    BY <1>1, NodeCount
  <2>2. To \in g[N].queue /\ g[N] \in SearchStates
    BY <2>1 DEF SearchInv, FrontierInv
  <2>3. Cardinality(g[N].queue) # N - N
    BY <2>2, QueueSize, NodeCount
  <2> QED  BY <2>1, <2>3
<1>3. PICK k \in B : \A j \in B : k <= j
  <2>1. B \in SUBSET Nat
    OBVIOUS
  <2> HIDE DEF B
  <2> QED  BY <1>2, <2>1, SmallestIn
<1>4. k \in 0..N /\ ~ Good(k)
  OBVIOUS
<1>5. k # 0
  <2>1. StartSearch.queue = Nodes
    BY DEF StartSearch
  <2> QED  BY <1>1, <1>4, <2>1, StartInv, NodeCount DEF N
<1>6. k \in 1..N /\ k - 1 \in 0..N /\ Good(k - 1)
  <2>1. k \in 1..N /\ k - 1 \in 0..N /\ ~ (k <= k - 1)
    BY <1>4, <1>5, NodeCount
  <2>2. k - 1 \notin B
    BY <1>3, <2>1
  <2> QED  BY <2>1, <2>2
<1>7. SearchInv(E, R, g[k - 1]) /\ g[k] = Settle(E, R, g[k - 1]) /\ g[k - 1] \in SearchStates
  BY <1>1, <1>6
<1>8. SearchInv(E, R, g[k])
  BY <1>7, TurnInv
<1>9. CASE Stopped(g[k - 1])
  <2>1. g[k] = g[k - 1]
    BY <1>7, <1>9, TurnIs
  <2> QED  BY <1>4, <1>8, <1>9, <2>1
<1>10. CASE ~ Stopped(g[k - 1])
  <2> DEFINE s == g[k - 1]
  <2>1. Closest(s) \in s.queue
    BY <1>7, <1>10, ClosestIs DEF Stopped
  <2>2. g[k].queue = s.queue \ {Closest(s)}
    BY <1>7, <1>10, TurnIs
  <2>3. Cardinality(s.queue) = N - (k - 1)
    BY <1>6, <1>10
  <2>4. Cardinality(g[k].queue) = N - (k - 1) - 1
    BY <1>7, <2>1, <2>2, <2>3, QueueSize
  <2>5. N - (k - 1) - 1 = N - k
    BY <1>6, NodeCount
  <2> QED  BY <1>4, <1>8, <2>4, <2>5
<1> QED  BY <1>9, <1>10

\* Then nothing that is not settled is closer than the destination.
LEMMA DestinationIsClosest ==
  ASSUME NEW E, NEW R, NEW s, SearchInv(E, R, s), Stopped(s)
  PROVE  \A q \in s.queue : s.dist[To] <= s.dist[q]
<1>1. s \in SearchStates /\ s.queue \subseteq Nodes /\ To \in s.queue
  BY DEF SearchInv, FrontierInv, SearchStates
<1>2. CASE Reached(s) # {}
  BY <1>1, <1>2, ClosestIs DEF Stopped
<1>3. CASE Reached(s) = {}
  <2>1. \A q \in s.queue : s.dist[q] = INFINITY
    BY <1>1, <1>3, DistType DEF Reached
  <2> QED  BY <1>1, <2>1, GraphAssumption
<1> QED  BY <1>2, <1>3

-----------------------------------------------------------------------------
(* The length of a way.                                                    *)

Steps(E, p, n) == \A k \in 2..n : Between(E, p[k - 1], p[k]) # {}

\* The sum that the answer adds up, step by step.
Metres(E, p, m) ==
  /\ m \in [1..Len(p) -> Nat] /\ m[1] = 0
  /\ \A k \in 2..Len(p) : m[k] = m[k - 1] + Min(Between(E, p[k - 1], p[k]))

IsMetres(E, p, m) ==
  m = [k \in 1..Len(p) |-> IF k = 1 THEN 0 ELSE m[k - 1] + Min(Between(E, p[k - 1], p[k]))]

LEMMA DistanceIs ==
  ASSUME NEW E, Metric(E), NEW p, Len(p) \in Nat, Len(p) > 0, Steps(E, p, Len(p))
  PROVE  \E m : Metres(E, p, m) /\ Distance(E, p) = m[Len(p)]
<1> DEFINE n == Len(p)
           F == [k \in 1..(n - 1) |-> [d \in Nat |-> d + Min(Between(E, p[k], p[k + 1]))]]
<1>1. n \in Nat /\ n > 0 /\ n - 1 \in Nat /\ Distance(E, p) = (CHOOSE m : IsMetres(E, p, m))[n]
  BY DEF Distance, IsMetres
<1>2. \A k \in 2..n : Between(E, p[k - 1], p[k]) # {}
  BY DEF Steps
<1> HIDE DEF n
<1>3. \A k \in 2..n : Min(Between(E, p[k - 1], p[k])) \in Nat
  BY <1>2, MetresOf
<1>4. ASSUME NEW k \in 1..(n - 1) PROVE Min(Between(E, p[k], p[k + 1])) \in Nat
  <2>1. k + 1 \in 2..n /\ (k + 1) - 1 = k
    BY <1>1
  <2> QED  BY <1>3, <2>1
<1>5. F \in [1..(n - 1) -> [Nat -> Nat]]
  BY <1>4
<1>6. PICK g : Iteration(g, n - 1, Nat, 0, F)
  <2> HIDE DEF F
  <2> QED  BY <1>1, <1>5, Iterates
<1> DEFINE m == [k \in 1..n |-> g[k - 1]]
<1>7. m \in [1..n -> Nat] /\ m[1] = 0
  BY <1>1, <1>6 DEF Iteration
<1>8. ASSUME NEW k \in 2..n PROVE m[k] = m[k - 1] + Min(Between(E, p[k - 1], p[k]))
  <2>1. /\ k - 1 \in 1..(n - 1) /\ (k - 1) + 1 = k /\ k \in 1..n /\ k - 1 \in 1..n
        /\ (k - 1) - 1 \in 0..(n - 1)
    BY <1>1
  <2>2. g[k - 1] = F[k - 1][g[(k - 1) - 1]] /\ g[(k - 1) - 1] \in Nat
    BY <1>6, <2>1 DEF Iteration
  <2>3. F[k - 1][g[(k - 1) - 1]] = g[(k - 1) - 1] + Min(Between(E, p[k - 1], p[(k - 1) + 1]))
    BY <2>1, <2>2
  <2> HIDE DEF F
  <2> QED  BY <2>1, <2>2, <2>3
<1> HIDE DEF F
<1>9. IsMetres(E, p, m)
  <2> HIDE DEF m
  <2>1. \A k \in 1..n : k = 1 \/ k \in 2..n
    BY <1>1
  <2>2. m = [k \in 1..n |-> m[k]]
    BY <1>7
  <2> QED  BY <1>7, <1>8, <2>1, <2>2 DEF IsMetres, n
<1> DEFINE h == CHOOSE h : IsMetres(E, p, h)
<1>10. IsMetres(E, p, h)
  <2> HIDE DEF m
  <2> QED  BY <1>9
<1> HIDE DEF h, m
<1>11. h[1] = 0 /\ \A k \in 2..n : h[k] = h[k - 1] + Min(Between(E, p[k - 1], p[k]))
  BY <1>1, <1>10 DEF IsMetres, n
<1> DEFINE B == {k \in 1..n : h[k] # m[k]}
<1>12. B = {}
  <2>1. SUFFICES ASSUME B # {} PROVE FALSE
    OBVIOUS
  <2>2. PICK k \in B : \A j \in B : k <= j
    <3>1. B \in SUBSET Nat
      BY <1>1
    <3> HIDE DEF B
    <3> QED  BY <2>1, <3>1, SmallestIn
  <2>3. k \in 2..n
    BY <1>1, <1>7, <1>11
  <2>4. k - 1 \in 1..n /\ k - 1 \notin B
    BY <1>1, <2>2, <2>3
  <2> QED  BY <1>8, <1>11, <2>3, <2>4
<1>13. h[n] = m[n]
  BY <1>1, <1>12
<1>14. Metres(E, p, m)
  BY <1>7, <1>8 DEF Metres, n
<1> QED  BY <1>1, <1>13, <1>14 DEF n, h

-----------------------------------------------------------------------------
(* No way to the destination is shorter than what the search found.        *)

LEMMA SimplePathIs ==
  ASSUME NEW p
  PROVE  p \in SimplePaths <=>
           /\ \E n \in 1..N : p \in [1..n -> Nodes] /\ Len(p) = n
           /\ p[1] = From /\ p[Len(p)] = To
           /\ \A i, j \in DOMAIN p : p[i] = p[j] => i = j
<1>1. p \in SimplePaths <=> /\ \E n \in 1..N : p \in [1..n -> Nodes]
                            /\ p[1] = From /\ p[Len(p)] = To
                            /\ \A i, j \in DOMAIN p : p[i] = p[j] => i = j
  BY DEF SimplePaths, N
<1>2. ASSUME NEW n \in 1..N, p \in [1..n -> Nodes] PROVE Len(p) = n
  BY <1>2, NodeCount
<1> QED  BY <1>1, <1>2

LEMMA NothingShorter ==
  ASSUME NEW E, Metric(E), NEW R, NEW s, SearchInv(E, R, s), Stopped(s),
         NEW p \in SimplePaths, Walkable(E, R, p)
  PROVE  s.dist[To] <= Distance(E, p)
<1>1. PICK n \in 1..N : p \in [1..n -> Nodes] /\ Len(p) = n
  BY SimplePathIs
<1>2. n \in Nat /\ n > 0 /\ p[1] = From /\ p[n] = To
  BY <1>1, NodeCount, SimplePathIs
<1>3. \A i, j \in 1..n : p[i] = p[j] => i = j
  BY <1>1, SimplePathIs
<1>4. Steps(E, p, n) /\ \A k \in 2..n : p[k] \notin R
  BY <1>1 DEF Walkable, Steps
<1>5. PICK m : Metres(E, p, m) /\ Distance(E, p) = m[n]
  BY <1>1, <1>2, <1>4, DistanceIs
<1>6. m \in [1..n -> Nat] /\ m[1] = 0
  BY <1>1, <1>5 DEF Metres
<1>7. ASSUME NEW k \in 2..n
      PROVE  /\ k - 1 \in 1..n /\ k \in 1..n /\ p[k - 1] \in Nodes /\ p[k] \in Nodes
             /\ EdgeCost(E, R, p[k - 1], p[k]) \in Nat
             /\ m[k] = m[k - 1] + EdgeCost(E, R, p[k - 1], p[k])
  <2>1. k - 1 \in 1..n /\ k \in 1..n /\ k # k - 1
    BY <1>2
  <2>2. p[k - 1] # p[k] /\ p[k] \notin R /\ Between(E, p[k - 1], p[k]) # {}
    BY <1>3, <1>4, <2>1 DEF Steps
  <2>3. EdgeCost(E, R, p[k - 1], p[k]) = Min(Between(E, p[k - 1], p[k]))
    BY <2>2, CostOf
  <2>4. m[k] = m[k - 1] + Min(Between(E, p[k - 1], p[k]))
    BY <1>1, <1>5 DEF Metres
  <2> QED  BY <1>1, <2>1, <2>3, <2>4, CostOf
<1>8. s \in SearchStates /\ \A v \in Nodes : s.dist[v] \in Nat
  BY DistType DEF SearchInv
\* Along the way no node is closer than the search says, or the destination
\* is no farther than it.
<1> DEFINE Good(k) == s.dist[p[k]] <= m[k] \/ s.dist[To] <= m[k]
           B == {k \in 1..n : ~ Good(k)}
<1>9. B = {}
  <2>1. SUFFICES ASSUME B # {} PROVE FALSE
    OBVIOUS
  <2>2. PICK k \in B : \A j \in B : k <= j
    <3>1. B \in SUBSET Nat
      BY <1>2
    <3> HIDE DEF B
    <3> QED  BY <2>1, <3>1, SmallestIn
  <2>3. s.dist[From] = 0
    BY DEF SearchInv, SourceInv
  <2>4. k \in 2..n /\ ~ Good(k)
    BY <1>2, <1>6, <2>3
  <2>5. k - 1 \in 1..n /\ ~ (k <= k - 1)
    BY <1>2, <2>4
  <2>6. Good(k - 1)
    BY <2>2, <2>5
  <2> DEFINE u == p[k - 1]
             v == p[k]
             c == EdgeCost(E, R, u, v)
  <2>7. c \in Nat /\ m[k] = m[k - 1] + c /\ m[k - 1] \in Nat /\ u \in Nodes /\ v \in Nodes
    BY <1>6, <1>7, <2>4
  <2>8. To \in Nodes /\ s.dist[To] \in Nat /\ s.dist[u] \in Nat /\ s.dist[v] \in Nat
    BY <1>8, <2>7, GraphAssumption
  <2> HIDE DEF c, B
  <2>9. CASE s.dist[To] <= m[k - 1]
    BY <2>4, <2>7, <2>8, <2>9
  <2>10. CASE s.dist[u] <= m[k - 1] /\ u \in s.queue
    <3>1. s.dist[To] <= s.dist[u]
      BY <2>10, DestinationIsClosest
    <3> QED  BY <2>4, <2>7, <2>8, <2>10, <3>1
  <2>11. CASE s.dist[u] <= m[k - 1] /\ u \notin s.queue
    <3>1. s.dist[v] <= s.dist[u] + c
      BY <2>7, <2>11 DEF SearchInv, RelaxedInv, Settled, c
    <3> QED  BY <2>4, <2>7, <2>8, <2>11, <3>1
  <2> QED  BY <2>6, <2>9, <2>10, <2>11
<1>10. Good(n)
  BY <1>2, <1>9
<1> QED  BY <1>2, <1>5, <1>10

-----------------------------------------------------------------------------
(* What the search found is a way, of the length it says.                  *)

Prior(s, b) == s.prev[Head(b)]

IsBack(s, g) ==
  g = [k \in 0..N |-> IF k = 0 THEN <<To>>
                      ELSE IF Prior(s, g[k - 1]) = NoNode THEN g[k - 1]
                      ELSE <<Prior(s, g[k - 1])>> \o g[k - 1]]

WaysBack == {b \in Seq(Nodes) : b # <<>>}

LEMMA Prefixed ==
  ASSUME NEW x \in Nodes, NEW b \in WaysBack
  PROVE  /\ <<x>> \o b \in WaysBack /\ Len(<<x>> \o b) = Len(b) + 1
         /\ (<<x>> \o b)[1] = x
         /\ \A i \in 1..Len(b) : (<<x>> \o b)[i + 1] = b[i]
         /\ Head(b) = b[1] /\ Len(b) \in Nat /\ Len(b) > 0
         /\ \A i \in 1..Len(b) : b[i] \in Nodes
<1>1. b \in Seq(Nodes) /\ b # <<>> /\ <<x>> \in Seq(Nodes) /\ Len(<<x>>) = 1
  BY DEF WaysBack
<1>2. Len(b) \in Nat /\ Len(b) > 0 /\ Head(b) = b[1] /\ \A i \in 1..Len(b) : b[i] \in Nodes
  BY <1>1
<1>3. /\ <<x>> \o b \in Seq(Nodes) /\ Len(<<x>> \o b) = Len(b) + 1
  BY <1>1
<1>4. (<<x>> \o b)[1] = x
  BY <1>1, <1>2
<1>5. \A i \in 1..Len(b) : (<<x>> \o b)[i + 1] = b[i]
  BY <1>1, <1>2
<1>6. <<x>> \o b # <<>>
  BY <1>2, <1>3
<1> QED  BY <1>2, <1>3, <1>4, <1>5, <1>6 DEF WaysBack

LEMMA BackTurns ==
  ASSUME NEW s \in SearchStates
  PROVE  \E g \in [0..N -> WaysBack] :
            /\ g[0] = <<To>>
            /\ \A k \in 1..N : IF Prior(s, g[k - 1]) = NoNode THEN g[k] = g[k - 1]
                               ELSE /\ Prior(s, g[k - 1]) \in Nodes
                                    /\ g[k] = <<Prior(s, g[k - 1])>> \o g[k - 1]
            /\ PathOf(s) = g[N]
<1> DEFINE Longer(b) == IF Prior(s, b) = NoNode THEN b ELSE <<Prior(s, b)>> \o b
           F == [k \in 1..N |-> [b \in WaysBack |-> Longer(b)]]
<1>1. ASSUME NEW b \in WaysBack PROVE Prior(s, b) # NoNode => Prior(s, b) \in Nodes
  <2>1. Head(b) \in Nodes
    BY DEF WaysBack
  <2> QED  BY <2>1 DEF Prior, SearchStates
<1>2. ASSUME NEW b \in WaysBack PROVE Longer(b) \in WaysBack
  BY <1>1, Prefixed
<1> HIDE DEF Longer
<1>3. F \in [1..N -> [WaysBack -> WaysBack]]
  BY <1>2
<1>4. <<To>> \in WaysBack /\ N \in Nat
  BY GraphAssumption, NodeCount DEF WaysBack
<1>5. PICK g : Iteration(g, N, WaysBack, <<To>>, F)
  <2> HIDE DEF F
  <2> QED  BY <1>3, <1>4, Iterates
<1>6. g \in [0..N -> WaysBack] /\ g[0] = <<To>>
  BY <1>5 DEF Iteration
<1>7. ASSUME NEW k \in 1..N PROVE k - 1 \in 0..N /\ g[k - 1] \in WaysBack /\ g[k] = Longer(g[k - 1])
  <2>1. k - 1 \in 0..N
    BY <1>4
  <2> QED  BY <1>5, <1>6, <2>1 DEF Iteration
<1> HIDE DEF F
<1>8. \A k \in 0..N : k = 0 \/ k \in 1..N
  BY <1>4
<1>9. IsBack(s, g)
  <2>1. g = [k \in 0..N |-> IF k = 0 THEN <<To>> ELSE Longer(g[k - 1])]
    BY <1>6, <1>7, <1>8
  <2> QED  BY <2>1 DEF IsBack, Longer
<1> DEFINE h == CHOOSE h : IsBack(s, h)
<1>10. IsBack(s, h)
  BY <1>9
<1>11. PathOf(s) = h[N]
  BY DEF PathOf, IsBack, Prior, N
<1> HIDE DEF h
<1>12. h = [k \in 0..N |-> IF k = 0 THEN <<To>> ELSE Longer(h[k - 1])]
  BY <1>10 DEF IsBack, Longer
<1> DEFINE B == {k \in 0..N : h[k] # g[k]}
<1>13. B = {}
  <2>1. SUFFICES ASSUME B # {} PROVE FALSE
    OBVIOUS
  <2>2. PICK k \in B : \A j \in B : k <= j
    <3>1. B \in SUBSET Nat
      OBVIOUS
    <3> HIDE DEF B
    <3> QED  BY <2>1, <3>1, SmallestIn
  <2>3. 0 \in 0..N
    BY <1>4
  <2>4. h[0] = <<To>>
    BY <1>12, <2>3
  <2>5. k \in 1..N
    BY <1>6, <1>8, <2>4
  <2>6. k - 1 \in 0..N /\ k - 1 \notin B
    BY <1>4, <2>2, <2>5
  <2>7. h[k - 1] = g[k - 1]
    BY <2>6
  <2>8. h[k] = Longer(h[k - 1])
    <3>1. k \in 0..N /\ k # 0
      BY <1>4, <2>5
    <3> HIDE DEF B
    <3> QED  BY <1>12, <3>1
  <2> QED  BY <1>7, <2>5, <2>7, <2>8
<1>14. h[N] = g[N]
  BY <1>4, <1>13
<1>15. ASSUME NEW k \in 1..N
       PROVE  IF Prior(s, g[k - 1]) = NoNode THEN g[k] = g[k - 1]
              ELSE /\ Prior(s, g[k - 1]) \in Nodes
                   /\ g[k] = <<Prior(s, g[k - 1])>> \o g[k - 1]
  BY <1>1, <1>7 DEF Longer
<1> QED  BY <1>6, <1>11, <1>14, <1>15


\* The way back from the destination: each node is the one the next was reached
\* from, and was settled before it.
BackInv(s, rank, k, b) ==
  /\ b \in WaysBack /\ Len(b) <= k + 1 /\ Len(b) <= N /\ b[Len(b)] = To
  /\ \A i \in 2..Len(b) : b[i] # From /\ b[i - 1] = s.prev[b[i]] /\ b[i - 1] \in Settled(s)
  /\ \A i, j \in 1..(Len(b) - 1) : i < j => rank[b[i]] < rank[b[j]]
  /\ k = 0 \/ b[1] = From \/ (b[1] \in Settled(s) /\ rank[b[1]] + k + 1 <= N)

LEMMA BackStep ==
  ASSUME NEW E, NEW R, NEW s, SearchInv(E, R, s), s.dist[To] < INFINITY,
         NEW rank, InTurn(s, rank), NEW k \in 0..(N - 1), NEW b, BackInv(s, rank, k, b),
         NEW c, IF Prior(s, b) = NoNode THEN c = b
                ELSE Prior(s, b) \in Nodes /\ c = <<Prior(s, b)>> \o b
  PROVE  BackInv(s, rank, k + 1, c)
<1> DEFINE n == Len(b)
           x == Prior(s, b)
<1>1. b \in WaysBack /\ n \in Nat /\ n > 0 /\ Head(b) = b[1] /\ \A i \in 1..n : b[i] \in Nodes
  <2>1. b \in WaysBack
    BY DEF BackInv
  <2> QED  BY <2>1, Prefixed, GraphAssumption
<1>2. x = s.prev[b[1]] /\ b[1] \in Nodes
  BY <1>1 DEF Prior
<1>3. s \in SearchStates /\ N \in Nat /\ To \in s.queue /\ s.prev[From] = NoNode
  BY NodeCount DEF SearchInv, FrontierInv, SourceInv
<1>4. b[1] # From => x \in Settled(s) /\ x \in Nodes /\ x # NoNode
  <2>1. b[1] = To \/ b[1] \in Settled(s)
    <3>1. n = 1 \/ n > 1
      <4> HIDE DEF n
      <4> QED  BY <1>1
    <3>2. CASE n = 1
      BY <3>2 DEF BackInv
    <3>3. CASE n > 1
      <4>1. 2 \in 2..n /\ 2 - 1 = 1
        BY <1>1, <3>3
      <4> QED  BY <4>1 DEF BackInv
    <3> QED  BY <3>1, <3>2, <3>3
  <2>2. s.dist[b[1]] < INFINITY
    BY <2>1 DEF SearchInv, FrontierInv
  <2> QED  BY <1>2, <2>2, GraphAssumption DEF SearchInv, TreeInv, Settled
<1>5. CASE b[1] = From
  <2>1. c = b
    BY <1>2, <1>3, <1>5
  <2> QED  BY <1>1, <1>3, <1>5, <2>1 DEF BackInv
<1>6. CASE b[1] # From
  <2>1. c = <<x>> \o b /\ x \in Nodes /\ x \in Settled(s)
    BY <1>4, <1>6
  <2> HIDE DEF x
  <2>2. /\ c \in WaysBack /\ Len(c) = n + 1 /\ c[1] = x
        /\ \A i \in 1..n : c[i + 1] = b[i]
    BY <1>1, <2>1, Prefixed
  <2>3. /\ rank[x] \in Nat /\ rank[x] + 1 < N /\ \A i \in 1..n : rank[b[i]] \in Nat
        /\ \A u \in Settled(s) : rank[u] + 1 < N
    <3>1. Cardinality(s.queue) \in Nat /\ Cardinality(s.queue) > 0
      BY <1>3, QueueSize
    <3>2. \A u \in Settled(s) : rank[u] \in Nat /\ rank[u] + Cardinality(s.queue) < N
      BY DEF InTurn, Settled
    <3>3. \A i \in 1..n : rank[b[i]] \in Nat
      BY <1>1 DEF InTurn
    <3> QED  BY <1>3, <2>1, <3>1, <3>2, <3>3
  <2>4. b[1] \in Settled(s) => rank[x] < rank[b[1]]
    BY <1>2, <1>6 DEF InTurn
  <2>5. n > 1 => b[1] \in Settled(s)
    <3> SUFFICES ASSUME n > 1 PROVE b[1] \in Settled(s)
      OBVIOUS
    <3>1. 2 \in 2..n /\ 2 - 1 = 1
      BY <1>1
    <3> QED  BY <3>1 DEF BackInv
  <2>6. k # 0 => b[1] \in Settled(s) /\ rank[b[1]] + k + 1 <= N
    BY <1>6 DEF BackInv
  <2>7. rank[x] + (k + 1) + 1 <= N
    <3>1. CASE k = 0
      BY <1>3, <2>3, <3>1
    <3>2. CASE k # 0
      <4>1. rank[x] < rank[b[1]] /\ rank[b[1]] + k + 1 <= N /\ rank[b[1]] \in Nat
        BY <1>1, <2>3, <2>4, <2>6, <3>2
      <4> QED  BY <1>3, <2>3, <4>1
    <3> QED  BY <3>1, <3>2
  <2>8. Len(c) <= (k + 1) + 1 /\ Len(c) <= N
    <3>1. n <= k + 1
      BY DEF BackInv
    <3> QED  BY <1>1, <1>3, <2>2, <2>3, <2>7, <3>1
  <2>9. c[Len(c)] = To
    <3>1. n \in 1..n /\ b[n] = To
      BY <1>1 DEF BackInv
    <3> QED  BY <2>2, <3>1
  <2>10. ASSUME NEW i \in 2..Len(c)
         PROVE  c[i] # From /\ c[i - 1] = s.prev[c[i]] /\ c[i - 1] \in Settled(s)
    <3>1. CASE i = 2
      <4>1. 1 \in 1..n /\ c[2] = b[1] /\ c[2 - 1] = x
        <5>1. 1 \in 1..n /\ 1 + 1 = 2 /\ 2 - 1 = 1
          BY <1>1
        <5> QED  BY <2>2, <5>1
      <4> QED  BY <1>2, <1>6, <2>1, <3>1, <4>1
    <3>2. CASE i # 2
      <4>1. /\ i - 1 \in 2..n /\ i - 1 \in 1..n /\ (i - 1) + 1 = i
            /\ (i - 1) - 1 \in 1..n /\ ((i - 1) - 1) + 1 = i - 1
        BY <1>1, <2>2, <3>2
      <4>2. c[i] = b[i - 1] /\ c[i - 1] = b[(i - 1) - 1]
        BY <2>2, <4>1
      <4> QED  BY <4>1, <4>2 DEF BackInv
    <3> QED  BY <3>1, <3>2
  <2>11. ASSUME NEW i \in 1..(Len(c) - 1), NEW j \in 1..(Len(c) - 1), i < j
         PROVE  rank[c[i]] < rank[c[j]]
    <3>1. /\ j - 1 \in 1..n /\ (j - 1) + 1 = j /\ c[j] = b[j - 1] /\ j - 1 \in 1..(n - 1)
      <4>1. j - 1 \in 1..n /\ (j - 1) + 1 = j /\ j - 1 \in 1..(n - 1)
        BY <1>1, <2>2, <2>11
      <4>2. c[(j - 1) + 1] = b[j - 1]
        BY <2>2, <4>1
      <4> QED  BY <4>1, <4>2
    <3>2. CASE i = 1
      <4>1. n > 1 /\ 1 \in 1..(n - 1) /\ 1 \in 1..n
        BY <1>1, <3>1
      <4>2. rank[x] < rank[b[1]]
        BY <2>4, <2>5, <4>1
      <4>3. j - 1 = 1 \/ rank[b[1]] < rank[b[j - 1]]
        BY <3>1, <4>1 DEF BackInv
      <4> QED  BY <2>2, <2>3, <3>1, <3>2, <4>1, <4>2, <4>3
    <3>3. CASE i # 1
      <4>1. i - 1 \in 1..(n - 1) /\ i - 1 \in 1..n /\ (i - 1) + 1 = i /\ i - 1 < j - 1
        BY <1>1, <2>2, <2>11, <3>3
      <4>2. c[i] = b[i - 1]
        BY <2>2, <4>1
      <4> QED  BY <3>1, <4>1, <4>2 DEF BackInv
    <3> QED  BY <3>2, <3>3
  <2> QED  BY <2>1, <2>2, <2>7, <2>8, <2>9, <2>10, <2>11 DEF BackInv
<1> QED  BY <1>5, <1>6


LEMMA WayFound ==
  ASSUME NEW E, Metric(E), NEW R, NEW s, SearchInv(E, R, s), s.dist[To] < INFINITY
  PROVE  /\ PathOf(s) \in SimplePaths /\ Walkable(E, R, PathOf(s))
         /\ Distance(E, PathOf(s)) = s.dist[To]
<1>1. /\ s \in SearchStates /\ N \in Nat /\ N > 0 /\ To \in s.queue /\ To \in Nodes
      /\ s.dist[From] = 0 /\ \A v \in Nodes : s.dist[v] \in Nat
  BY NodeCount, DistType, GraphAssumption DEF SearchInv, FrontierInv, SourceInv
<1>2. PICK rank : InTurn(s, rank)
  BY DEF SearchInv
<1>3. PICK g \in [0..N -> WaysBack] :
        /\ g[0] = <<To>>
        /\ \A k \in 1..N : IF Prior(s, g[k - 1]) = NoNode THEN g[k] = g[k - 1]
                           ELSE /\ Prior(s, g[k - 1]) \in Nodes
                                /\ g[k] = <<Prior(s, g[k - 1])>> \o g[k - 1]
        /\ PathOf(s) = g[N]
  BY <1>1, BackTurns
<1> DEFINE p == PathOf(s)
           n == Len(p)
<1>4. BackInv(s, rank, N, p)
  <2> DEFINE B == {k \in 0..N : ~ BackInv(s, rank, k, g[k])}
  <2>1. SUFFICES ASSUME B # {} PROVE FALSE
    BY <1>1, <1>3
  <2>2. PICK k \in B : \A j \in B : k <= j
    <3>1. B \in SUBSET Nat
      OBVIOUS
    <3> HIDE DEF B
    <3> QED  BY <2>1, <3>1, SmallestIn
  <2>3. k # 0
    <3>1. <<To>> \in WaysBack /\ Len(<<To>>) = 1 /\ <<To>>[1] = To
      BY <1>1 DEF WaysBack
    <3>2. BackInv(s, rank, 0, <<To>>)
      BY <1>1, <3>1 DEF BackInv
    <3> QED  BY <1>3, <3>2
  <2>4. k \in 1..N /\ k - 1 \in 0..(N - 1) /\ k - 1 \in 0..N /\ ~ (k <= k - 1) /\ (k - 1) + 1 = k
    BY <1>1, <2>3
  <2>5. BackInv(s, rank, k - 1, g[k - 1])
    BY <2>2, <2>4
  <2>6. IF Prior(s, g[k - 1]) = NoNode THEN g[k] = g[k - 1]
        ELSE Prior(s, g[k - 1]) \in Nodes /\ g[k] = <<Prior(s, g[k - 1])>> \o g[k - 1]
    BY <1>3, <2>4
  <2>7. BackInv(s, rank, (k - 1) + 1, g[k])
    <3> HIDE DEF B
    <3> QED  BY <1>2, <2>4, <2>5, <2>6, BackStep
  <2> QED  BY <2>4, <2>7
<1>5. p \in WaysBack /\ n \in Nat /\ n > 0 /\ n <= N /\ p[n] = To /\ \A i \in 1..n : p[i] \in Nodes
  <2>1. p \in WaysBack
    BY <1>4 DEF BackInv
  <2> QED  BY <1>4, <2>1, Prefixed, GraphAssumption DEF BackInv
<1>6. /\ \A i \in 2..n : p[i] # From /\ p[i - 1] = s.prev[p[i]] /\ p[i - 1] \in Settled(s)
      /\ \A i, j \in 1..(n - 1) : i < j => rank[p[i]] < rank[p[j]]
      /\ p[1] = From \/ (p[1] \in Settled(s) /\ rank[p[1]] + N + 1 <= N)
  BY <1>1, <1>4 DEF BackInv
<1>7. p \in [1..n -> Nodes]
  BY <1>5 DEF WaysBack
<1> HIDE DEF n, p
<1>8. p[1] = From
  <2>1. rank[p[1]] \in Nat
    BY <1>2, <1>5 DEF InTurn
  <2> QED  BY <1>1, <1>6, <2>1
<1>9. ASSUME NEW i \in 1..(n - 1) PROVE p[i] \in Settled(s) /\ p[i] # To /\ rank[p[i]] \in Nat
  <2>1. i + 1 \in 2..n /\ (i + 1) - 1 = i /\ i \in 1..n
    BY <1>5
  <2>2. p[i] \in Settled(s)
    BY <1>6, <2>1
  <2> QED  BY <1>1, <1>2, <2>2 DEF Settled, InTurn
<1>10. ASSUME NEW i \in 1..n, NEW j \in 1..n, i < j PROVE p[i] # p[j]
  <2>1. i \in 1..(n - 1)
    BY <1>5, <1>10
  <2>2. CASE j = n
    BY <1>5, <1>9, <2>1, <2>2
  <2>3. CASE j # n
    <3>1. j \in 1..(n - 1)
      BY <1>5, <2>3
    <3>2. rank[p[i]] < rank[p[j]] /\ rank[p[i]] \in Nat
      BY <1>6, <1>9, <1>10, <2>1, <3>1
    <3> QED  BY <3>2
  <2> QED  BY <2>2, <2>3
<1>11. \A i, j \in 1..n : p[i] = p[j] => i = j
  <2>1. \A i, j \in 1..n : i < j \/ j < i \/ i = j
    BY <1>5
  <2> QED  BY <1>10, <2>1
<1>12. p \in SimplePaths
  <2>1. n \in 1..N /\ DOMAIN p = 1..n
    BY <1>1, <1>5, <1>7
  <2> QED  BY <1>5, <1>7, <1>8, <1>11, <2>1, SimplePathIs DEF n
<1>13. ASSUME NEW i \in 2..n
       PROVE  /\ i \in 1..n /\ i - 1 \in 1..n
              /\ p[i] \notin R /\ Between(E, p[i - 1], p[i]) # {}
              /\ s.dist[p[i]] = s.dist[p[i - 1]] + Min(Between(E, p[i - 1], p[i]))
  <2>1. i \in 1..n /\ i - 1 \in 1..n /\ (i = n \/ i \in 1..(n - 1))
    BY <1>5
  <2>2. p[i] \in Nodes \ {From} /\ p[i - 1] \in Nodes /\ p[i - 1] = s.prev[p[i]]
    BY <1>5, <1>6, <2>1
  <2>3. s.dist[p[i]] < INFINITY
    BY <1>5, <1>9, <2>1 DEF SearchInv, FrontierInv
  <2>4. s.dist[p[i]] = s.dist[p[i - 1]] + EdgeCost(E, R, p[i - 1], p[i])
    BY <2>2, <2>3 DEF SearchInv, TreeInv
  <2>5. /\ EdgeCost(E, R, p[i - 1], p[i]) \in Nat /\ s.dist[p[i - 1]] \in Nat
        /\ s.dist[p[i]] \in Nat /\ INFINITY \in Nat
    BY <1>1, <2>2, CostOf, GraphAssumption
  <2>6. EdgeCost(E, R, p[i - 1], p[i]) < INFINITY
    BY <2>3, <2>4, <2>5
  <2> QED  BY <2>1, <2>4, <2>6, CostOf
<1>14. Walkable(E, R, p) /\ Steps(E, p, n)
  BY <1>13 DEF Walkable, Steps, n
<1>15. PICK m : Metres(E, p, m) /\ Distance(E, p) = m[n]
  BY <1>5, <1>14, DistanceIs DEF n
<1>16. m[1] = 0 /\ \A k \in 2..n : m[k] = m[k - 1] + Min(Between(E, p[k - 1], p[k]))
  BY <1>15 DEF Metres, n
<1> DEFINE B == {k \in 1..n : m[k] # s.dist[p[k]]}
<1>17. B = {}
  <2>1. SUFFICES ASSUME B # {} PROVE FALSE
    OBVIOUS
  <2>2. PICK k \in B : \A j \in B : k <= j
    <3>1. B \in SUBSET Nat
      BY <1>5
    <3> HIDE DEF B
    <3> QED  BY <2>1, <3>1, SmallestIn
  <2>3. k \in 2..n
    BY <1>1, <1>5, <1>8, <1>16
  <2>4. k - 1 \in 1..n /\ k - 1 \notin B
    BY <1>5, <2>2, <2>3
  <2>5. m[k - 1] = s.dist[p[k - 1]]
    BY <2>4
  <2> QED  BY <1>13, <1>16, <2>3, <2>5
<1>18. m[n] = s.dist[p[n]]
  BY <1>5, <1>17
<1> QED  BY <1>5, <1>12, <1>14, <1>15, <1>18 DEF p

-----------------------------------------------------------------------------
(* The answer.  A route that exists is found, it keeps out of red zones    *)
(* and off what the request excludes, and there is no shorter one.         *)
THEOREM DijkstraIsExact == CheapestEverywhere
<1> SUFFICES ASSUME NEW r \in Requests
             PROVE  IF Answered(r).ways = {} THEN Answered(r).route = NoRoute
                    ELSE /\ Answered(r).route.nodes \in Answered(r).ways
                         /\ \A p \in Answered(r).ways :
                               Answered(r).route.total <= Distance(Answered(r).edges, p)
  BY DEF CheapestEverywhere
<1> DEFINE E == Usable(r.graph, r.accessible)
           s == Search(E, r.red)
           Ways == {p \in SimplePaths : Walkable(E, r.red, p)}
<1>1. r.graph \in Graphs /\ r.accessible \in BOOLEAN
  BY DEF Requests
<1>2. Metric(E)
  BY <1>1, UsableIsMetric
<1>3. /\ Answered(r).edges = E /\ Answered(r).ways = Ways
      /\ Answered(r).route = IF s.dist[To] = INFINITY THEN NoRoute ELSE RouteOf(E, PathOf(s))
  BY DEF Answered, computeRoute, Answer
<1>4. SearchInv(E, r.red, s) /\ Stopped(s)
  <2> HIDE DEF E
  <2> QED  BY <1>2, SearchEnds
<1>5. ASSUME NEW p \in Ways PROVE s.dist[To] <= Distance(E, p) /\ Distance(E, p) < INFINITY
  <2>1. p \in SimplePaths /\ Walkable(E, r.red, p) /\ Walkable(E, {}, p)
    BY DEF Walkable
  <2>2. Distance(E, p) < INFINITY
    BY <1>1, <2>1, LengthAssumption
  <2> HIDE DEF E, s
  <2> QED  BY <1>2, <1>4, <2>1, <2>2, NothingShorter
<1>6. s.dist[To] \in Nat /\ s.dist[To] <= INFINITY /\ INFINITY \in Nat
  BY <1>4, DistType, GraphAssumption DEF SearchInv
<1> HIDE DEF s
<1>7. CASE s.dist[To] = INFINITY
  <2>1. ASSUME NEW p \in Ways PROVE FALSE
    <3>1. Distance(E, p) \in Nat
      <4>1. PICK n \in 1..N : Len(p) = n
        BY SimplePathIs
      <4>2. Len(p) \in Nat /\ Len(p) > 0 /\ Steps(E, p, Len(p))
        BY <4>1, NodeCount DEF Walkable, Steps
      <4> HIDE DEF E
      <4>3. PICK m : Metres(E, p, m) /\ Distance(E, p) = m[Len(p)]
        BY <1>2, <4>2, DistanceIs
      <4> QED  BY <4>2, <4>3 DEF Metres
    <3> HIDE DEF E
    <3> QED  BY <1>5, <1>6, <1>7, <3>1
  <2> QED  BY <1>3, <1>7, <2>1
<1>8. CASE s.dist[To] # INFINITY
  <2>1. s.dist[To] < INFINITY
    BY <1>6, <1>8
  <2>2. PathOf(s) \in Ways /\ Distance(E, PathOf(s)) = s.dist[To]
    <3> HIDE DEF E
    <3> QED  BY <1>2, <1>4, <2>1, WayFound
  <2>3. /\ Answered(r).route.nodes = PathOf(s)
        /\ Answered(r).route.total = s.dist[To]
    BY <1>3, <1>8, <2>2 DEF RouteOf
  <2> QED  BY <1>3, <1>5, <2>2, <2>3
<1> QED  BY <1>7, <1>8

\* Whatever the graph, the red zones and the need of access, the engine answers
\* with a cheapest walk, and with none only where there is none.  (dijkstra.ts:22)
THEOREM RoutesAreAlwaysCheapest == Spec => []RoutesAreCheapest
<1>1. RoutesAreCheapest
  BY DijkstraIsExact DEF RoutesAreCheapest
<1> QED  BY <1>1, PTL

-----------------------------------------------------------------------------
(* The flood guard.  Times do not go back, so an alert that was dropped from *)
(* the list is still too old when the next one comes: the list holds what    *)
(* passed in the last minute.                                                *)

Rising(times) == \A j, k \in DOMAIN times : j <= k => times[j] <= times[k]

Guard == [counts : SUBSET Nat, ok : BOOLEAN]
Quiet == [counts |-> {}, ok |-> FALSE]

IsGuarded(times, g) ==
  g = [k \in 0..Len(times) |-> IF k = 0 THEN Quiet ELSE allow(g[k - 1].counts, times, k)]

LEMMA GuardTurns ==
  ASSUME NEW times \in Seq(Int)
  PROVE  \E g : IsGuarded(times, g) /\ g \in [0..Len(times) -> Guard]
<1> DEFINE n == Len(times)
           F == [k \in 1..n |-> [x \in Guard |-> allow(x.counts, times, k)]]
<1>1. n \in Nat /\ Quiet \in Guard
  BY DEF Quiet, Guard
<1>2. ASSUME NEW k \in 1..n, NEW x \in Guard PROVE allow(x.counts, times, k) \in Guard
  BY <1>1 DEF allow, Recent, Guard
<1> HIDE DEF n
<1>3. F \in [1..n -> [Guard -> Guard]]
  BY <1>2
<1> HIDE DEF F
<1>4. PICK g : Iteration(g, n, Guard, Quiet, F)
  BY <1>1, <1>3, Iterates
<1>5. ASSUME NEW k \in 1..n PROVE g[k] = allow(g[k - 1].counts, times, k)
  <2>1. k - 1 \in 0..n
    BY <1>1
  <2> QED  BY <1>4, <2>1 DEF Iteration, F
<1>6. g \in [0..n -> Guard] /\ g[0] = Quiet
  BY <1>4 DEF Iteration
<1>7. g = [k \in 0..n |-> IF k = 0 THEN Quiet ELSE allow(g[k - 1].counts, times, k)]
  BY <1>1, <1>5, <1>6
<1> QED  BY <1>6, <1>7 DEF IsGuarded, n

\* What passed before alert k and less than a minute ago.
PassedBefore(times, k) ==
  {j \in Allowed(times) : j < k /\ times[k] - times[j] <= FLOOD_GUARD_WINDOW_SECONDS}

\* An alert passes exactly when fewer than ten did in the minute before it.
LEMMA PassesUnlessTen ==
  ASSUME NEW times \in Seq(Int), Rising(times), NEW k \in DOMAIN times
  PROVE  k \in Allowed(times) <=> Cardinality(PassedBefore(times, k)) < FLOOD_GUARD_MAX_ALERTS
<1> DEFINE n == Len(times)
           g == CHOOSE g : IsGuarded(times, g)
<1>1. IsGuarded(times, g)
  BY GuardTurns
<1>2. DOMAIN times = 1..n /\ n \in Nat
  OBVIOUS
<1>3. Allowed(times) = {j \in DOMAIN times : g[j].ok}
  BY DEF Allowed, IsGuarded, Quiet
<1> HIDE DEF g, n
<1>4. g[0] = Quiet /\ \A j \in 1..n : g[j] = allow(g[j - 1].counts, times, j)
  BY <1>1, <1>2 DEF IsGuarded, n
<1>5. \A j \in 1..n : times[j] \in Int
  BY <1>2
<1> DEFINE Held(m) ==
      m > 0 => g[m].counts = {j \in 1..m : g[j].ok /\ times[m] - times[j] <= FLOOD_GUARD_WINDOW_SECONDS}
<1>6. ASSUME NEW m \in 1..n, Held(m - 1)
      PROVE  /\ Recent(g[m - 1].counts, times, m) = PassedBefore(times, m)
             /\ Held(m)
  <2>1. Recent(g[m - 1].counts, times, m) =
          {j \in 1..(m - 1) : g[j].ok /\ times[m] - times[j] <= FLOOD_GUARD_WINDOW_SECONDS}
    <3>1. CASE m = 1
      <4>1. g[m - 1].counts = {} /\ 1..(m - 1) = {}
        BY <1>4, <3>1 DEF Quiet
      <4> QED  BY <4>1 DEF Recent
    <3>2. CASE m # 1
      <4>1. m - 1 > 0 /\ m - 1 \in 1..n /\ times[m - 1] <= times[m]
        BY <1>2, <3>2 DEF Rising
      <4>2. \A j \in 1..(m - 1) : j \in 1..n
        BY <1>2
      <4>3. g[m - 1].counts = {j \in 1..(m - 1) : g[j].ok
                                 /\ times[m - 1] - times[j] <= FLOOD_GUARD_WINDOW_SECONDS}
        BY <1>6, <4>1
      <4>4. ASSUME NEW j \in 1..(m - 1), times[m] - times[j] <= FLOOD_GUARD_WINDOW_SECONDS
            PROVE  times[m - 1] - times[j] <= FLOOD_GUARD_WINDOW_SECONDS
        BY <1>5, <4>1, <4>2, <4>4 DEF FLOOD_GUARD_WINDOW_SECONDS
      <4> HIDE DEF Held
      <4> QED  BY <4>3, <4>4 DEF Recent
    <3> QED  BY <3>1, <3>2
  <2>2. Recent(g[m - 1].counts, times, m) = PassedBefore(times, m)
    <3>1. \A j : j \in 1..(m - 1) <=> j \in 1..n /\ j < m
      BY <1>2
    <3> QED  BY <1>2, <1>3, <2>1, <3>1 DEF PassedBefore
  <2>3. g[m].counts = {j \in 1..m : g[j].ok /\ times[m] - times[j] <= FLOOD_GUARD_WINDOW_SECONDS}
    <3>1. g[m] = allow(g[m - 1].counts, times, m)
      BY <1>4
    <3>2. /\ g[m].counts = IF g[m].ok THEN Recent(g[m - 1].counts, times, m) \union {m}
                           ELSE Recent(g[m - 1].counts, times, m)
      BY <3>1 DEF allow
    <3>3. times[m] - times[m] <= FLOOD_GUARD_WINDOW_SECONDS
      BY <1>5 DEF FLOOD_GUARD_WINDOW_SECONDS
    <3>4. \A j : j \in 1..m <=> j \in 1..(m - 1) \/ j = m
      OBVIOUS
    <3> HIDE DEF Held
    <3> QED  BY <2>1, <3>2, <3>3, <3>4
  <2> QED  BY <2>2, <2>3
<1> DEFINE B == {m \in 0..n : ~ Held(m)}
<1>7. B = {}
  <2>1. SUFFICES ASSUME B # {} PROVE FALSE
    OBVIOUS
  <2>2. PICK m \in B : \A j \in B : m <= j
    <3>1. B \in SUBSET Nat
      OBVIOUS
    <3> HIDE DEF B
    <3> QED  BY <2>1, <3>1, SmallestIn
  <2>3. m \in 1..n /\ ~ Held(m)
    BY <1>2, <2>2
  <2>4. m - 1 \in 0..n /\ ~(m <= m - 1)
    BY <1>2, <2>3
  <2>5. Held(m - 1)
    <3> HIDE DEF Held
    <3> QED  BY <2>2, <2>4
  <2> HIDE DEF Held
  <2> QED  BY <1>6, <2>3, <2>5
<1>8. k \in 1..n /\ k - 1 \in 0..n
  BY <1>2
<1>9. Held(k - 1)
  <2> HIDE DEF Held
  <2> QED  BY <1>7, <1>8
<1>10. Recent(g[k - 1].counts, times, k) = PassedBefore(times, k)
  <2> HIDE DEF Held
  <2> QED  BY <1>6, <1>8, <1>9
<1> HIDE DEF Held, B
<1>11. g[k] = allow(g[k - 1].counts, times, k)
  BY <1>4, <1>8
<1>12. PassedBefore(times, k) \subseteq 1..n
  BY <1>2, <1>3 DEF PassedBefore
<1>13. Cardinality(PassedBefore(times, k)) \in Nat
  <2>1. IsFiniteSet(1..n)
    BY <1>2, FS_Interval
  <2>2. IsFiniteSet(PassedBefore(times, k))
    BY <1>12, <2>1, FS_Subset
  <2> QED  BY <2>2, FS_CardinalityType
<1> DEFINE c == Cardinality(PassedBefore(times, k))
<1>14. g[k] = IF c >= FLOOD_GUARD_MAX_ALERTS
              THEN [counts |-> PassedBefore(times, k), ok |-> FALSE]
              ELSE [counts |-> PassedBefore(times, k) \union {k}, ok |-> TRUE]
  BY <1>10, <1>11 DEF allow
<1>15. g[k].ok <=> ~ (c >= FLOOD_GUARD_MAX_ALERTS)
  <2> HIDE DEF c
  <2> QED  BY <1>14
<1>16. ~ (c >= FLOOD_GUARD_MAX_ALERTS) <=> c < FLOOD_GUARD_MAX_ALERTS
  <2> HIDE DEF c
  <2> QED  BY <1>13 DEF FLOOD_GUARD_MAX_ALERTS, c
<1> QED  BY <1>3, <1>15, <1>16

\* However fast the alerts of a zone come, in no stretch of 60 seconds are more
\* than ten let through, and one is held back only behind ten.  (detector.py:108)
THEOREM NeverFlooded ==
  ASSUME NEW times \in Seq(Int), Rising(times), NEW k \in DOMAIN times
  PROVE  /\ k \in Allowed(times) <=> Cardinality(PassedBefore(times, k)) < FLOOD_GUARD_MAX_ALERTS
         /\ Cardinality({j \in Allowed(times) :
               j <= k /\ times[k] - times[j] <= FLOOD_GUARD_WINDOW_SECONDS}) <= FLOOD_GUARD_MAX_ALERTS
<1>1. k \in Allowed(times) <=> Cardinality(PassedBefore(times, k)) < FLOOD_GUARD_MAX_ALERTS
  BY PassesUnlessTen
<1> DEFINE Stretch(m) == {j \in Allowed(times) : j <= m /\ times[m] - times[j] <= FLOOD_GUARD_WINDOW_SECONDS}
           B == {m \in DOMAIN times : ~ (Cardinality(Stretch(m)) <= FLOOD_GUARD_MAX_ALERTS)}
<1>2. DOMAIN times = 1..Len(times) /\ Len(times) \in Nat /\ \A j \in DOMAIN times : times[j] \in Int
  OBVIOUS
<1>3. Allowed(times) \subseteq DOMAIN times
  BY DEF Allowed
<1>4. ASSUME NEW m \in DOMAIN times
      PROVE  /\ IsFiniteSet(PassedBefore(times, m)) /\ IsFiniteSet(Stretch(m))
             /\ Cardinality(PassedBefore(times, m)) \in Nat /\ Cardinality(Stretch(m)) \in Nat
  <2>1. PassedBefore(times, m) \subseteq 1..Len(times) /\ Stretch(m) \subseteq 1..Len(times)
    BY <1>2, <1>3 DEF PassedBefore
  <2>2. IsFiniteSet(1..Len(times))
    BY <1>2, FS_Interval
  <2> HIDE DEF Stretch
  <2> QED  BY <2>1, <2>2, FS_Subset, FS_CardinalityType
\* A stretch that ends with an alert that passed: nine or fewer and that one.
<1>5. ASSUME NEW m \in Allowed(times)
      PROVE  Cardinality(Stretch(m)) <= FLOOD_GUARD_MAX_ALERTS
  <2>1. m \in DOMAIN times /\ m \in Int /\ times[m] \in Int
    BY <1>2, <1>3
  <2>2. Cardinality(PassedBefore(times, m)) < FLOOD_GUARD_MAX_ALERTS
    BY <2>1, PassesUnlessTen
  <2>3. Stretch(m) = PassedBefore(times, m) \union {m} /\ m \notin PassedBefore(times, m)
    <3>1. \A j \in Allowed(times) : j \in Int
      BY <1>2, <1>3
    <3>2. times[m] - times[m] <= FLOOD_GUARD_WINDOW_SECONDS
      BY <2>1 DEF FLOOD_GUARD_WINDOW_SECONDS
    <3> QED  BY <2>1, <3>1, <3>2 DEF PassedBefore
  <2>4. Cardinality(Stretch(m)) = Cardinality(PassedBefore(times, m)) + 1
    <3> HIDE DEF Stretch
    <3> QED  BY <1>4, <2>1, <2>3, FS_AddElement
  <2> HIDE DEF Stretch
  <2> QED  BY <1>4, <2>1, <2>2, <2>4 DEF FLOOD_GUARD_MAX_ALERTS
\* Any other is part of one that does, or is empty.
<1>6. Cardinality(Stretch(k)) <= FLOOD_GUARD_MAX_ALERTS
  <2>1. CASE Stretch(k) = {}
    <3>1. Cardinality(Stretch(k)) = 0
      BY <2>1, FS_EmptySet
    <3> HIDE DEF Stretch
    <3> QED  BY <3>1 DEF FLOOD_GUARD_MAX_ALERTS
  <2>2. CASE Stretch(k) # {}
    <3>1. PICK m \in Stretch(k) : \A j \in Stretch(k) : j <= m
      <4> DEFINE D == {Len(times) - j : j \in Stretch(k)}
      <4>1. Stretch(k) \subseteq 1..Len(times)
        BY <1>2, <1>3
      <4> HIDE DEF Stretch
      <4>2. D \in SUBSET Nat /\ D # {}
        BY <1>2, <2>2, <4>1
      <4>3. PICK d \in D : \A c \in D : d <= c
        <5> HIDE DEF D
        <5> QED  BY <4>2, SmallestIn
      <4>4. PICK m \in Stretch(k) : d = Len(times) - m
        BY <4>3
      <4>5. ASSUME NEW j \in Stretch(k) PROVE j <= m
        <5>1. Len(times) - m <= Len(times) - j
          BY <4>3, <4>4
        <5>2. j \in 1..Len(times) /\ m \in 1..Len(times)
          BY <4>1
        <5> HIDE DEF D
        <5> QED  BY <1>2, <5>1, <5>2
      <4> QED  BY <4>4, <4>5
    <3>2. m \in Allowed(times) /\ m <= k /\ m \in DOMAIN times /\ times[m] <= times[k]
      BY <1>3, <3>1 DEF Rising
    <3>3. Stretch(k) \subseteq Stretch(m)
      <4>1. ASSUME NEW j \in Stretch(k) PROVE j \in Stretch(m)
        <5>1. j \in Allowed(times) /\ times[k] - times[j] <= FLOOD_GUARD_WINDOW_SECONDS /\ j <= m
          BY <3>1
        <5>2. times[j] \in Int /\ times[k] \in Int /\ times[m] \in Int
          BY <1>2, <1>3, <3>2, <5>1
        <5>3. times[m] - times[j] <= FLOOD_GUARD_WINDOW_SECONDS
          BY <3>2, <5>1, <5>2 DEF FLOOD_GUARD_WINDOW_SECONDS
        <5> QED  BY <5>1, <5>3
      <4> QED  BY <4>1
    <3>4. Cardinality(Stretch(m)) <= FLOOD_GUARD_MAX_ALERTS
      BY <1>5, <3>2
    <3> HIDE DEF Stretch
    <3>5. Cardinality(Stretch(k)) <= Cardinality(Stretch(m))
      BY <1>4, <3>2, <3>3, FS_Subset
    <3> QED  BY <1>4, <3>2, <3>4, <3>5 DEF FLOOD_GUARD_MAX_ALERTS
  <2> QED  BY <2>1, <2>2
<1> QED  BY <1>1, <1>6

\* The bursts that TLC looks at come in the order of their times.
LEMMA BurstsRise ==
  ASSUME NEW times \in Bursts
  PROVE  times \in Seq(Int) /\ Rising(times)
<1>1. PICK a, b, c \in {1, 5, 10, 11}, p, q \in {0, 30, 60, 61} :
          times = Burst(a, b, c, p, q)
  BY DEF Bursts
<1>2. a \in Nat /\ b \in Nat /\ c \in Nat /\ p \in Nat /\ q \in Nat
  OBVIOUS
<1> DEFINE n == a + b + c
           at(k) == IF k <= a THEN 0 ELSE IF k <= a + b THEN p ELSE p + q
<1>3. n \in Nat /\ times = [k \in 1..n |-> at(k)]
  BY <1>1, <1>2 DEF Burst
<1>4. \A k \in 1..n : at(k) \in Int
  BY <1>2
<1>5. \A j, k \in 1..n : j <= k => at(j) <= at(k)
  BY <1>2
<1> HIDE DEF n, at
<1>6. times \in [1..n -> Int] /\ DOMAIN times = 1..n /\ \A k \in 1..n : times[k] = at(k)
  BY <1>3, <1>4
<1>7. times \in Seq(Int)
  BY <1>3, <1>6
<1> QED  BY <1>5, <1>6, <1>7 DEF Rising

\* What the run shows of the flood guard follows from what it does with any
\* alerts whose times do not go back.  (detector.py:108)
THEOREM FloodsAreAlwaysBounded == Spec => []AlertsAreNeverFlooded
<1>1. FloodIsBounded
  <2> SUFFICES ASSUME NEW times \in Bursts, NEW k \in DOMAIN times
               PROVE  (k \in Allowed(times)) =
                          (Cardinality(PassedBefore(times, k)) < FLOOD_GUARD_MAX_ALERTS)
    BY DEF FloodIsBounded, PassedBefore
  <2>1. k \in Allowed(times) <=> Cardinality(PassedBefore(times, k)) < FLOOD_GUARD_MAX_ALERTS
    BY BurstsRise, PassesUnlessTen
  <2> QED  BY <2>1
<1>2. AlertsAreNeverFlooded
  BY <1>1 DEF AlertsAreNeverFlooded
<1> QED  BY <1>2, PTL

-----------------------------------------------------------------------------
(* Whole numbers divided.                                                    *)

LEMMA QuotientIs ==
  ASSUME NEW a \in Nat, NEW b \in Nat, b > 0
  PROVE  /\ a \div b \in Nat /\ b * (a \div b) <= a
         /\ \A q \in Nat : a < b * (q + 1) => a \div b <= q
         /\ \A q \in Nat : b * q <= a => q <= a \div b
<1>1. a \div b \in Int /\ b * (a \div b) <= a /\ a < b * (a \div b) + b
  OBVIOUS
<1> DEFINE d == a \div b
<1>2. d \in Int /\ b * d <= a /\ a < b * d + b
  BY <1>1
<1> HIDE DEF d
<1>3. d >= 0
  <2>1. SUFFICES ASSUME d + 1 <= 0 PROVE FALSE
    BY <1>2
  <2>2. b * (d + 1) <= 0
    BY <1>2, <2>1
  <2>3. b * (d + 1) = b * d + b
    BY <1>2
  <2> QED  BY <1>2, <2>2, <2>3
<1>4. ASSUME NEW q \in Nat, a < b * (q + 1) PROVE d <= q
  <2>1. SUFFICES ASSUME q + 1 <= d PROVE FALSE
    BY <1>2
  <2>2. b * (q + 1) <= b * d
    BY <1>2, <2>1
  <2> QED  BY <1>2, <1>4, <2>2
<1>5. ASSUME NEW q \in Nat, b * q <= a PROVE q <= d
  <2>1. SUFFICES ASSUME d + 1 <= q PROVE FALSE
    BY <1>2
  <2>2. b * (d + 1) <= b * q
    BY <1>2, <2>1
  <2>3. b * (d + 1) = b * d + b
    BY <1>2
  <2> QED  BY <1>2, <1>5, <2>2, <2>3
<1> QED  BY <1>2, <1>3, <1>4, <1>5 DEF d

\* More of something shared among no more is no less for each.
LEMMA QuotientGrows ==
  ASSUME NEW a \in Nat, NEW b \in Nat, NEW c \in Nat, NEW d \in Nat,
         a <= c, d <= b, d > 0
  PROVE  a \div b <= c \div d
<1>1. b > 0
  OBVIOUS
<1> DEFINE q == a \div b
<1>2. q \in Nat /\ b * q <= a
  BY <1>1, QuotientIs
<1> HIDE DEF q
<1>3. d * q <= b * q
  BY <1>2
<1>4. d * q <= c
  BY <1>2, <1>3
<1>5. q <= c \div d
  BY <1>2, <1>4, QuotientIs
<1> QED  BY <1>5 DEF q

LEMMA RoundedGrows ==
  ASSUME NEW a \in Nat, NEW b \in Nat, NEW d \in Nat, d > 0, a <= b
  PROVE  Rounded(a, d) \in Nat /\ Rounded(a, d) <= Rounded(b, d)
<1>1. 2 * a + d \in Nat /\ 2 * b + d \in Nat /\ 2 * d \in Nat /\ 2 * d > 0 /\ 2 * a + d <= 2 * b + d
  OBVIOUS
<1> QED  BY <1>1, QuotientIs, QuotientGrows DEF Rounded

LEMMA LeastGrows ==
  ASSUME NEW a \in Nat, NEW b \in Nat, NEW m \in Nat, a <= b
  PROVE  Least(m, a) \in 0..m /\ Least(a, m) \in 0..m
         /\ Least(m, a) <= Least(m, b) /\ Least(a, m) <= Least(b, m)
  BY DEF Least

-----------------------------------------------------------------------------
(* The rules that decide by numbers.                                         *)

\* Every report has a priority of 1 to 5, medical reports always 5, and more
\* crowding, more reports or a stronger word never lower it, for any density and
\* any number of duplicates.  (prioritizer.ts:26)
THEOREM PrioritiesAreOrdered ==
  ASSUME NEW type \in DOMAIN TYPE_BASE_PRIORITY,
         NEW w \in DOMAIN KeywordBoost, NEW v \in DOMAIN KeywordBoost,
         NEW d \in Int, NEW e \in Int, NEW n \in Nat, NEW m \in Nat
  PROVE  LET score == computePriorityScore(type, w, d, n)
         IN  /\ score \in 1..5 /\ (type = "medical" => score = 5)
             /\ d <= e /\ n <= m /\ KeywordBoost[w] <= KeywordBoost[v] =>
                    score <= computePriorityScore(type, v, e, m)
<1> DEFINE Raw(x, y, z) == TYPE_BASE_PRIORITY[type] + KeywordBoost[x] + Boost(y, 7, 9) + Boost(z, 2, 3)
<1>1. ASSUME NEW y \in Int, NEW z \in Int, y <= z, NEW i \in Int, NEW j \in Int, i <= j
      PROVE  Boost(y, i, j) \in 0..2 /\ Boost(y, i, j) <= Boost(z, i, j)
  BY <1>1 DEF Boost
<1>2. TYPE_BASE_PRIORITY[type] \in 2..10 /\ (type = "medical" => TYPE_BASE_PRIORITY[type] = 10)
  BY DEF TYPE_BASE_PRIORITY
<1>3. \A x \in DOMAIN KeywordBoost : KeywordBoost[x] \in 0..2
  BY DEF KeywordBoost
<1>4. ASSUME NEW x \in DOMAIN KeywordBoost, NEW y \in Int, NEW z \in Nat
      PROVE  Raw(x, y, z) \in 2..16 /\ (type = "medical" => Raw(x, y, z) >= 10)
  <2>1. Boost(y, 7, 9) \in 0..2 /\ Boost(z, 2, 3) \in 0..2
    BY <1>1
  <2> QED  BY <1>2, <1>3, <2>1
<1>5. d <= e /\ n <= m /\ KeywordBoost[w] <= KeywordBoost[v] => Raw(w, d, n) <= Raw(v, e, m)
  <2>1. SUFFICES ASSUME d <= e, n <= m, KeywordBoost[w] <= KeywordBoost[v]
                 PROVE  Raw(w, d, n) <= Raw(v, e, m)
    OBVIOUS
  <2>2. /\ Boost(d, 7, 9) <= Boost(e, 7, 9) /\ Boost(n, 2, 3) <= Boost(m, 2, 3)
        /\ Boost(d, 7, 9) \in 0..2 /\ Boost(n, 2, 3) \in 0..2
        /\ Boost(e, 7, 9) \in 0..2 /\ Boost(m, 2, 3) \in 0..2
    BY <1>1, <2>1
  <2> QED  BY <1>2, <1>3, <2>1, <2>2
<1>6. /\ computePriorityScore(type, w, d, n) = Rounded(Least(10, Raw(w, d, n)), 2)
      /\ computePriorityScore(type, v, e, m) = Rounded(Least(10, Raw(v, e, m)), 2)
  BY DEF computePriorityScore
<1>7. ASSUME NEW x \in DOMAIN KeywordBoost, NEW y \in Int, NEW z \in Nat
      PROVE  Least(10, Raw(x, y, z)) \in 2..10 /\ (type = "medical" => Least(10, Raw(x, y, z)) = 10)
  <2> HIDE DEF Raw
  <2> QED  BY <1>4 DEF Least
<1> HIDE DEF Raw
<1>8. Rounded(Least(10, Raw(w, d, n)), 2) \in 1..5
  BY <1>7 DEF Rounded
<1>9. type = "medical" => Rounded(Least(10, Raw(w, d, n)), 2) = 5
  BY <1>7 DEF Rounded
<1>10. d <= e /\ n <= m /\ KeywordBoost[w] <= KeywordBoost[v] =>
         Rounded(Least(10, Raw(w, d, n)), 2) <= Rounded(Least(10, Raw(v, e, m)), 2)
  <2>1. SUFFICES ASSUME Raw(w, d, n) <= Raw(v, e, m)
                 PROVE  Rounded(Least(10, Raw(w, d, n)), 2) <= Rounded(Least(10, Raw(v, e, m)), 2)
    BY <1>5
  <2>2. Least(10, Raw(w, d, n)) <= Least(10, Raw(v, e, m))
    BY <1>4, <2>1 DEF Least
  <2>3. Least(10, Raw(w, d, n)) \in Nat /\ Least(10, Raw(v, e, m)) \in Nat
    BY <1>7
  <2> QED  BY <2>2, <2>3, RoundedGrows
<1> QED  BY <1>6, <1>8, <1>9, <1>10

\* A wait is between nothing and an hour; a denser zone never has a shorter one
\* and a faster kiosk never a longer one, for any density, hour, phase and
\* throughput.  (predictor.py:54)
THEOREM WaitsAreAlwaysOrdered ==
  ASSUME NEW phase \in DOMAIN phase_multiplier, NEW hour \in Int, NEW average \in Nat,
         NEW d \in Nat, NEW e \in Nat, NEW t \in Nat, NEW u \in Nat
  PROVE  LET wait == predict(d, hour, phase, t, average)
         IN  /\ wait \in 0..6000
             /\ d <= e /\ (u = t \/ u \in 1..t) => wait <= predict(e, hour, phase, u, average)
<1> DEFINE Known(x) == Most(IF x = 0 THEN 20 ELSE x, 2)
           Weight == 600 * phase_multiplier[phase] * hour_penalty(hour)
           Crowd(x, y) == (x * Weight) \div (Known(y) * 100)
<1>1. ASSUME NEW x \in Nat, NEW y \in Nat
      PROVE  predict(x, hour, phase, y, average) = Least(6000, Crowd(x, y))
  <2>1. XGBoostConfidence(x) >= 60
    BY DEF XGBoostConfidence
  <2>2. ~ (XGBoostConfidence(x) < 60)
    BY <2>1 DEF XGBoostConfidence
  <2>3. phase_multiplier[phase] \in Nat /\ hour_penalty(hour) \in Nat
    BY DEF phase_multiplier, hour_penalty
  <2>4. x * 600 * phase_multiplier[phase] * hour_penalty(hour) = x * Weight
    BY <2>3
  <2> QED  BY <2>2, <2>4 DEF predict, XGBoostWait
<1>2. Weight \in Nat
  BY DEF phase_multiplier, hour_penalty
<1>3. ASSUME NEW y \in Nat PROVE Known(y) \in Nat /\ Known(y) >= 2
  BY DEF Most
<1>4. u = t \/ u \in 1..t => Known(u) <= Known(t)
  BY DEF Most
<1> HIDE DEF Weight, Known
<1>5. ASSUME NEW x \in Nat, NEW y \in Nat
      PROVE  x * Weight \in Nat /\ Known(y) * 100 \in Nat /\ Known(y) * 100 > 0 /\ Crowd(x, y) \in Nat
  <2>1. x * Weight \in Nat /\ Known(y) * 100 \in Nat /\ Known(y) * 100 > 0
    BY <1>2, <1>3
  <2> QED  BY <2>1, QuotientIs
<1>6. d <= e /\ (u = t \/ u \in 1..t) => Crowd(d, t) <= Crowd(e, u)
  <2>1. SUFFICES ASSUME d <= e, Known(u) <= Known(t) PROVE Crowd(d, t) <= Crowd(e, u)
    BY <1>4
  <2>2. d * Weight <= e * Weight /\ Known(u) * 100 <= Known(t) * 100
    BY <1>2, <1>3, <2>1
  <2> QED  BY <1>5, <2>2, QuotientGrows
<1> HIDE DEF Crowd
<1>7. /\ predict(d, hour, phase, t, average) = Least(6000, Crowd(d, t))
      /\ predict(e, hour, phase, u, average) = Least(6000, Crowd(e, u))
  BY <1>1
<1>8. Crowd(d, t) \in Nat /\ Crowd(e, u) \in Nat
  BY <1>5
<1>9. Least(6000, Crowd(d, t)) \in 0..6000
  BY <1>8 DEF Least
<1>10. Crowd(d, t) <= Crowd(e, u) => Least(6000, Crowd(d, t)) <= Least(6000, Crowd(e, u))
  BY <1>8 DEF Least
<1> QED  BY <1>6, <1>7, <1>9, <1>10

\* A demand score is 0 to 100; a price is raised only from the threshold on, never
\* lowered, never raised by more than 30 percent, a longer wait never lowers it,
\* and without footfall it stays, for any wait, footfall, baseline and price.
\* (pricing.ts:22)
THEOREM SurgeIsAlwaysBounded ==
  ASSUME NEW wait \in Nat, NEW more \in Nat, NEW footfall \in Nat, NEW baseline \in Nat, NEW price \in Nat
  PROVE  LET score == computeDemandScore(wait, footfall, baseline)
             later == computeDemandScore(Most(wait, more), footfall, baseline)
         IN  /\ score \in 0..100
             /\ \A s \in generatePricingSuggestions(price, score) :
                    /\ price <= s /\ s <= Rounded(price * MAX_SURGE_MULTIPLIER, 100)
                    /\ \E s2 \in generatePricingSuggestions(price, later) : s <= s2
             /\ footfall = 0 => generatePricingSuggestions(price, score) = {}
<1> DEFINE score == computeDemandScore(wait, footfall, baseline)
           later == computeDemandScore(Most(wait, more), footfall, baseline)
           Busy(x) == Least(x, 30)
           Full == Least(footfall, baseline)
           Weighed(x) == 100 * (Busy(x) * baseline + 30 * Full)
<1>1. Most(wait, more) \in Nat /\ wait <= Most(wait, more)
  BY DEF Most
<1>2. ASSUME NEW x \in Nat
      PROVE  Busy(x) \in 0..30
  BY DEF Least
<1>3. Busy(wait) <= Busy(Most(wait, more))
  BY <1>1 DEF Least
<1>4. Full \in 0..baseline /\ (footfall = 0 => Full = 0)
  BY DEF Least
<1>5. ASSUME NEW x \in Nat
      PROVE  computeDemandScore(x, footfall, baseline) =
               IF baseline > 0 THEN Rounded(Weighed(x), 60 * baseline) ELSE Rounded(100 * Busy(x), 60)
  BY DEF computeDemandScore
<1> HIDE DEF Busy, Full
<1>6. ASSUME NEW x \in Nat
      PROVE  /\ Weighed(x) \in Nat /\ Weighed(x) <= 6000 * baseline
             /\ footfall = 0 => Weighed(x) <= 3000 * baseline
  <2>1. Busy(x) * baseline <= 30 * baseline /\ Busy(x) * baseline \in Nat
    BY <1>2
  <2> QED  BY <1>4, <2>1
<1>7. Weighed(wait) <= Weighed(Most(wait, more))
  <2>1. Busy(wait) * baseline <= Busy(Most(wait, more)) * baseline
    BY <1>1, <1>2, <1>3
  <2>2. /\ Busy(wait) * baseline \in Nat /\ Busy(Most(wait, more)) * baseline \in Nat
        /\ 30 * Full \in Nat
    BY <1>1, <1>2, <1>4
  <2> QED  BY <2>1, <2>2
<1> HIDE DEF Weighed
<1>8. ASSUME NEW x \in Nat
      PROVE  /\ computeDemandScore(x, footfall, baseline) \in 0..100
             /\ footfall = 0 => computeDemandScore(x, footfall, baseline) < SURGE_THRESHOLD
  <2>1. CASE baseline > 0
    <3>1. /\ 2 * Weighed(x) + 60 * baseline \in Nat /\ 2 * (60 * baseline) \in Nat
          /\ 2 * (60 * baseline) > 0
      BY <1>6, <2>1
    <3>2. 2 * Weighed(x) + 60 * baseline < 2 * (60 * baseline) * (100 + 1)
      BY <1>6, <2>1
    <3>3. footfall = 0 => 2 * Weighed(x) + 60 * baseline < 2 * (60 * baseline) * (50 + 1)
      BY <1>6, <2>1
    <3>4. Rounded(Weighed(x), 60 * baseline) \in Nat /\ Rounded(Weighed(x), 60 * baseline) <= 100
      BY <3>1, <3>2, QuotientIs DEF Rounded
    <3>5. footfall = 0 => Rounded(Weighed(x), 60 * baseline) <= 50
      BY <3>1, <3>3, QuotientIs DEF Rounded
    <3> QED  BY <1>5, <2>1, <3>4, <3>5 DEF SURGE_THRESHOLD
  <2>2. CASE ~ (baseline > 0)
    <3>1. Rounded(100 * Busy(x), 60) \in 0..50
      BY <1>2 DEF Rounded
    <3> QED  BY <1>5, <2>2, <3>1 DEF SURGE_THRESHOLD
  <2> QED  BY <2>1, <2>2
<1>9. score <= later
  <2>1. CASE baseline > 0
    <3>1. 60 * baseline \in Nat /\ 60 * baseline > 0
      BY <2>1
    <3>2. Rounded(Weighed(wait), 60 * baseline) <= Rounded(Weighed(Most(wait, more)), 60 * baseline)
      BY <1>1, <1>6, <1>7, <3>1, RoundedGrows
    <3> QED  BY <1>1, <1>5, <2>1, <3>2
  <2>2. CASE ~ (baseline > 0)
    <3>1. /\ 100 * Busy(wait) \in Nat /\ 100 * Busy(Most(wait, more)) \in Nat
          /\ 100 * Busy(wait) <= 100 * Busy(Most(wait, more))
      BY <1>1, <1>2, <1>3
    <3>2. Rounded(100 * Busy(wait), 60) <= Rounded(100 * Busy(Most(wait, more)), 60)
      BY <3>1, RoundedGrows
    <3> QED  BY <1>1, <1>5, <2>2, <3>2
  <2> QED  BY <2>1, <2>2
<1>10. score \in 0..100 /\ later \in 0..100 /\ (footfall = 0 => score < SURGE_THRESHOLD)
  BY <1>1, <1>8
<1> HIDE DEF score, later
<1>11. ASSUME NEW x \in 0..100, x >= SURGE_THRESHOLD PROVE multiplier(x) \in 100..130
  BY <1>11 DEF multiplier, SURGE_THRESHOLD, MAX_SURGE_MULTIPLIER
<1>12. score >= SURGE_THRESHOLD => multiplier(score) <= multiplier(later)
  BY <1>9, <1>10 DEF multiplier, SURGE_THRESHOLD, MAX_SURGE_MULTIPLIER
<1>13. ASSUME NEW s \in generatePricingSuggestions(price, score)
       PROVE  /\ price <= s /\ s <= Rounded(price * MAX_SURGE_MULTIPLIER, 100)
              /\ \E s2 \in generatePricingSuggestions(price, later) : s <= s2
  <2>1. score >= SURGE_THRESHOLD /\ later >= SURGE_THRESHOLD /\ s = Rounded(price * multiplier(score), 100)
    BY <1>9, <1>10 DEF generatePricingSuggestions, SURGE_THRESHOLD
  <2>2. multiplier(score) \in 100..130 /\ multiplier(later) \in 100..130 /\ multiplier(score) <= multiplier(later)
    BY <1>10, <1>11, <1>12, <2>1
  <2> DEFINE p == price * multiplier(score)
             q == price * multiplier(later)
  <2>3. p \in Nat /\ q \in Nat /\ p <= q /\ price * 100 <= p /\ p <= price * 130 /\ price * 130 \in Nat
    BY <2>2
  <2> HIDE DEF p, q
  <2>4. Rounded(p, 100) <= Rounded(q, 100) /\ Rounded(p, 100) <= Rounded(price * 130, 100)
    BY <2>3, RoundedGrows
  <2>5. price <= Rounded(p, 100)
    <3>1. 2 * p + 100 \in Nat /\ 200 * price <= 2 * p + 100
      BY <2>3
    <3> QED  BY <3>1, QuotientIs DEF Rounded
  <2>6. Rounded(q, 100) \in generatePricingSuggestions(price, later)
    <3>1. ~ (later < SURGE_THRESHOLD)
      BY <1>10, <2>1 DEF SURGE_THRESHOLD
    <3> QED  BY <3>1 DEF generatePricingSuggestions, q
  <2> QED  BY <2>1, <2>4, <2>5, <2>6 DEF p, MAX_SURGE_MULTIPLIER
<1>14. footfall = 0 => generatePricingSuggestions(price, score) = {}
  BY <1>10 DEF generatePricingSuggestions
<1> QED  BY <1>10, <1>13, <1>14 DEF score, later

\* More people never end an alert and a lower limit never prevents one, and an
\* alert means that the limit is full, for any count, limit and capacity.
\* (capacity-checker.ts:18)
THEOREM CapacityAlertsAreAlwaysMonotone ==
  ASSUME NEW count \in Nat, NEW more \in Nat,
         NEW limit \in Nat \union {Unset}, NEW lower \in Nat \union {Unset}, NEW capacity \in Nat \union {Unset},
         getCapacityStatus(count, limit, capacity).alertTriggered
  PROVE  /\ more >= count => getCapacityStatus(more, limit, capacity).alertTriggered
         /\ lower # Unset /\ (lower <= limit \/ (limit = Unset /\ lower <= capacity)) =>
                getCapacityStatus(count, lower, capacity).alertTriggered
         /\ limit > 0 => getCapacityStatus(count, limit, capacity).utilizationPercent >= 100
<1> DEFINE full == FireCodeLimit(limit, capacity)
<1>0. \A n, l : getCapacityStatus(n, l, capacity).alertTriggered <=> n > FireCodeLimit(l, capacity)
  BY DEF getCapacityStatus
<1>1. full \in Nat /\ count > full
  BY <1>0 DEF FireCodeLimit, Unset
<1>2. ASSUME lower # Unset, lower <= limit \/ (limit = Unset /\ lower <= capacity)
      PROVE  getCapacityStatus(count, lower, capacity).alertTriggered
  <2>1. FireCodeLimit(lower, capacity) = lower /\ lower \in Nat /\ lower <= full
    BY <1>2 DEF FireCodeLimit, Unset
  <2> HIDE DEF full
  <2>2. count > lower
    BY <1>1, <2>1
  <2> QED  BY <1>0, <2>1, <2>2
<1>3. ASSUME limit > 0 PROVE getCapacityStatus(count, limit, capacity).utilizationPercent >= 100
  <2>1. full = limit /\ limit \in Nat
    BY <1>3 DEF FireCodeLimit, Unset
  <2>2. getCapacityStatus(count, limit, capacity).utilizationPercent = (200 * count + limit) \div (2 * limit)
    BY <1>3, <2>1 DEF getCapacityStatus
  <2>3. /\ 200 * count + limit \in Nat /\ 2 * limit \in Nat /\ 2 * limit > 0
        /\ 2 * limit * 100 <= 200 * count + limit
    BY <1>1, <1>3, <2>1
  <2> QED  BY <2>2, <2>3, QuotientIs
<1>4. ASSUME more >= count PROVE getCapacityStatus(more, limit, capacity).alertTriggered
  <2> HIDE DEF full
  <2>1. more > full
    BY <1>1, <1>4
  <2> QED  BY <1>0, <2>1 DEF full
<1> QED  BY <1>2, <1>3, <1>4

-----------------------------------------------------------------------------
(* BLE advertisements.                                                       *)

LEMMA LeastOf ==
  ASSUME NEW S, NEW m \in S, \A x \in S : m <= x, S \subseteq Int
  PROVE  Min(S) = m
<1>1. \A x \in S : (\A y \in S : x <= y) => x = m
  OBVIOUS
<1> QED  BY <1>1 DEF Min

LEMMA BytesAre ==
  ASSUME NEW S, NEW n \in Nat, NEW f \in [1..n -> S]
  PROVE  f \in Seq(S) /\ Len(f) = n /\ DOMAIN f = 1..n
OBVIOUS

LEMMA PieceIs ==
  ASSUME NEW S, NEW s \in Seq(S), NEW m \in 1..(Len(s) + 1), NEW n \in (m - 1)..Len(s)
  PROVE  SubSeq(s, m, n) = [i \in 1..(n - m + 1) |-> s[i + m - 1]]
OBVIOUS

\* A zone id is the bytes before the first zero, and has none itself: what arrives
\* of an advertisement is what was sent, for any payload, except that a zone id is
\* cut to 14 bytes.  (bleMesh.ts:124)
THEOREM AdvertisementsAlwaysRoundTrip ==
  ASSUME NEW id \in [1..PAYLOAD_ID_BYTES -> 0..255], NEW type \in DOMAIN ALERT_TYPE_ENCODE,
         NEW zone \in Seq(1..255)
  PROVE  decodeBLEAdvertisement(encodeBLEAdvertisement([payloadId |-> id, alertType |-> type, zoneId |-> zone]))
           = [payloadId |-> id, alertType |-> type,
              zoneId |-> SubSeq(zone, 1, Least(Len(zone), ZONE_ID_BYTES))]
<1> DEFINE len == Len(zone)
           code == ALERT_TYPE_ENCODE[type]
<1>1. PICK Byte : Byte = 0..255
  OBVIOUS
<1>2. PICK NonZero : NonZero = 1..255
  OBVIOUS
<1>3. /\ NonZero \subseteq Byte /\ 0..4 \subseteq Byte /\ 0 \notin NonZero
      /\ zone \in Seq(NonZero)
  BY <1>1, <1>2
<1>4. /\ id \in [1..16 -> Byte] /\ id = [b \in 1..16 |-> id[b]]
      /\ \A b \in 1..16 : id[b] \in Byte
  BY <1>1 DEF PAYLOAD_ID_BYTES
<1>5. len \in Nat /\ DOMAIN zone = 1..len /\ \A b \in 1..len : zone[b] \in NonZero
  BY <1>3, LenProperties, ElementOfSeq
<1>6. code \in 0..4
  BY DEF ALERT_TYPE_ENCODE
<1>7. PICK raw : raw = encodeBLEAdvertisement([payloadId |-> id, alertType |-> type, zoneId |-> zone])
  OBVIOUS
<1>8. PICK bytes : bytes = SubSeq(raw, 18, 31)
  OBVIOUS
<1>9. PICK nulls : nulls = {b \in DOMAIN bytes : bytes[b] = 0}
  OBVIOUS
<1>10. PICK types : types = {t \in DOMAIN ALERT_TYPE_ENCODE : ALERT_TYPE_ENCODE[t] = raw[17]}
  OBVIOUS
<1>11. PICK payload : payload = [payloadId |-> id, alertType |-> type, zoneId |-> zone]
  OBVIOUS
<1>12. payload.payloadId = id /\ payload.alertType = type /\ payload.zoneId = zone
  BY <1>11
<1>13. raw = encodeBLEAdvertisement(payload)
  BY <1>7, <1>11
<1>14. raw = [b \in 1..31 |-> IF b <= 16 THEN id[b] ELSE IF b = 17 THEN code
                             ELSE IF b - 17 \in 1..len THEN zone[b - 17] ELSE 0]
  <2>1. ADVERTISEMENT_SIZE = 31 /\ PAYLOAD_ID_BYTES = 16 /\ PAYLOAD_ID_BYTES + 1 = 17
    BY DEF ADVERTISEMENT_SIZE, PAYLOAD_ID_BYTES, ZONE_ID_BYTES
  <2>2. raw = [b \in 1..31 |->
                 IF b <= 16 THEN payload.payloadId[b]
                 ELSE IF b = 17 THEN ALERT_TYPE_ENCODE[payload.alertType]
                 ELSE IF b - 16 - 1 \in DOMAIN payload.zoneId THEN payload.zoneId[b - 16 - 1] ELSE 0]
    BY <1>13, <2>1 DEF encodeBLEAdvertisement
  <2>3. \A b \in 1..31 : b - 16 - 1 = b - 17
    OBVIOUS
  <2> HIDE DEF code
  <2> QED  BY <1>5, <1>12, <2>2, <2>3 DEF code, len
<1> HIDE DEF code, len
<1>15. \A b \in 1..16 : raw[b] = id[b]
  <2> TAKE b \in 1..16
  <2>1. b \in 1..31 /\ b <= 16
    OBVIOUS
  <2> QED  BY <1>14, <2>1
<1>16. raw[17] = code
  BY <1>14
<1>17. \A b \in 1..14 : raw[b + 17] = IF b <= len THEN zone[b] ELSE 0
  <2> TAKE b \in 1..14
  <2>1. b + 17 \in 1..31 /\ ~ (b + 17 <= 16) /\ b + 17 # 17 /\ (b + 17) - 17 = b /\ (b \in 1..len <=> b <= len)
    BY <1>5
  <2> QED  BY <1>14, <2>1
<1>18. \A b \in 1..31 : raw[b] \in Byte
  <2> TAKE b \in 1..31
  <2>1. CASE b <= 16
    <3>1. b \in 1..16
      BY <2>1
    <3> QED  BY <1>4, <1>15, <3>1
  <2>2. CASE b = 17
    BY <1>3, <1>6, <1>16, <2>2
  <2>3. CASE b > 17
    <3>1. b - 17 \in 1..14 /\ (b - 17) + 17 = b
      BY <2>3
    <3>2. raw[b] = IF b - 17 <= len THEN zone[b - 17] ELSE 0
      BY <1>17, <3>1
    <3>3. b - 17 <= len => zone[b - 17] \in NonZero
      BY <1>5, <3>1
    <3> QED  BY <1>3, <3>2, <3>3
  <2> QED  BY <2>1, <2>2, <2>3
<1>19. raw \in [1..31 -> Byte]
  BY <1>14, <1>18
<1>20. raw \in Seq(Byte) /\ Len(raw) = 31
  BY <1>19, BytesAre
<1>21. types = {type}
  <2>1. \A s, t \in DOMAIN ALERT_TYPE_ENCODE : ALERT_TYPE_ENCODE[s] = ALERT_TYPE_ENCODE[t] => s = t
    BY DEF ALERT_TYPE_ENCODE
  <2> QED  BY <1>10, <1>16, <2>1 DEF code
<1>22. SubSeq(raw, 1, 16) = id
  <2>1. SubSeq(raw, 1, 16) = [i \in 1..(16 - 1 + 1) |-> raw[i + 1 - 1]]
    BY <1>20, PieceIs
  <2>2. SubSeq(raw, 1, 16) = [i \in 1..16 |-> raw[i]]
    BY <2>1
  <2> QED  BY <1>4, <1>15, <2>2
<1>23. bytes = [b \in 1..14 |-> raw[b + 17]]
  <2>1. bytes = [i \in 1..(31 - 18 + 1) |-> raw[i + 18 - 1]]
    BY <1>8, <1>20, PieceIs
  <2> QED  BY <2>1
<1>24. bytes \in [1..14 -> Byte]
  <2>1. \A b \in 1..31 : raw[b] \in Byte
    BY <1>20, ElementOfSeq
  <2>2. \A b \in 1..14 : b + 17 \in 1..31
    OBVIOUS
  <2> QED  BY <1>23, <2>1, <2>2
<1>25. \A b \in 1..14 : bytes[b] = IF b <= len THEN zone[b] ELSE 0
  BY <1>17, <1>23
<1>26. (IF nulls = {} THEN bytes ELSE SubSeq(bytes, 1, Min(nulls) - 1)) = SubSeq(zone, 1, Least(Len(zone), 14))
  <2>1. len \in Nat /\ zone \in Seq(NonZero) /\ \A b \in 1..len : zone[b] \in NonZero
    BY <1>3, <1>5
  <2>2. DOMAIN bytes = 1..14 /\ bytes = [b \in 1..14 |-> bytes[b]]
    BY <1>24
  <2>3. \A b \in 1..14 : bytes[b] = IF b <= len THEN zone[b] ELSE 0
    BY <1>25
  <2>4. \A b : b \in nulls <=> b \in 1..14 /\ b > len
    <3> TAKE b
    <3>1. b \in nulls <=> b \in 1..14 /\ bytes[b] = 0
      BY <1>9, <2>2
    <3>2. ASSUME b \in 1..14, b <= len PROVE bytes[b] # 0
      <4>1. bytes[b] = zone[b] /\ b \in 1..len
        BY <2>1, <2>3, <3>2
      <4>2. zone[b] \in NonZero
        BY <2>1, <4>1
      <4> QED  BY <1>3, <4>1, <4>2
    <3>3. ASSUME b \in 1..14, ~ (b <= len) PROVE bytes[b] = 0
      BY <2>3, <3>3
    <3> QED  BY <2>1, <3>1, <3>2, <3>3
  <2>5. CASE len >= 14
    <3>1. nulls = {}
      BY <2>1, <2>4, <2>5
    <3>2. Least(len, 14) = 14
      BY <2>1, <2>5 DEF Least
    <3>3. SubSeq(zone, 1, 14) = [b \in 1..14 |-> zone[b]]
      <4>1. 14 \in (1 - 1)..Len(zone) /\ 1 \in 1..(Len(zone) + 1) /\ 14 - 1 + 1 = 14
        BY <2>1, <2>5 DEF len
      <4>2. SubSeq(zone, 1, 14) = [i \in 1..(14 - 1 + 1) |-> zone[i + 1 - 1]]
        BY <4>1, PieceIs
      <4> QED  BY <4>2
    <3>4. \A b \in 1..14 : bytes[b] = zone[b]
      BY <2>1, <2>3, <2>5
    <3> QED  BY <2>2, <3>1, <3>2, <3>3, <3>4 DEF len
  <2>6. CASE len < 14
    <3>1. len + 1 \in nulls /\ nulls \subseteq Int /\ \A b \in nulls : len + 1 <= b
      BY <2>1, <2>4, <2>6
    <3>2. Min(nulls) = len + 1
      BY <3>1, LeastOf
    <3>3. Least(len, 14) = len
      BY <2>1, <2>6 DEF Least
    <3>4. SubSeq(zone, 1, len) = [b \in 1..len |-> zone[b]]
      <4>1. len \in (1 - 1)..Len(zone) /\ 1 \in 1..(Len(zone) + 1)
        BY <2>1 DEF len
      <4>2. SubSeq(zone, 1, len) = [i \in 1..(len - 1 + 1) |-> zone[i + 1 - 1]]
        BY <4>1, PieceIs
      <4> QED  BY <2>1, <4>2
    <3>5. SubSeq(bytes, 1, len) = [b \in 1..len |-> bytes[b]]
      <4>1. bytes \in Seq(Byte) /\ Len(bytes) = 14
        BY <1>24, BytesAre
      <4>2. len \in (1 - 1)..Len(bytes) /\ 1 \in 1..(Len(bytes) + 1)
        BY <2>1, <2>6, <4>1
      <4>3. SubSeq(bytes, 1, len) = [i \in 1..(len - 1 + 1) |-> bytes[i + 1 - 1]]
        BY <4>1, <4>2, PieceIs
      <4> QED  BY <2>1, <4>3
    <3>6. \A b \in 1..len : bytes[b] = zone[b]
      BY <2>1, <2>3, <2>6
    <3>7. nulls # {} /\ Min(nulls) - 1 = len
      BY <2>1, <3>1, <3>2
    <3> QED  BY <3>3, <3>4, <3>5, <3>6, <3>7 DEF len
  <2>7. len >= 14 \/ len < 14
    BY <2>1
  <2> QED  BY <2>5, <2>6, <2>7
<1>27. decodeBLEAdvertisement(raw) =
         IF Len(raw) < 31 \/ types = {} THEN Malformed
         ELSE [payloadId |-> SubSeq(raw, 1, 16), alertType |-> CHOOSE t \in types : TRUE,
               zoneId |-> IF nulls = {} THEN bytes ELSE SubSeq(bytes, 1, Min(nulls) - 1)]
  <2>1. ADVERTISEMENT_SIZE = 31 /\ PAYLOAD_ID_BYTES = 16 /\ PAYLOAD_ID_BYTES + 1 = 17 /\ PAYLOAD_ID_BYTES + 2 = 18
    BY DEF ADVERTISEMENT_SIZE, PAYLOAD_ID_BYTES, ZONE_ID_BYTES
  <2> QED  BY <1>8, <1>9, <1>10, <2>1, Zenon DEF decodeBLEAdvertisement
<1>28. ~ (Len(raw) < 31 \/ types = {}) /\ (CHOOSE t \in types : TRUE) = type
  BY <1>20, <1>21
<1>29. decodeBLEAdvertisement(raw) =
         [payloadId |-> id, alertType |-> type, zoneId |-> SubSeq(zone, 1, Least(Len(zone), 14))]
  BY <1>22, <1>26, <1>27, <1>28
<1> QED  BY <1>7, <1>29 DEF ZONE_ID_BYTES

-----------------------------------------------------------------------------
(* Plans and crowds.                                                         *)

\* Most arrivals come 45 minutes before the start: 35 in a hundred.
\* (simulator.py:23)
LEMMA PeakIs ==
  /\ (CHOOSE m \in DOMAIN ARRIVAL_WINDOWS :
         \A n \in DOMAIN ARRIVAL_WINDOWS : ARRIVAL_WINDOWS[n] <= ARRIVAL_WINDOWS[m]) = 45
  /\ ARRIVAL_WINDOWS[45] = 35
<1> DEFINE W == ARRIVAL_WINDOWS
<1>1. W[90] = 5 /\ W[60] = 20 /\ W[45] = 35 /\ W[30] = 25 /\ W[15] = 10 /\ W[5] = 5
  BY DEF ARRIVAL_WINDOWS
<1>2. DOMAIN W = {90, 60, 45, 30, 15, 5}
  BY DEF ARRIVAL_WINDOWS
<1> HIDE DEF W
<1>3. \A m \in DOMAIN W : (\A n \in DOMAIN W : W[n] <= W[m]) <=> m = 45
  BY <1>1, <1>2
<1> QED  BY <1>1, <1>2, <1>3 DEF W

\* A bigger event never gets fewer people at a gate, a gate has two at least, one
\* for every fifty in its queue, and its security is of its staff, for any
\* attendance and any share of a zone.  (simulator.py:23)
THEOREM PlansAreAlwaysOrdered ==
  ASSUME NEW a \in Nat, NEW b \in Nat, NEW percent \in 0..100
  PROVE  LET f == simulate_gate_forecasts(a, percent)
             plan == generate_staff_deployment_plan(f)
             bigger == generate_staff_deployment_plan(simulate_gate_forecasts(b, percent))
         IN  /\ a <= b => plan.staff <= bigger.staff /\ plan.security <= bigger.security
             /\ plan.staff >= 2 /\ f.peak_queue_depth <= 50 * plan.staff
             /\ plan.security <= plan.staff
<1> DEFINE Expected(n) == (n * percent) \div 100
           Queue(x) == Larger(0, (x * 35) \div 100 - 125)
           Staff(x) == Larger(2, (x * 2 + 99) \div 100) + (Queue(x) + 49) \div 50
           Security(x) == IF x > 500 THEN Larger(1, Staff(x) \div 3) ELSE 0
           Forecast(n) == simulate_gate_forecasts(n, percent)
           Plan(n) == generate_staff_deployment_plan(Forecast(n))
<1>1. ASSUME NEW n \in Nat
      PROVE  /\ Forecast(n).expected_arrivals = Expected(n)
             /\ Forecast(n).peak_queue_depth = Queue(Expected(n))
  <2> DEFINE depth == Larger(0, (Expected(n) * ARRIVAL_WINDOWS[45]) \div 100
                                  - GATE_THROUGHPUT_PER_MINUTE * 5)
  <2>1. Forecast(n) = [expected_arrivals |-> Expected(n), peak_queue_depth |-> depth,
                       peak_time_offset_minutes |-> 45]
    BY PeakIs, Zenon DEF simulate_gate_forecasts
  <2>2. depth = Queue(Expected(n))
    BY PeakIs DEF GATE_THROUGHPUT_PER_MINUTE
  <2> HIDE DEF depth, Forecast, Expected, Queue
  <2> QED  BY <2>1, <2>2
<1>2. ASSUME NEW n \in Nat PROVE Expected(n) \in Nat
  <2>1. n * percent \in Nat
    OBVIOUS
  <2> QED  BY <2>1, QuotientIs
<1>3. a <= b => Expected(a) <= Expected(b)
  <2>1. a * percent \in Nat /\ b * percent \in Nat /\ (a <= b => a * percent <= b * percent)
    OBVIOUS
  <2> QED  BY <2>1, QuotientGrows
<1>4. ASSUME NEW x \in Nat
      PROVE  Queue(x) \in Nat /\ Staff(x) \in Nat /\ Staff(x) >= 2 /\ Queue(x) <= 50 * Staff(x)
  BY DEF Larger
<1>5. ASSUME NEW x \in Nat, NEW y \in Nat, x <= y PROVE Staff(x) <= Staff(y)
  <2>1. Queue(x) \in Nat /\ Queue(y) \in Nat /\ Queue(x) <= Queue(y)
    BY <1>5 DEF Larger
  <2>2. Larger(2, (x * 2 + 99) \div 100) <= Larger(2, (y * 2 + 99) \div 100)
    BY <1>5 DEF Larger
  <2>3. (Queue(x) + 49) \div 50 <= (Queue(y) + 49) \div 50
    <3> HIDE DEF Queue
    <3> QED  BY <2>1
  <2>4. Larger(2, (x * 2 + 99) \div 100) \in Nat /\ Larger(2, (y * 2 + 99) \div 100) \in Nat
    BY DEF Larger
  <2>5. (Queue(x) + 49) \div 50 \in Nat /\ (Queue(y) + 49) \div 50 \in Nat
    <3> HIDE DEF Queue
    <3> QED  BY <2>1
  <2> QED  BY <2>2, <2>3, <2>4, <2>5
<1>6. ASSUME NEW n \in Nat
      PROVE  Plan(n).staff = Staff(Expected(n)) /\ Plan(n).security = Security(Expected(n))
  <2>1. Expected(n) \in Nat /\ Queue(Expected(n)) \in Nat
    BY <1>2, <1>4
  <2> HIDE DEF Expected, Queue, Forecast
  <2>2. /\ Ceil(Expected(n) * 2, 100) = (Expected(n) * 2 + 99) \div 100
        /\ Ceil(Queue(Expected(n)), 50) = (Queue(Expected(n)) + 49) \div 50
    BY <2>1 DEF Ceil
  <2>3. Plan(n).staff = Staff(Expected(n))
    BY <1>1, <2>2 DEF generate_staff_deployment_plan, STAFF_PER_100_ATTENDEES
  <2> QED  BY <1>1, <2>2 DEF generate_staff_deployment_plan, STAFF_PER_100_ATTENDEES
<1> HIDE DEF Staff, Queue, Expected, Plan
<1>7. ASSUME NEW x \in Nat, NEW y \in Nat, x <= y PROVE Security(x) <= Security(y)
  BY <1>4, <1>5, <1>7 DEF Larger
<1>8. ASSUME NEW x \in Nat PROVE Security(x) <= Staff(x)
  BY <1>4 DEF Larger
<1> HIDE DEF Security
<1>9. a <= b => Plan(a).staff <= Plan(b).staff /\ Plan(a).security <= Plan(b).security
  BY <1>2, <1>3, <1>5, <1>6, <1>7
<1>10. Plan(a).staff >= 2 /\ Forecast(a).peak_queue_depth <= 50 * Plan(a).staff /\ Plan(a).security <= Plan(a).staff
  BY <1>1, <1>2, <1>4, <1>6, <1>8
<1> QED  BY <1>9, <1>10 DEF Plan

\* A zone of the live map.
MapZone == [capacity : Nat, currentCount : Int, densityPercent : Int,
            status : {"green", "amber", "red", "unavailable"}]

\* Whatever the pattern and the noise come to, the animation never shows more in a
\* zone than it holds, keeps a closed zone empty and closed, and colours a zone
\* red from a density of 80 percent on, rounded for display.
\* (CrowdSimulator.ts:73)
THEOREM CrowdsAlwaysFit ==
  ASSUME NEW zone \in MapZone, NEW raw \in Int
  PROVE  LET after == updateZone(zone, raw)
         IN  /\ after.capacity = zone.capacity /\ after.currentCount \in 0..zone.capacity
             /\ after.densityPercent \in 0..100
             /\ after.status = "red" => after.densityPercent >= 80
             /\ after.densityPercent > 80 => after.status = "red"
             /\ zone.status = "unavailable" =>
                    after.status = "unavailable" /\ after.currentCount = 0 /\ after.densityPercent = 0
<1> DEFINE density == IF zone.status = "unavailable" THEN 0 ELSE Larger(0, Smaller(1000, raw))
           after == updateZone(zone, raw)
<1>1. density \in 0..1000 /\ (zone.status = "unavailable" => density = 0)
  BY DEF Larger, Smaller
<1>2. /\ after.capacity = zone.capacity
      /\ after.currentCount = (density * zone.capacity + 500) \div 1000
      /\ after.densityPercent = (density + 5) \div 10
      /\ after.status = IF density >= 800 THEN "red" ELSE IF density >= 500 THEN "amber"
                        ELSE IF zone.status = "unavailable" THEN "unavailable" ELSE "green"
  BY DEF updateZone, MapZone
<1>3. zone.capacity \in Nat
  BY DEF MapZone
<1> HIDE DEF density, after
<1>4. after.currentCount \in 0..zone.capacity
  <2>1. density * zone.capacity \in Nat /\ density * zone.capacity <= 1000 * zone.capacity
    BY <1>1, <1>3
  <2> QED  BY <1>2, <1>3, <2>1
<1>5. /\ after.densityPercent \in 0..100
      /\ after.status = "red" => after.densityPercent >= 80
      /\ after.densityPercent > 80 => after.status = "red"
  BY <1>1, <1>2
<1>6. zone.status = "unavailable" =>
          after.status = "unavailable" /\ after.currentCount = 0 /\ after.densityPercent = 0
  BY <1>1, <1>2, <1>3
<1> QED  BY <1>2, <1>4, <1>5, <1>6 DEF after

\* Without a connection the map drifts: an open zone never holds more than its
\* capacity and is red exactly from 80 percent on, a closed one stays as it is,
\* for any drift.  (LiveMapPage.tsx:87)
THEOREM DriftAlwaysFits ==
  ASSUME NEW zone \in MapZone, zone.capacity > 0, NEW delta \in Int
  PROVE  LET moved == jitter(zone, delta)
         IN  IF zone.status = "unavailable" THEN moved = zone
             ELSE /\ moved.currentCount \in 0..zone.capacity /\ moved.densityPercent \in 0..100
                  /\ moved.status = "red" <=> moved.densityPercent >= 80
                  /\ moved.status # "unavailable"
<1> DEFINE count == Larger(0, Smaller(zone.capacity, zone.currentCount + delta))
           density == (200 * count + zone.capacity) \div (2 * zone.capacity)
           moved == jitter(zone, delta)
<1>1. zone.capacity \in Nat /\ zone.currentCount \in Int
  BY DEF MapZone
<1>2. count \in 0..zone.capacity
  BY <1>1 DEF Larger, Smaller
<1>3. zone.status # "unavailable" =>
        /\ moved.currentCount = count /\ moved.densityPercent = density
        /\ moved.status = IF density >= 80 THEN "red" ELSE IF density >= 50 THEN "amber" ELSE "green"
  BY DEF jitter, MapZone
<1>4. zone.status = "unavailable" => moved = zone
  BY DEF jitter
<1> HIDE DEF count, moved
<1>5. density \in 0..100
  <2>1. 200 * count + zone.capacity \in Nat /\ 2 * zone.capacity \in Nat /\ 2 * zone.capacity > 0
    BY <1>1, <1>2
  <2>2. 200 * count + zone.capacity < (2 * zone.capacity) * (100 + 1)
    BY <1>1, <1>2
  <2>3. density \in Nat /\ density <= 100
    BY <2>1, <2>2, QuotientIs
  <2> QED  BY <2>3
<1> HIDE DEF density
<1>6. zone.status # "unavailable" =>
        /\ moved.currentCount \in 0..zone.capacity /\ moved.densityPercent \in 0..100
        /\ moved.status = "red" <=> moved.densityPercent >= 80
        /\ moved.status # "unavailable"
  BY <1>2, <1>3, <1>5
<1> QED  BY <1>4, <1>6 DEF moved

-----------------------------------------------------------------------------
(* The registry of models.                                                   *)

Version == [version_id : Int, mape : Nat, is_active : BOOLEAN]

\* The model in use is the best that beats the baseline, and the models in use
\* are of one second.
BestActive(versions) ==
    LET current == get_current_model(versions)
        good == {k \in DOMAIN versions : versions[k].mape < 100}
    IN  /\ (current = 0) = (good = {})
        /\ current # 0 => current \in good /\ \A k \in good : versions[current].mape <= versions[k].mape
        /\ \A j, k \in DOMAIN versions : versions[j].is_active /\ versions[k].is_active =>
               versions[j].version_id = versions[k].version_id

LEMMA CurrentIs ==
  ASSUME NEW v \in Seq(Version)
  PROVE  LET active == {k \in DOMAIN v : v[k].is_active}
             c == get_current_model(v)
         IN  /\ active = {} => c = 0
             /\ active # {} => c \in active /\ c > 0 /\ \A k \in active : k <= c
<1> DEFINE active == {k \in DOMAIN v : v[k].is_active}
           n == Len(v)
           T == {n - k : k \in active}
<1>1. DOMAIN v = 1..n /\ n \in Nat /\ active \subseteq 1..n
  OBVIOUS
<1>2. ASSUME active # {} PROVE get_current_model(v) \in active /\ \A k \in active : k <= get_current_model(v)
  <2> HIDE DEF active, n
  <2>1. T \in SUBSET Nat /\ T # {}
    BY <1>1, <1>2
  <2>2. PICK m \in T : \A t \in T : m <= t
    <3> HIDE DEF T
    <3> QED  BY <2>1, SmallestIn
  <2>3. PICK x \in active : m = n - x
    BY <2>2
  <2>4. \A y \in active : x >= y
    <3>1. SUFFICES ASSUME NEW y \in active PROVE x >= y
      OBVIOUS
    <3>2. n - y \in T
      BY <3>1
    <3>3. n - x <= n - y
      BY <2>2, <2>3, <3>2
    <3>4. n \in Int /\ x \in Int /\ y \in Int
      BY <1>1, <2>3, <3>1
    <3> QED  BY <3>3, <3>4
  <2>5. Max(active) \in active /\ \A y \in active : Max(active) >= y
    BY <2>4 DEF Max
  <2>6. get_current_model(v) = Max(active)
    BY <1>2 DEF get_current_model, active
  <2> QED  BY <1>1, <2>5, <2>6
<1> QED  BY <1>1, <1>2 DEF get_current_model

\* A retraining leaves the best model of the registry in use, whichever second it
\* falls into.
LEMMA RetrainedIsBest ==
  ASSUME NEW v \in Seq(Version), BestActive(v), NEW run \in [version_id : Int, mape : Nat]
  PROVE  retrained(v, run) \in Seq(Version) /\ BestActive(retrained(v, run))
<1> DEFINE c == get_current_model(v)
           n == Len(v) + 1
           new == [version_id |-> run.version_id, mape |-> run.mape, is_active |-> FALSE]
           grown == Append(v, new)
           w == promote_model(grown, run.version_id)
           better == run.mape < (IF c = 0 THEN 100 ELSE v[c].mape)
<1>1. retrained(v, run) = IF better THEN w ELSE grown
  BY DEF retrained, should_promote
<1>2. Len(v) \in Nat /\ DOMAIN v = 1..Len(v) /\ n \in 1..n /\ \A k \in 1..Len(v) : v[k] \in Version /\ k # n
  OBVIOUS
<1>3. new \in Version /\ run.mape \in Nat
  BY DEF Version
<1>4. grown \in Seq(Version) /\ DOMAIN grown = 1..n /\ grown[n] = new /\ \A k \in 1..Len(v) : grown[k] = v[k]
  BY <1>2, <1>3
<1>5. \A k \in 1..n : k = n \/ k \in 1..Len(v)
  BY <1>2
<1>6. \A k \in 1..n : grown[k] \in Version
  BY <1>3, <1>4
<1>7. c = 0 \/ (c \in 1..Len(v) /\ v[c].is_active)
  <2>1. {k \in DOMAIN v : v[k].is_active} = {} \/ c \in {k \in DOMAIN v : v[k].is_active}
    BY CurrentIs
  <2> QED  BY <1>2, <2>1, CurrentIs
<1>8. /\ c = 0 => \A k \in 1..Len(v) : ~(v[k].mape < 100)
      /\ c # 0 => v[c].mape < 100 /\ \A k \in 1..Len(v) : v[k].mape < 100 => v[c].mape <= v[k].mape
      /\ c = 0 => \A k \in 1..Len(v) : v[k].mape < 100 => FALSE
      /\ \A j, k \in 1..Len(v) : v[j].is_active /\ v[k].is_active => v[j].version_id = v[k].version_id
  BY <1>2 DEF BestActive
<1>9. \A k \in 1..Len(v) : v[k].mape \in Nat /\ v[k].is_active \in BOOLEAN
  BY <1>2 DEF Version
<1> HIDE DEF c, n, grown, w
<1>10. CASE better
  <2>1. w \in Seq(Version) /\ DOMAIN w = 1..n
        /\ \A k \in 1..n : /\ w[k].mape = grown[k].mape
                           /\ w[k].version_id = grown[k].version_id
                           /\ w[k].is_active <=> grown[k].version_id = run.version_id
    <3>1. w = [k \in 1..n |-> [grown[k] EXCEPT !.is_active = (grown[k].version_id = run.version_id)]]
      BY <1>4 DEF w, promote_model
    <3>2. \A k \in 1..n : /\ w[k] = [grown[k] EXCEPT !.is_active = (grown[k].version_id = run.version_id)]
                          /\ w[k] \in Version
      BY <1>6, <3>1 DEF Version
    <3>3. n \in Nat
      BY <1>2 DEF n
    <3>4. w \in [1..n -> Version]
      BY <3>1, <3>2
    <3>5. w \in Seq(Version)
      BY <3>3, <3>4
    <3> QED  BY <1>6, <3>1, <3>2, <3>5 DEF Version
  <2>2. n \in {k \in DOMAIN w : w[k].is_active}
    <3>1. grown[n].version_id = run.version_id
      BY <1>4
    <3> QED  BY <1>2, <2>1, <3>1
  <2>3. get_current_model(w) = n
    <3>1. get_current_model(w) \in 1..n /\ n <= get_current_model(w)
      BY <2>1, <2>2, CurrentIs
    <3> QED  BY <1>2, <3>1 DEF n
  <2>4. w[n].mape = run.mape /\ run.mape < 100
    BY <1>2, <1>3, <1>4, <1>7, <1>8, <1>9, <1>10, <2>1
  <2>5. \A k \in 1..n : w[k].mape < 100 => run.mape <= w[k].mape
    BY <1>3, <1>4, <1>5, <1>7, <1>8, <1>9, <1>10, <2>1, <2>4
  <2>6. \A j, k \in 1..n : w[j].is_active /\ w[k].is_active => w[j].version_id = w[k].version_id
    BY <2>1
  <2>7. n # 0 /\ n \in 1..n
    BY <1>2 DEF n
  <2>8. BestActive(w)
    BY <2>1, <2>3, <2>4, <2>5, <2>6, <2>7 DEF BestActive
  <2> QED  BY <1>1, <1>10, <2>1, <2>8
<1>11. CASE ~better
  <2>1. {k \in DOMAIN grown : grown[k].is_active} = {k \in DOMAIN v : v[k].is_active}
    BY <1>2, <1>4, <1>5
  <2>2. get_current_model(grown) = c
    BY <2>1 DEF get_current_model, c
  <2>3. /\ c = 0 => \A k \in 1..n : ~(grown[k].mape < 100)
        /\ c # 0 => c \in 1..n /\ grown[c].mape < 100
                    /\ \A k \in 1..n : grown[k].mape < 100 => grown[c].mape <= grown[k].mape
    <3>1. \A k \in 1..Len(v) : k \in 1..n
      BY <1>2 DEF n
    <3> QED  BY <1>3, <1>4, <1>5, <1>7, <1>8, <1>9, <1>11, <3>1
  <2>4. \A j, k \in 1..n : grown[j].is_active /\ grown[k].is_active => grown[j].version_id = grown[k].version_id
    BY <1>4, <1>5, <1>8
  <2>5. BestActive(grown)
    BY <1>4, <2>2, <2>3, <2>4 DEF BestActive
  <2> QED  BY <1>1, <1>4, <1>11, <2>5
<1> QED  BY <1>10, <1>11

\* After any retrainings from an empty registry the model in use is the best ever
\* registered, if one beats the baseline, and models in use together are of the
\* same second, whatever the errors and in whatever order the seconds come.
\* (trainer.py:64)
THEOREM BestIsAlwaysActive ==
  ASSUME NEW n \in Nat, NEW runs \in [1..n -> [version_id : Int, mape : Nat]],
         NEW registry, registry[0] = <<>>,
         \A k \in 1..n : registry[k] = retrained(registry[k - 1], runs[k])
  PROVE  BestActive(registry[n])
<1> DEFINE B == {k \in 0..n : ~(registry[k] \in Seq(Version) /\ BestActive(registry[k]))}
<1>1. SUFFICES ASSUME B # {} PROVE FALSE
  OBVIOUS
<1>2. PICK m \in B : \A k \in B : m <= k
  <2>1. B \in SUBSET Nat
    OBVIOUS
  <2> HIDE DEF B
  <2> QED  BY <1>1, <2>1, SmallestIn
<1>3. m \in 0..n /\ ~(registry[m] \in Seq(Version) /\ BestActive(registry[m]))
  OBVIOUS
<1>4. m # 0
  <2>1. <<>> \in Seq(Version) /\ DOMAIN (<<>>) = {}
    OBVIOUS
  <2>2. get_current_model(<<>>) = 0
    BY <2>1 DEF get_current_model
  <2>3. BestActive(<<>>)
    BY <2>1, <2>2 DEF BestActive
  <2> QED  BY <1>3, <2>1, <2>3
<1>5. m \in 1..n /\ m - 1 \in 0..n /\ ~(m <= m - 1)
  BY <1>3, <1>4
<1>6. registry[m - 1] \in Seq(Version) /\ BestActive(registry[m - 1])
  BY <1>2, <1>5
<1>7. runs[m] \in [version_id : Int, mape : Nat] /\ registry[m] = retrained(registry[m - 1], runs[m])
  BY <1>5
<1> QED  BY <1>3, <1>6, <1>7, RetrainedIsBest
=============================================================================

-------------------------- MODULE ProjectionsProofs --------------------------
(***************************************************************************)
(* What a persisted read model keeps for any number of callers, any log,   *)
(* any batch size and any number of failures: a projection is the fold of  *)
(* the log up to its position, and a call returns one that is up to date.  *)
(***************************************************************************)
EXTENDS Projections, EventLogProofs

(* The events the view wants, after a position. *)
Due(p) == Matching(log, Wanted, p)

(* What the call has in hand misses nothing recorded before it began. *)
CaughtUpWith(c) == \A p \in Due(0) : p <= since[c] => p <= projection[c].position

PInv ==
    /\ TypeOK
    /\ ViewFaithful
    /\ stored.position <= Len(log)
    /\ \A c \in Caller : projection[c].position <= Len(log) /\ since[c] <= Len(log)
    /\ \A c \in Caller : pc[c] # "idle" => answer[c] = "None"
    /\ \A c \in Caller : answer[c] = "Ok" \/ pc[c] = "save" => CaughtUpWith(c)

-----------------------------------------------------------------------------
(* Positions are numbers within the log. *)
LEMMA Places ==
    ASSUME TypeOK
    PROVE  /\ log \in Seq(Name) /\ Len(log) \in Nat /\ MaxLog \in Nat /\ Len(log) <= MaxLog
           /\ stored \in Projection /\ stored.position \in 0..MaxLog
           /\ \A c \in Caller : /\ projection[c] \in Projection
                                /\ projection[c].position \in 0..MaxLog
                                /\ since[c] \in 0..MaxLog
<1>1. MaxLog \in Nat
    BY ProjectionsAssumption
<1>2. Len(log) \in Nat
    BY LenProperties DEF TypeOK
<1> QED BY <1>1, <1>2 DEF TypeOK, Projection

(* Due(p) is the part after p of all that the view ever wants. *)
LEMMA DueIs ==
    ASSUME TypeOK, NEW p \in Nat
    PROVE  /\ Due(p) \subseteq 1..Len(log)
           /\ \A S : S \subseteq Due(p) => Positions(S)
           /\ \A q : q \in Due(p) <=> q \in Due(0) /\ q > p
    BY MatchingIs DEF TypeOK, Due

(* Projection::default() is the fold of nothing. *)
LEMMA EmptyIs ==
    ASSUME TypeOK
    PROVE  Empty \in Projection /\ Exactly(Empty) /\ Empty.position = 0
<1>1. MaxLog \in Nat /\ Due(0) \subseteq 1..Len(log) /\ Len(log) \in Nat
    BY Places, DueIs
<1>2. Empty \in Projection /\ Empty.position = 0 /\ Empty.view = <<>>
    BY <1>1, EmptySeq DEF Empty, Projection
<1>3. {q \in Matching(log, Wanted, 0) : q <= 0} = {}
    BY <1>1 DEF Due
<1>4. Positions({})
    BY FS_EmptySet DEF Positions
<1>5. Ascending({}) \in Seq({}) /\ Len(Ascending({})) = 0
    BY <1>4, AscendingIs, FS_EmptySet
<1>6. Ascending({}) = <<>>
    BY <1>5, EmptySeq
<1> QED BY <1>2, <1>3, <1>6 DEF Exactly

(* A view that is the fold of the log up to its position has applied every *)
(* event up to there.                                                      *)
LEMMA ViewHasAll ==
    ASSUME TypeOK, NEW proj \in Projection, Exactly(proj),
           NEW p \in Due(0), p <= proj.position
    PROVE  \E i \in DOMAIN proj.view : proj.view[i] = p
<1> DEFINE S == {q \in Matching(log, Wanted, 0) : q <= proj.position}
<1>1. p \in S /\ proj.view = Ascending(S)
    BY DEF Exactly, Due
<1>2. Positions(S)
    BY DueIs DEF Due
<1> HIDE DEF S
<1>3. /\ Ascending(S) \in Seq(S) /\ Len(Ascending(S)) = Cardinality(S)
      /\ \E k \in 1..Cardinality(S) : Ascending(S)[k] = p
    BY <1>1, <1>2, AscendingIs
<1>4. DOMAIN Ascending(S) = 1..Cardinality(S)
    BY <1>3, LenProperties
<1> QED BY <1>1, <1>3, <1>4

(* A page of the log, and what the call has after folding it. *)
LEMMA PageIs ==
    ASSUME TypeOK, NEW c \in Caller
    PROVE  /\ Page(c) \subseteq Due(projection[c].position) /\ Positions(Page(c))
           /\ Page(c) \subseteq 1..Len(log)
           /\ \A q \in Due(projection[c].position), p \in Page(c) : q <= p => q \in Page(c)
           /\ Page(c) = {} => Due(projection[c].position) = {}
<1>1. /\ log \in Seq(Name) /\ projection[c].position \in Nat /\ BatchSize \in Nat
    BY Places, ProjectionsAssumption
<1>2. Due(projection[c].position) \subseteq 1..Len(log)
    BY <1>1, DueIs
<1> QED BY <1>1, <1>2, ReadAllIs DEF Page, Due

(* Folding a page onto an exact projection gives an exact one. *)
LEMMA FoldedIs ==
    ASSUME TypeOK, NEW c \in Caller, Exactly(projection[c]), Page(c) # {}
    PROVE  /\ Folded(projection[c], Page(c)) \in Projection
           /\ Folded(projection[c], Page(c)).position <= Len(log)
           /\ Exactly(Folded(projection[c], Page(c)))
<1> DEFINE page == Page(c)
           base == projection[c]
           last == CHOOSE p \in page : \A q \in page : q <= p
           S == {q \in Due(0) : q <= base.position}
           T == {q \in Due(0) : q <= last}
<1>1. /\ page \subseteq Due(base.position) /\ Positions(page) /\ page # {}
      /\ page \subseteq 1..Len(log)
      /\ \A q \in Due(base.position), p \in page : q <= p => q \in page
    BY PageIs
<1>2. /\ base \in Projection /\ base.view \in Seq(1..MaxLog) /\ base.position \in Nat
      /\ Len(log) \in Nat /\ MaxLog \in Nat /\ Len(log) <= MaxLog
    BY Places DEF Projection
<1>3. /\ Due(0) \subseteq 1..Len(log) /\ Positions(S)
      /\ \A q : q \in Due(base.position) <=> q \in Due(0) /\ q > base.position
    BY <1>2, DueIs
<1> HIDE DEF page
<1>4. last \in page /\ \A q \in page : q <= last
    BY <1>1, LastIs
<1> HIDE DEF last, base, S
<1>5. last \in 1..Len(log)
    BY <1>1, <1>4
<1>6. S \cup page = T
    <2>1. ASSUME NEW q \in T PROVE q \in S \cup page
        <3>1. q \in Due(0) /\ q <= last /\ q \in 1..Len(log)
            BY <1>3
        <3>2. CASE q <= base.position
            BY <3>1, <3>2 DEF S
        <3>3. CASE q > base.position
            BY <1>1, <1>3, <1>4, <3>1, <3>3
        <3> QED BY <1>2, <3>1, <3>2, <3>3
    <2>2. ASSUME NEW q \in S PROVE q \in T
        <3>1. q \in Due(0) /\ q <= base.position /\ q \in 1..Len(log)
            BY <1>3 DEF S
        <3>2. last > base.position
            BY <1>1, <1>3, <1>4
        <3> QED BY <1>2, <1>5, <3>1, <3>2
    <2>3. ASSUME NEW q \in page PROVE q \in T
        BY <1>1, <1>3, <1>4
    <2> QED BY <2>1, <2>2, <2>3
<1>7. ASSUME NEW p \in S, NEW q \in page PROVE p < q
    <2>1. p \in 1..Len(log) /\ q \in 1..Len(log) /\ p <= base.position /\ q > base.position
        BY <1>1, <1>3 DEF S
    <2> QED BY <1>2, <2>1
<1>8. base.view = Ascending(S)
    BY DEF Exactly, S, base, Due
<1>9. base.view \o Ascending(page) = Ascending(T)
    BY <1>1, <1>3, <1>6, <1>7, <1>8, AscendingConcat
<1>10. base.view \o Ascending(page) \in Seq(1..MaxLog)
    <2>1. Ascending(page) \in Seq(page)
        BY <1>1, AscendingIs
    <2>2. page \subseteq 1..MaxLog
        BY <1>1, <1>2
    <2>3. Ascending(page) \in Seq(1..MaxLog)
        BY <2>1, <2>2, SeqMonotonic
    <2> QED BY <1>2, <2>3, ConcatProperties
<1>11. Folded(base, page) = [view |-> base.view \o Ascending(page), position |-> last]
    BY DEF Folded, last
<1>12. Folded(base, page) \in Projection
    <2>1. last \in 0..MaxLog
        BY <1>2, <1>5
    <2> QED BY <1>10, <1>11, <2>1 DEF Projection
<1>13. Folded(base, page).position <= Len(log)
    BY <1>2, <1>5, <1>11
<1>14. Exactly(Folded(base, page))
    BY <1>9, <1>11 DEF Exactly, Due
<1> QED BY <1>12, <1>13, <1>14 DEF base, page

-----------------------------------------------------------------------------
(* The steps. *)

(* A projection that is the fold of the log up to its position. *)
Good(proj) == proj \in Projection /\ proj.position <= Len(log) /\ Exactly(proj)

(* Every projection a step can put anywhere is a good one. *)
LEMMA AllGood ==
    ASSUME PInv
    PROVE  /\ Good(stored) /\ Good(Empty)
           /\ \A c \in Caller : Good(projection[c])
           /\ \A c \in Caller : Page(c) # {} => Good(Folded(projection[c], Page(c)))
<1>1. TypeOK /\ Len(log) \in Nat
    BY Places DEF PInv
<1>2. Good(stored) /\ \A c \in Caller : Good(projection[c])
    BY <1>1, Places DEF PInv, ViewFaithful, Good
<1>3. Good(Empty)
    BY <1>1, EmptyIs DEF Good
<1>4. ASSUME NEW c \in Caller, Page(c) # {} PROVE Good(Folded(projection[c], Page(c)))
    BY <1>1, <1>2, <1>4, FoldedIs DEF Good
<1> QED BY <1>2, <1>3, <1>4

(* A new event is at the end of the log. *)
LEMMA RecordIs ==
    ASSUME TypeOK, Record
    PROVE  /\ log' \in Seq(Name) /\ Len(log') = Len(log) + 1 /\ Len(log') <= MaxLog
           /\ Due(0) \subseteq Due(0)'
           /\ \A q \in Due(0)' : q \in Due(0) \/ q = Len(log) + 1
<1>1. PICK name \in Name : log' = Append(log, name)
    BY DEF Record
<1>2. log \in Seq(Name) /\ Len(log) \in Nat /\ MaxLog \in Nat /\ Len(log) < MaxLog
    BY Places DEF Record
<1>3. log' \in Seq(Name) /\ Len(log') = Len(log) + 1
    BY <1>1, <1>2, AppendProperties
<1>4. Due(0) \subseteq Due(0)' /\ \A q \in Due(0)' : q \in Due(0) \/ q = Len(log) + 1
    BY <1>1, <1>2, MatchingGrows DEF Due
<1> QED BY <1>2, <1>3, <1>4

(* An event that is recorded later changes no fold of the log so far. *)
LEMMA GoodStays ==
    ASSUME TypeOK, Record \/ log' = log, NEW proj, Good(proj)
    PROVE  Good(proj)'
<1>1. CASE log' = log
    BY <1>1 DEF Good, Exactly
<1>2. CASE Record
    <2>1. /\ Len(log') = Len(log) + 1 /\ Len(log) \in Nat
          /\ Due(0) \subseteq Due(0)' /\ \A q \in Due(0)' : q \in Due(0) \/ q = Len(log) + 1
        BY <1>2, RecordIs, Places
    <2>2. proj.position \in Nat /\ proj.position <= Len(log)
        BY ProjectionsAssumption DEF Good, Projection
    <2>3. ~(Len(log) + 1 <= proj.position)
        BY <2>1, <2>2
    <2>4. {q \in Due(0)' : q <= proj.position} = {q \in Due(0) : q <= proj.position}
        BY <2>1, <2>3
    <2>5. Exactly(proj)'
        BY <2>4 DEF Good, Exactly, Due
    <2> QED BY <2>1, <2>2, <2>5 DEF Good
<1> QED BY <1>1, <1>2

(* Where the stored projection and the ones in hand come from. *)
LEMMA HandSteps ==
    ASSUME TypeOK, [Next]_vars
    PROVE  /\ Record \/ log' = log
           /\ stored' = stored \/ \E c \in Caller : stored' = projection[c]
           /\ \A c \in Caller :
                \/ projection'[c] \in {projection[c], stored, Empty}
                \/ Page(c) # {} /\ projection'[c] = Folded(projection[c], Page(c))
<1> USE DEF TypeOK
<1>1. CASE Record \/ UNCHANGED vars
    BY <1>1 DEF Record, vars
<1>2. ASSUME NEW c \in Caller,
             BeginReplay(c) \/ BeginCatchUp(c) \/ Step(c) \/ Fail(c)
      PROVE  /\ log' = log
             /\ stored' = stored \/ stored' = projection[c]
    BY <1>2 DEF BeginReplay, BeginCatchUp, BeginWith, Step, FoldPage, CaughtUp, SaveOrReturn, Save,
                ReadFails, Fail
<1>3. ASSUME NEW c \in Caller, BeginReplay(c) \/ BeginCatchUp(c) PROVE
             \A d \in Caller : projection'[d] \in {projection[d], stored, Empty}
    BY <1>3 DEF BeginReplay, BeginCatchUp, BeginWith
<1>4. ASSUME NEW c \in Caller, FoldPage(c)
      PROVE  \A d \in Caller :
                \/ projection'[d] \in {projection[d], stored, Empty}
                \/ Page(d) # {} /\ projection'[d] = Folded(projection[d], Page(d))
    BY <1>4 DEF FoldPage
<1>5. ASSUME NEW c \in Caller, CaughtUp(c) \/ Save(c) PROVE projection' = projection
    BY <1>5 DEF CaughtUp, SaveOrReturn, Save, Return
<1>6. ASSUME NEW c \in Caller, ReadFails(c) \/ Fail(c)
      PROVE  \A d \in Caller : projection'[d] \in {projection[d], stored, Empty}
    BY <1>6 DEF ReadFails, Fail, Abandon
<1> QED BY <1>1, <1>2, <1>3, <1>4, <1>5, <1>6 DEF Next, Step

(* Projections stay the folds of what they cover. *)
LEMMA GoodStep ==
    ASSUME PInv, [Next]_vars
    PROVE  Good(stored)' /\ \A c \in Caller : Good(projection[c])'
<1>1. TypeOK
    BY DEF PInv
<1>2. ASSUME NEW proj, Good(proj) PROVE Good(proj)'
    BY <1>1, <1>2, HandSteps, GoodStays
<1>3. ASSUME NEW proj, Good(proj) PROVE proj = stored' => Good(stored)'
    BY <1>2, <1>3 DEF Good, Exactly
<1>4. Good(stored)'
    BY <1>1, <1>3, AllGood, HandSteps
<1>5. ASSUME NEW c \in Caller PROVE Good(projection[c])'
    <2>1. ASSUME NEW proj, Good(proj), proj = projection'[c] PROVE Good(projection[c])'
        BY <1>2, <2>1 DEF Good, Exactly
    <2>2. \E proj \in {projection[c], stored, Empty, Folded(projection[c], Page(c))} :
              Good(proj) /\ proj = projection'[c]
        BY <1>1, AllGood, HandSteps
    <2> QED BY <2>1, <2>2
<1> QED BY <1>4, <1>5

(* Types are kept. *)
LEMMA TypeStep ==
    ASSUME PInv, [Next]_vars
    PROVE  TypeOK'
<1> USE DEF TypeOK
<1>1. TypeOK /\ MaxLog \in Nat /\ Len(log) \in 0..MaxLog
    BY Places DEF PInv
<1>2. stored' \in Projection /\ \A c \in Caller : projection'[c] \in Projection
    BY GoodStep DEF Good
<1>3. CASE Record
    BY <1>1, <1>3, RecordIs DEF Record
<1>4. ASSUME NEW c \in Caller, BeginReplay(c) \/ BeginCatchUp(c) PROVE TypeOK'
    <2>1. PICK m \in {"catch_up_view", "replay_view"}, start \in {Empty, stored} : BeginWith(c, m, start)
        BY <1>4 DEF BeginReplay, BeginCatchUp
    <2>2. start \in Projection
        BY <1>1, EmptyIs
    <2>3. since' \in [Caller -> 0..MaxLog] /\ projection' \in [Caller -> Projection]
        BY <1>1, <2>1, <2>2 DEF BeginWith
    <2> QED BY <1>1, <2>1, <2>3 DEF BeginWith, Goto
<1>5. ASSUME NEW c \in Caller, FoldPage(c) PROVE TypeOK'
    <2>1. projection' \in [Caller -> Projection]
        BY <1>1, <1>2, <1>5 DEF FoldPage
    <2> QED BY <1>1, <1>5, <2>1 DEF FoldPage
<1>6. ASSUME NEW c \in Caller, CaughtUp(c) PROVE TypeOK'
    BY <1>1, <1>6 DEF CaughtUp, SaveOrReturn, Return, End, Goto
<1>7. ASSUME NEW c \in Caller, Save(c) PROVE TypeOK'
    BY <1>1, <1>2, <1>7 DEF Save, Return, End, Goto
<1>8. ASSUME NEW c \in Caller, ReadFails(c) \/ Fail(c) PROVE TypeOK'
    <2>1. Abandon(c) /\ UNCHANGED <<log, stored>> /\ failures' \in 0..MaxFailures
        BY <1>1, <1>8, ProjectionsAssumption DEF ReadFails, Fail
    <2>2. projection' \in [Caller -> Projection] /\ since' \in [Caller -> 0..MaxLog]
        BY <1>1, <2>1, EmptyIs DEF Abandon
    <2> QED BY <1>1, <2>1, <2>2 DEF Abandon, End, Goto
<1>9. CASE UNCHANGED vars
    BY <1>1, <1>9 DEF vars
<1> QED BY <1>3, <1>4, <1>5, <1>6, <1>7, <1>8, <1>9 DEF Next, Step

(* What a call has caught up with stays: later events come after it. *)
LEMMA CaughtUpStays ==
    ASSUME PInv, Record \/ log' = log, NEW c \in Caller, CaughtUpWith(c),
           projection'[c] = projection[c], since'[c] = since[c]
    PROVE  CaughtUpWith(c)'
<1>1. TypeOK /\ since[c] <= Len(log)
    BY DEF PInv
<1>2. CASE log' = log
    BY <1>2 DEF CaughtUpWith, Due
<1>3. CASE Record
    <2>1. Len(log) \in Nat /\ since[c] \in Nat /\ MaxLog \in Nat
          /\ \A q \in Due(0)' : q \in Due(0) \/ q = Len(log) + 1
        BY <1>1, <1>3, RecordIs, Places
    <2>2. ~(Len(log) + 1 <= since[c])
        BY <1>1, <2>1
    <2> QED BY <2>1, <2>2 DEF CaughtUpWith
<1> QED BY <1>2, <1>3

(* An empty page says that nothing is missed. *)
LEMMA NothingDueIsCaughtUp ==
    ASSUME TypeOK, NEW c \in Caller, Page(c) = {}
    PROVE  CaughtUpWith(c)
<1>1. Due(projection[c].position) = {} /\ projection[c].position \in Nat
    BY PageIs, Places
<1>2. ASSUME NEW p \in Due(0) PROVE p <= projection[c].position
    <2>1. ~(p > projection[c].position)
        BY <1>1, DueIs
    <2>2. p \in 1..Len(log) /\ Len(log) \in Nat
        BY DueIs, Places
    <2> QED BY <1>1, <2>1, <2>2
<1> QED BY <1>2 DEF CaughtUpWith

(* A call keeps what it holds, or it is begun, abandoned, or goes on as    *)
(* below.                                                                  *)
LEMMA CallsStep ==
    ASSUME PInv, [Next]_vars, NEW c \in Caller
    PROVE  /\ since'[c] <= Len(log')
           /\ pc'[c] # "idle" => answer'[c] = "None"
           /\ answer'[c] = "Ok" \/ pc'[c] = "save" => CaughtUpWith(c)'
<1> USE DEF TypeOK
<1>1. /\ TypeOK /\ since[c] <= Len(log) /\ Len(log) \in Nat /\ MaxLog \in Nat /\ since[c] \in 0..MaxLog
      /\ pc[c] # "idle" => answer[c] = "None"
      /\ answer[c] = "Ok" \/ pc[c] = "save" => CaughtUpWith(c)
    BY Places DEF PInv
<1>2. Record \/ log' = log
    BY <1>1, HandSteps
<1>3. Len(log') \in Nat /\ Len(log) <= Len(log')
    BY <1>1, <1>2, RecordIs
<1>4. ASSUME UNCHANGED <<pc[c], answer[c], projection[c], since[c]>>
      PROVE  /\ since'[c] <= Len(log')
             /\ pc'[c] # "idle" => answer'[c] = "None"
             /\ answer'[c] = "Ok" \/ pc'[c] = "save" => CaughtUpWith(c)'
    BY <1>1, <1>2, <1>3, <1>4, CaughtUpStays
<1>5. CASE Record \/ UNCHANGED vars
    BY <1>4, <1>5 DEF Record, vars
<1>6. ASSUME NEW d \in Caller, d # c,
             BeginReplay(d) \/ BeginCatchUp(d) \/ Step(d) \/ Fail(d)
      PROVE  UNCHANGED <<pc[c], answer[c], projection[c], since[c]>>
    <2>1. pc'[c] = pc[c]
        BY <1>1, <1>6 DEF BeginReplay, BeginCatchUp, BeginWith, Step, FoldPage, CaughtUp, SaveOrReturn,
                          Save, ReadFails, Fail, Abandon, Return, End, Goto
    <2>2. answer'[c] = answer[c]
        BY <1>1, <1>6 DEF BeginReplay, BeginCatchUp, BeginWith, Step, FoldPage, CaughtUp, SaveOrReturn,
                          Save, ReadFails, Fail, Abandon, Return
    <2>3. projection'[c] = projection[c] /\ since'[c] = since[c]
        BY <1>1, <1>6 DEF BeginReplay, BeginCatchUp, BeginWith, Step, FoldPage, CaughtUp, SaveOrReturn,
                          Save, ReadFails, Fail, Abandon, Return
    <2> QED BY <2>1, <2>2, <2>3
<1>7. CASE BeginReplay(c) \/ BeginCatchUp(c)
    <2>1. pc'[c] = "read" /\ answer'[c] = "None" /\ since'[c] = Len(log) /\ log' = log
        BY <1>1, <1>7 DEF BeginReplay, BeginCatchUp, BeginWith, Goto
    <2> QED BY <1>1, <2>1
<1>8. CASE FoldPage(c)
    <2>1. pc' = pc /\ answer' = answer /\ since' = since /\ log' = log /\ pc[c] = "read"
        BY <1>8 DEF FoldPage
    <2> QED BY <1>1, <2>1
<1>9. CASE CaughtUp(c)
    <2>1. /\ log' = log /\ projection' = projection /\ since' = since
          /\ pc[c] = "read" /\ Page(c) = {}
          /\ \/ pc'[c] = "save" /\ answer' = answer
             \/ pc'[c] = "idle" /\ answer'[c] = "Ok"
        BY <1>1, <1>9 DEF CaughtUp, SaveOrReturn, Return, End, Goto
    <2>2. CaughtUpWith(c)'
        BY <1>1, <2>1, NothingDueIsCaughtUp, CaughtUpStays
    <2> QED BY <1>1, <2>1, <2>2
<1>10. CASE Save(c)
    <2>1. log' = log /\ projection' = projection /\ since' = since /\ pc[c] = "save" /\ pc'[c] = "idle"
        BY <1>1, <1>10 DEF Save, Return, End, Goto
    <2>2. CaughtUpWith(c)'
        BY <1>1, <2>1, CaughtUpStays
    <2> QED BY <1>1, <2>1, <2>2
<1>11. CASE ReadFails(c) \/ Fail(c)
    <2>1. Abandon(c) /\ log' = log
        BY <1>11 DEF ReadFails, Fail
    <2>2. pc'[c] = "idle" /\ since'[c] = 0
        BY <1>1, <2>1 DEF Abandon, End, Goto
    <2>3. Due(0) \subseteq 1..Len(log) /\ Due(0)' = Due(0)
        BY <1>1, <2>1, DueIs DEF Due
    <2>4. CaughtUpWith(c)'
        BY <1>1, <2>2, <2>3 DEF CaughtUpWith
    <2> QED BY <1>1, <2>1, <2>2, <2>4
<1> QED BY <1>4, <1>5, <1>6, <1>7, <1>8, <1>9, <1>10, <1>11 DEF Next, Step

-----------------------------------------------------------------------------
(* The two halves of the induction. *)
LEMMA InitPInv == Init => PInv
<1> SUFFICES ASSUME Init PROVE PInv
    OBVIOUS
<1>1. MaxLog \in Nat /\ MaxFailures \in Nat /\ 0 \in 0..MaxLog /\ Len(<<>>) = 0 /\ <<>> \in Seq(Name)
    BY EmptySeq, ProjectionsAssumption
<1>2. Empty \in Projection
    BY <1>1, EmptySeq DEF Empty, Projection
<1>3. TypeOK
    <2>1. /\ log \in Seq(Name) /\ Len(log) <= MaxLog /\ stored \in Projection
          /\ failures \in 0..MaxFailures
        BY <1>1, <1>2 DEF Init
    <2>2. /\ pc \in [Caller -> {"idle", "read", "save"}]
          /\ mode \in [Caller -> {"catch_up_view", "replay_view"}]
          /\ projection \in [Caller -> Projection]
          /\ changed \in [Caller -> BOOLEAN]
          /\ answer \in [Caller -> {"Ok", "None"}]
          /\ since \in [Caller -> 0..MaxLog]
        BY <1>1, <1>2 DEF Init
    <2> QED BY <2>1, <2>2 DEF TypeOK
<1>4. Exactly(Empty) /\ Empty.position = 0
    BY <1>3, EmptyIs
<1> QED BY <1>1, <1>3, <1>4 DEF Init, PInv, ViewFaithful

LEMMA StepPInv == PInv /\ [Next]_vars => PInv'
<1> SUFFICES ASSUME PInv, [Next]_vars PROVE PInv'
    OBVIOUS
<1>1. TypeOK'
    BY TypeStep
<1>2. ViewFaithful' /\ (stored.position <= Len(log))'
      /\ \A c \in Caller : (projection[c].position <= Len(log))'
    BY GoodStep DEF Good, ViewFaithful
<1> QED BY <1>1, <1>2, CallsStep DEF PInv

(* The inductive invariant holds in every state. *)
THEOREM Invariance == Spec => []PInv
<1> QED BY InitPInv, StepPInv, PTL DEF Spec

(* The model's variables keep their types. *)
THEOREM TypeCorrect == Spec => []TypeOK
<1>1. PInv => TypeOK
    BY DEF PInv
<1> QED BY <1>1, Invariance, PTL

(* Whatever calls overlap, fail or overwrite each other's document, every  *)
(* projection, stored or in hand, is the fold of the wanted events up to   *)
(* its position: each applied once, in global order.                       *)
THEOREM ViewsAreFaithful == Spec => []ViewFaithful
<1>1. PInv => ViewFaithful
    BY DEF PInv
<1> QED BY <1>1, Invariance, PTL

(* A call that succeeds returns a projection that has applied every wanted *)
(* event recorded before the call began.                                   *)
THEOREM ReturnsAreUpToDate == Spec => []ReturnsUpToDate
<1>1. PInv => ReturnsUpToDate
    <2> SUFFICES ASSUME PInv, NEW c \in Caller, answer[c] = "Ok",
                        NEW p \in Matching(log, Wanted, 0), p <= since[c]
                 PROVE  \E i \in DOMAIN projection[c].view : projection[c].view[i] = p
        BY DEF ReturnsUpToDate
    <2>1. TypeOK /\ CaughtUpWith(c) /\ Exactly(projection[c]) /\ projection[c] \in Projection
        BY Places DEF PInv, ViewFaithful
    <2>2. p \in Due(0) /\ p <= projection[c].position
        BY <2>1 DEF CaughtUpWith, Due
    <2> QED BY <2>1, <2>2, ViewHasAll
<1> QED BY <1>1, Invariance, PTL
=============================================================================

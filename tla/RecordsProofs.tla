---------------------------- MODULE RecordsProofs ----------------------------
(***************************************************************************)
(* Proofs about records and relations, for any requests, ids, fields,      *)
(* schemas, rows at first and bounds.                                      *)
(*                                                                         *)
(* What has referenced a record since its deletion began still does        *)
(* (HeldInv), so a RESTRICT check that finds nothing shows that none of it *)
(* goes through that field (RestrictInv), and what the deletion finds when *)
(* it follows a field is all of it that does (FollowInv). A change is in   *)
(* the hands of its request until it is announced (AnnounceInv).           *)
(*                                                                         *)
(* While requests come one after the other (AloneInv) all that references  *)
(* a record being deleted has done so from the start, so that a reference  *)
(* to a row that is gone is one that a deletion under way still follows,   *)
(* and what a create or an update has checked still holds at its write.    *)
(***************************************************************************)
EXTENDS Records, SequenceTheorems, TLAPS

Typed(f) == {t \in Ids : MoulOf[t] = Target[f]}

CallSteps == {"restrict", "remove", "announce", "follow"}

\* A call of deleteRecordAndCascade: its lists are of ids that the field it is at
\* may hold.
CallSet ==
  {c \in [id : Ids, step : CallSteps, fields : SUBSET Fields, todo : SUBSET Fields,
          via : Fields \cup {NoField}, kids : SUBSET [row : Ids, rest : SUBSET Ids]] :
     /\ \A k \in c.kids : c.via \in Fields /\ k.rest \subseteq Typed(c.via)
     /\ \A f \in c.fields : Target[f] = MoulOf[c.id]
     /\ c.todo \subseteq c.fields}

OpSet ==
  {o \in [kind : Kinds, id : Ids, field : Fields \cup {NoField}, value : SUBSET Ids,
          step : OpSteps, todo : SUBSET Ids] :
     /\ o.todo \subseteq o.value
     /\ o.field \in Fields => o.value \subseteq Typed(o.field)
     /\ o.kind = "update" => o.field \in Fields
     /\ o.step = "cascade" => o.kind = "delete"}

\* TypeOK, and what the calls and requests are made of.
RowsTyped ==
  /\ schema \in Schemas
  /\ live \subseteq Ids
  /\ ref \in [Ids -> [Fields -> SUBSET Ids]]
  /\ \A i \in Ids : \A f \in Fields : ref[i][f] \subseteq Typed(f)
  /\ kept \subseteq live
  /\ owed \subseteq Requests \X Ids

CallsTyped ==
  /\ op \in [Requests -> OpSet \cup {Idle}]
  /\ stack \in [Requests -> Seq(CallSet)]
  /\ \A p \in Requests : (op[p].step = "cascade") <=> (stack[p] # <<>>)
  /\ \A p \in Requests : DOMAIN held[p] = DOMAIN stack[p]

CountsTyped ==
  overlapped \in BOOLEAN /\ submitted \in 0..MaxRequests /\ faults \in 0..MaxFaults

RecordTypes == RowsTyped /\ CallsTyped /\ CountsTyped

-----------------------------------------------------------------------------
(* The stack of calls *)

\* The innermost call of p becomes c, its callers stay.
Swapped(p, c) ==
  /\ stack[p] # <<>>
  /\ Len(stack'[p]) = Len(stack[p]) /\ stack'[p][Len(stack[p])] = c
  /\ \A i \in 1 .. Len(stack[p]) - 1 : stack'[p][i] = stack[p][i]

\* It becomes c and calls d.
Called(p, c, d) ==
  /\ stack[p] # <<>>
  /\ Len(stack'[p]) = Len(stack[p]) + 1
  /\ stack'[p][Len(stack[p])] = c /\ stack'[p][Len(stack[p]) + 1] = d
  /\ \A i \in 1 .. Len(stack[p]) - 1 : stack'[p][i] = stack[p][i]

\* It has returned.
Returned(p) ==
  /\ stack[p] # <<>>
  /\ Len(stack'[p]) = Len(stack[p]) - 1
  /\ \A i \in 1 .. Len(stack[p]) - 1 : stack'[p][i] = stack[p][i]

LEMMA StackTyped ==
  ASSUME CallsTyped, NEW p \in Requests
  PROVE  /\ stack[p] \in Seq(CallSet) /\ Len(stack[p]) \in Nat
         /\ DOMAIN stack[p] = 1 .. Len(stack[p])
         /\ \A i \in 1 .. Len(stack[p]) : stack[p][i] \in CallSet
         /\ stack[p] # <<>> => Len(stack[p]) >= 1 /\ Top(p) \in CallSet
<1>1. stack[p] \in Seq(CallSet)
  BY DEF CallsTyped
<1>2. /\ Len(stack[p]) \in Nat /\ DOMAIN stack[p] = 1 .. Len(stack[p])
      /\ \A i \in 1 .. Len(stack[p]) : stack[p][i] \in CallSet
  BY <1>1, LenProperties, ElementOfSeq
<1>3. stack[p] # <<>> => Len(stack[p]) >= 1
  BY <1>1, <1>2, EmptySeq
<1> QED
  BY <1>1, <1>2, <1>3 DEF Top

LEMMA FrontSeq ==
  ASSUME NEW S, NEW s \in Seq(S), s # <<>>
  PROVE  LET f == SubSeq(s, 1, Len(s) - 1) IN
         /\ f \in Seq(S) /\ Len(f) = Len(s) - 1 /\ (f = <<>> <=> Len(s) = 1)
         /\ \A i \in 1 .. Len(s) - 1 : f[i] = s[i]
<1>1. Len(s) \in Nat \ {0} /\ \A i \in 1 .. Len(s) : s[i] \in S
  BY EmptySeq, ElementOfSeq
<1> DEFINE n == Len(s) - 1
           f == SubSeq(s, 1, n)
<1>2. n \in Nat /\ n >= 0 /\ \A i \in 1 .. n : s[i] \in S
  BY <1>1
<1> HIDE DEF n
<1>3. f \in Seq(S) /\ Len(f) = n /\ \A i \in 1 .. n : f[i] = s[i]
  BY <1>2, SubSeqProperties
<1> HIDE DEF f
<1>4. f = <<>> <=> Len(f) = 0
  BY <1>3, EmptySeq
<1>5. f = <<>> <=> Len(s) = 1
  BY <1>1, <1>3, <1>4 DEF n
<1> QED
  BY <1>3, <1>5 DEF f, n

LEMMA PushSeq ==
  ASSUME NEW S, NEW s \in Seq(S), NEW d \in S
  PROVE  LET t == s \o <<d>> IN
         /\ t \in Seq(S) /\ Len(t) = Len(s) + 1 /\ t[Len(s) + 1] = d /\ t # <<>>
         /\ \A i \in 1 .. Len(s) : t[i] = s[i]
<1>1. Len(s) \in Nat
  BY LenProperties
<1> DEFINE t == s \o <<d>>
<1>2. <<d>> \in Seq(S) /\ Len(<<d>>) = 1 /\ <<d>>[1] = d
  OBVIOUS
<1>3. /\ t \in Seq(S) /\ Len(t) = Len(s) + 1
      /\ \A i \in 1 .. Len(s) + 1 : t[i] = IF i <= Len(s) THEN s[i] ELSE <<d>>[i - Len(s)]
  BY <1>1, <1>2, ConcatProperties
<1> HIDE DEF t
<1>4. t[Len(s) + 1] = d /\ \A i \in 1 .. Len(s) : t[i] = s[i]
  BY <1>1, <1>2, <1>3
<1>5. t # <<>>
  BY <1>1, <1>3
<1> QED
  BY <1>3, <1>4, <1>5 DEF t

WithTop(s, c) == SubSeq(s, 1, Len(s) - 1) \o <<c>>

LEMMA SwapSeq ==
  ASSUME NEW S, NEW s \in Seq(S), NEW c \in S, s # <<>>
  PROVE  LET t == WithTop(s, c) IN
         /\ t \in Seq(S) /\ Len(t) = Len(s) /\ t[Len(s)] = c /\ t # <<>>
         /\ \A i \in 1 .. Len(s) - 1 : t[i] = s[i]
<1>1. Len(s) \in Nat \ {0}
  BY EmptySeq
<1> DEFINE f == SubSeq(s, 1, Len(s) - 1)
           t == f \o <<c>>
<1>2. f \in Seq(S) /\ Len(f) = Len(s) - 1 /\ \A i \in 1 .. Len(s) - 1 : f[i] = s[i]
  BY FrontSeq
<1> HIDE DEF f
<1>3. /\ t \in Seq(S) /\ Len(t) = Len(f) + 1 /\ t[Len(f) + 1] = c /\ t # <<>>
      /\ \A i \in 1 .. Len(f) : t[i] = f[i]
  BY <1>2, PushSeq
<1> HIDE DEF t
<1>4. /\ t \in Seq(S) /\ Len(t) = Len(s) /\ t[Len(s)] = c /\ t # <<>>
      /\ \A i \in 1 .. Len(s) - 1 : t[i] = s[i]
  BY <1>1, <1>2, <1>3
<1> QED
  BY <1>4 DEF t, f, WithTop

(***************************************************************************)
(* What the three forms of step do to the stacks.                          *)
(***************************************************************************)
LEMMA TrackTyped ==
  ASSUME Track
  PROVE  \A p \in Requests : DOMAIN held'[p] = DOMAIN stack'[p]
BY DEF Track

Others(p) == \A q \in Requests \ {p} : stack'[q] = stack[q] /\ op'[q] = op[q]

LEMMA SetTopTyped ==
  ASSUME CallsTyped, Track, NEW p \in Requests, stack[p] # <<>>, NEW c \in CallSet,
         SetTop(p, c), UNCHANGED op
  PROVE  CallsTyped' /\ Swapped(p, c) /\ Others(p)
<1>1. stack[p] \in Seq(CallSet) /\ stack'[p] = WithTop(stack[p], c)
  BY DEF CallsTyped, SetTop, WithTop
<1>2. Others(p)
  BY DEF CallsTyped, SetTop, Others
<1>3. stack'[p] \in Seq(CallSet) /\ stack'[p] # <<>> /\ Swapped(p, c)
  <2>1. /\ stack'[p] \in Seq(CallSet) /\ Len(stack'[p]) = Len(stack[p])
        /\ stack'[p][Len(stack[p])] = c /\ stack'[p] # <<>>
        /\ \A i \in 1 .. Len(stack[p]) - 1 : stack'[p][i] = stack[p][i]
    <3>1. PICK s \in Seq(CallSet) : s = stack[p]
      BY <1>1
    <3>2. s # <<>>
      BY <3>1
    <3>3. /\ WithTop(s, c) \in Seq(CallSet) /\ Len(WithTop(s, c)) = Len(s)
          /\ WithTop(s, c)[Len(s)] = c /\ WithTop(s, c) # <<>>
          /\ \A i \in 1 .. Len(s) - 1 : WithTop(s, c)[i] = s[i]
      BY <3>2, SwapSeq
    <3> QED
      BY <1>1, <3>1, <3>3
  <2> QED
    BY <2>1 DEF Swapped
<1>4. stack' \in [Requests -> Seq(CallSet)]
  BY <1>2, <1>3 DEF CallsTyped, SetTop, Others
<1>5. \A q \in Requests : (op'[q].step = "cascade") <=> (stack'[q] # <<>>)
  BY <1>2, <1>3 DEF CallsTyped, Others
<1> QED
  BY <1>2, <1>3, <1>4, <1>5, TrackTyped DEF CallsTyped

LEMMA ReturnTyped ==
  ASSUME CallsTyped, Track, NEW p \in Requests, stack[p] # <<>>, Return(p)
  PROVE  CallsTyped' /\ Returned(p) /\ Others(p)
<1>1. stack[p] \in Seq(CallSet) /\ stack'[p] = SubSeq(stack[p], 1, Len(stack[p]) - 1)
  BY DEF CallsTyped, Return
<1>2. op' \in [Requests -> OpSet \cup {Idle}]
  BY DEF CallsTyped, Return, End
<1>3. Others(p)
  BY DEF CallsTyped, Return, End, Others
<1>4. /\ stack'[p] \in Seq(CallSet) /\ (stack'[p] = <<>> <=> Len(stack[p]) = 1)
      /\ Returned(p)
  <2>1. /\ stack'[p] \in Seq(CallSet) /\ Len(stack'[p]) = Len(stack[p]) - 1
        /\ (stack'[p] = <<>> <=> Len(stack[p]) = 1)
        /\ \A i \in 1 .. Len(stack[p]) - 1 : stack'[p][i] = stack[p][i]
    BY <1>1, FrontSeq
  <2> QED
    BY <2>1 DEF Returned
<1>5. stack' \in [Requests -> Seq(CallSet)]
  BY <1>3, <1>4 DEF CallsTyped, Return, Others
<1>6. (op'[p].step = "cascade") <=> (stack'[p] # <<>>)
  BY <1>4 DEF CallsTyped, Return, End, Idle
<1>7. \A q \in Requests : (op'[q].step = "cascade") <=> (stack'[q] # <<>>)
  BY <1>3, <1>6 DEF CallsTyped, Others
<1> QED
  BY <1>2, <1>3, <1>4, <1>5, <1>7, TrackTyped DEF CallsTyped

-----------------------------------------------------------------------------
(* Types *)

LEMMA CallTyped ==
  ASSUME NEW id \in Ids
  PROVE  Call(id) \in CallSet
BY DEF Call, CallSet, CallSteps, Pointing

LEMMA OpChanged ==
  ASSUME CallsTyped, Track, NEW p \in Requests, op[p].step # "cascade",
         NEW o \in OpSet \cup {Idle}, o.step # "cascade",
         op' = [op EXCEPT ![p] = o], UNCHANGED stack
  PROVE  CallsTyped'
<1>1. op' \in [Requests -> OpSet \cup {Idle}]
  BY DEF CallsTyped
<1>2. \A q \in Requests : (op'[q].step = "cascade") <=> (stack'[q] # <<>>)
  BY DEF CallsTyped
<1>3. stack' \in [Requests -> Seq(CallSet)]
  BY DEF CallsTyped
<1> QED
  BY <1>1, <1>2, <1>3, TrackTyped DEF CallsTyped

LEMMA OpEnded ==
  ASSUME CallsTyped, Track, NEW p \in Requests, op[p].step # "cascade",
         End(p), UNCHANGED stack
  PROVE  CallsTyped'
BY OpChanged DEF End, Idle

LEMMA OpMoved ==
  ASSUME CallsTyped, Track, NEW p \in Requests, NEW step \in OpSteps \ {"cascade"},
         op[p].step \in OpSteps \ {"cascade"}, Goto(p, step), UNCHANGED stack
  PROVE  CallsTyped'
<1>1. op[p] \in OpSet
  BY DEF CallsTyped, Idle, OpSteps
<1> DEFINE o == [op[p] EXCEPT !.step = step]
<1>2. o \in OpSet /\ o.step # "cascade"
  BY <1>1 DEF OpSet
<1>3. op' = [op EXCEPT ![p] = o]
  BY DEF Goto, CallsTyped
<1> HIDE DEF o
<1> QED
  BY <1>2, <1>3, OpChanged

LEMMA CheckingTyped ==
  ASSUME NEW o \in OpSet
  PROVE  Checking(o) \in OpSet /\ Checking(o).step \in {"check", "unique", "before"}
<1> PICK s \in {"check", "unique", "before"} : Checking(o) = [o EXCEPT !.step = s]
  BY DEF Checking
<1> QED
  BY DEF OpSet, OpSteps

LEMMA WriteTypes ==
  ASSUME RecordTypes, Track, NEW p \in Requests, Submit(p) \/ Write(p)
  PROVE  CallsTyped'
<1> USE DEF RecordTypes
<1>1. CASE Submit(p)
  <2>1. op[p].step # "cascade" /\ UNCHANGED stack
    BY <1>1 DEF Submit, Idle
  <2>2. PICK id \in Ids :
       \/ \E f \in FieldsOf(MoulOf[id]) : \E v \in Values(f) :
            op' = [op EXCEPT ![p] = Checking([kind |-> "create", id |-> id, field |-> f,
                                              value |-> v, step |-> "check", todo |-> v])]
       \/ \E f \in FieldsOf(MoulOf[id]) : \E v \in Values(f) :
            op' = [op EXCEPT ![p] = [kind |-> "update", id |-> id, field |-> f, value |-> v,
                                     step |-> "read", todo |-> v]]
       \/ FieldsOf(MoulOf[id]) = {}
          /\ op' = [op EXCEPT ![p] = [kind |-> "create", id |-> id, field |-> NoField, value |-> {},
                                      step |-> "before", todo |-> {}]]
       \/ op' = [op EXCEPT ![p] = [kind |-> "delete", id |-> id, field |-> NoField, value |-> {},
                                   step |-> "read", todo |-> {}]]
    BY <1>1 DEF Submit
  <2>3. \A f \in FieldsOf(MoulOf[id]) : \A v \in Values(f) :
          f \in Fields /\ v \subseteq Ids /\ v \subseteq Typed(f)
    BY DEF FieldsOf, Values, Typed
  <2>4. CASE \E f \in FieldsOf(MoulOf[id]) : \E v \in Values(f) :
            op' = [op EXCEPT ![p] = Checking([kind |-> "create", id |-> id, field |-> f,
                                              value |-> v, step |-> "check", todo |-> v])]
    <3>0. PICK f \in FieldsOf(MoulOf[id]) : \E v \in Values(f) :
            op' = [op EXCEPT ![p] = Checking([kind |-> "create", id |-> id, field |-> f,
                                              value |-> v, step |-> "check", todo |-> v])]
      BY <2>4
    <3>1. PICK v \in Values(f) :
            op' = [op EXCEPT ![p] = Checking([kind |-> "create", id |-> id, field |-> f,
                                              value |-> v, step |-> "check", todo |-> v])]
      BY <3>0
    <3> DEFINE o == [kind |-> "create", id |-> id, field |-> f,
                     value |-> v, step |-> "check", todo |-> v]
    <3>2. o \in OpSet
      BY <2>3 DEF OpSet, OpSteps, Kinds
    <3> HIDE DEF o
    <3>3. Checking(o) \in OpSet /\ Checking(o).step # "cascade"
      BY <3>2, CheckingTyped
    <3>4. op' = [op EXCEPT ![p] = Checking(o)]
      BY <3>1 DEF o
    <3> QED
      BY <3>3, <3>4, <2>1, OpChanged
  <2>5. CASE \E f \in FieldsOf(MoulOf[id]) : \E v \in Values(f) :
            op' = [op EXCEPT ![p] = [kind |-> "update", id |-> id, field |-> f, value |-> v,
                                     step |-> "read", todo |-> v]]
    <3>0. PICK f \in FieldsOf(MoulOf[id]) : \E v \in Values(f) :
            op' = [op EXCEPT ![p] = [kind |-> "update", id |-> id, field |-> f, value |-> v,
                                     step |-> "read", todo |-> v]]
      BY <2>5
    <3>1. PICK v \in Values(f) :
            op' = [op EXCEPT ![p] = [kind |-> "update", id |-> id, field |-> f, value |-> v,
                                     step |-> "read", todo |-> v]]
      BY <3>0
    <3> DEFINE o == [kind |-> "update", id |-> id, field |-> f, value |-> v,
                     step |-> "read", todo |-> v]
    <3>2. o \in OpSet /\ o.step # "cascade"
      BY <2>3 DEF OpSet, OpSteps, Kinds
    <3>4. op' = [op EXCEPT ![p] = o]
      BY <3>1
    <3> HIDE DEF o
    <3> QED
      BY <3>2, <3>4, <2>1, OpChanged
  <2>6. CASE op' = [op EXCEPT ![p] = [kind |-> "create", id |-> id, field |-> NoField,
                                      value |-> {}, step |-> "before", todo |-> {}]]
    <3> DEFINE o == [kind |-> "create", id |-> id, field |-> NoField,
                     value |-> {}, step |-> "before", todo |-> {}]
    <3>2. o \in OpSet /\ o.step # "cascade"
      BY RecordsAssumption DEF OpSet, OpSteps, Kinds
    <3>4. op' = [op EXCEPT ![p] = o]
      BY <2>6
    <3> HIDE DEF o
    <3> QED
      BY <3>2, <3>4, <2>1, OpChanged
  <2>7. CASE op' = [op EXCEPT ![p] = [kind |-> "delete", id |-> id, field |-> NoField,
                                      value |-> {}, step |-> "read", todo |-> {}]]
    <3> DEFINE o == [kind |-> "delete", id |-> id, field |-> NoField,
                     value |-> {}, step |-> "read", todo |-> {}]
    <3>2. o \in OpSet /\ o.step # "cascade"
      BY RecordsAssumption DEF OpSet, OpSteps, Kinds
    <3>4. op' = [op EXCEPT ![p] = o]
      BY <2>7
    <3> HIDE DEF o
    <3> QED
      BY <3>2, <3>4, <2>1, OpChanged
  <2> QED
    BY <2>2, <2>4, <2>5, <2>6, <2>7
<1>2. CASE Read(p)
  <2>1. op[p].step = "read" /\ op[p] \in OpSet
    BY <1>2 DEF Read, CallsTyped, Idle
  <2>2. CASE End(p) /\ UNCHANGED stack
    BY <2>1, <2>2, OpEnded
  <2>3. CASE op' = [op EXCEPT ![p] = Checking(@)] /\ UNCHANGED stack
    <3>1. op' = [op EXCEPT ![p] = Checking(op[p])]
      BY <2>3 DEF CallsTyped
    <3>2. Checking(op[p]) \in OpSet /\ Checking(op[p]).step # "cascade"
      BY <2>1, CheckingTyped
    <3> QED
      BY <2>1, <2>3, <3>1, <3>2, OpChanged
  <2>4. CASE /\ op[p].kind = "delete" /\ Goto(p, "cascade")
             /\ stack' = [stack EXCEPT ![p] = <<Call(op[p].id)>>]
    <3>1. op' \in [Requests -> OpSet \cup {Idle}]
      BY <2>1, <2>4 DEF CallsTyped, Goto, OpSet, OpSteps
    <3>2. op[p].id \in Ids
      BY <2>1 DEF OpSet
    <3>3. Call(op[p].id) \in CallSet
      BY <3>2, CallTyped
    <3>4. <<Call(op[p].id)>> \in Seq(CallSet) /\ <<Call(op[p].id)>> # <<>>
      BY <3>3
    <3>5. stack' \in [Requests -> Seq(CallSet)]
      BY <2>4, <3>4 DEF CallsTyped
    <3>6. stack'[p] # <<>> /\ op'[p].step = "cascade"
      BY <2>1, <2>4, <3>4 DEF CallsTyped, Goto, OpSet
    <3>7. \A q \in Requests : (op'[q].step = "cascade") <=> (stack'[q] # <<>>)
      BY <2>4, <3>6 DEF CallsTyped, Goto
    <3> QED
      BY <3>1, <3>5, <3>7, TrackTyped DEF CallsTyped
  <2> QED
    BY <1>2, <2>2, <2>3, <2>4 DEF Read
<1>3. CASE CheckTarget(p)
  <2>1. op[p].step = "check" /\ op[p] \in OpSet /\ UNCHANGED stack
    BY <1>3 DEF CheckTarget, CallsTyped, Idle
  <2>2. CASE End(p)
    BY <2>1, <2>2, OpEnded
  <2>3. CASE ~ End(p)
    <3>1. PICK t \in op[p].todo :
            op' = [op EXCEPT ![p] = Checking([op[p] EXCEPT !.todo = @ \ {t}])]
      BY <1>3, <2>3 DEF CheckTarget
    <3> DEFINE o == [op[p] EXCEPT !.todo = @ \ {t}]
    <3>2. op' = [op EXCEPT ![p] = Checking(o)]
      BY <3>1
    <3>3. o \in OpSet
      BY <2>1 DEF OpSet
    <3> HIDE DEF o
    <3>4. Checking(o) \in OpSet /\ Checking(o).step # "cascade"
      BY <3>3, CheckingTyped
    <3> QED
      BY <2>1, <3>2, <3>4, OpChanged
  <2> QED
    BY <2>2, <2>3
<1>4. CASE CheckUnique(p) \/ RunBefore(p) \/ FetchBack(p) \/ Announce(p)
  <2>1. /\ op[p].step \in {"unique", "before", "fetch", "announce"} /\ UNCHANGED stack
        /\ End(p) \/ Goto(p, "before") \/ Goto(p, "write") \/ Goto(p, "announce")
    BY <1>4 DEF CheckUnique, RunBefore, FetchBack, Announce
  <2> QED
    BY <2>1, OpEnded, OpMoved DEF OpSteps
<1>5. CASE InsertRow(p) \/ UpdateRow(p)
  <2>1. op[p].step = "write" /\ UNCHANGED stack /\ (End(p) \/ Goto(p, "fetch"))
    BY <1>5 DEF InsertRow, UpdateRow
  <2> QED
    BY <2>1, OpEnded, OpMoved DEF OpSteps
<1> QED
  BY <1>1, <1>2, <1>3, <1>4, <1>5 DEF Write

-----------------------------------------------------------------------------
(* What a step makes of the innermost call *)

\* A RESTRICT field through which nothing references the record is done with.
FieldChecked(c, d) ==
  /\ c.step = "restrict"
  /\ \E f \in c.todo : Referrers(f, c.id) = {} /\ d = [c EXCEPT !.todo = @ \ {f}]

\* The checks are through.
Checked(c, d) == c.step = "restrict" /\ c.todo = {} /\ d = [c EXCEPT !.step = "remove"]

\* The row is gone.
Removed(c, d) ==
  c.step = "remove" /\ c.id \notin live' /\ d = [c EXCEPT !.step = "announce"]

\* Its deletion was announced.
Announced(c, d) ==
  /\ c.step = "announce"
  /\ d = [c EXCEPT !.step = "follow", !.todo = {f \in c.fields : Policy(f) # "RESTRICT"}]

\* The rows that reference it through a CASCADE field were found.
ChildrenFound(c, d) ==
  /\ c.step = "follow" /\ c.kids = {}
  /\ \E f \in c.todo :
       /\ Policy(f) = "CASCADE"
       /\ d = [c EXCEPT !.todo = @ \ {f}, !.via = f,
                        !.kids = {[row |-> r, rest |-> {}] : r \in Referrers(f, c.id)}]

\* One of them is gone already.
ChildGone(c, d) ==
  /\ c.step = "follow" /\ Policy(c.via) = "CASCADE"
  /\ \E k \in c.kids : k.row \notin live /\ d = [c EXCEPT !.kids = @ \ {k}]

\* A SET_NULL field was cleared.
FieldCleared(c, d) ==
  /\ c.step = "follow" /\ c.kids = {}
  /\ \E f \in c.todo :
       /\ \A r \in Referrers(f, c.id) : ref'[r][f] = {}
       /\ d = [c EXCEPT !.todo = @ \ {f}, !.via = f, !.kids = {}]

\* The lists of a SET_NULL field were read.
ListsFound(c, d) ==
  /\ c.step = "follow" /\ c.kids = {} /\ ref' = ref
  /\ \E f \in c.todo :
       /\ Policy(f) = "SET_NULL"
       /\ d = [c EXCEPT !.todo = @ \ {f}, !.via = f,
                        !.kids = {[row |-> r, rest |-> ref[r][f] \ {c.id}] :
                                    r \in Referrers(f, c.id)}]

\* One of them was written.
ListWritten(c, d) ==
  /\ c.step = "follow" /\ Policy(c.via) = "SET_NULL"
  /\ \E k \in c.kids :
       /\ ref' = IF k.row \in live THEN [ref EXCEPT ![k.row][c.via] = k.rest] ELSE ref
       /\ d = [c EXCEPT !.kids = @ \ {k}]

Advanced(c, d) ==
  \/ FieldChecked(c, d) \/ Checked(c, d) \/ Removed(c, d) \/ Announced(c, d)
  \/ ChildrenFound(c, d) \/ ChildGone(c, d) \/ FieldCleared(c, d)
  \/ ListsFound(c, d) \/ ListWritten(c, d)

\* A row that references the record through a CASCADE field is to be deleted.
ChildCalled(c, d, e) ==
  /\ c.step = "follow" /\ Policy(c.via) = "CASCADE"
  /\ \E k \in c.kids : k.row \in live /\ d = [c EXCEPT !.kids = @ \ {k}] /\ e = Call(k.row)

\* The call is over: refused, with its row kept if a cascade asked for it, or done.
Refused(p) ==
  /\ Top(p).step \in {"restrict", "remove"}
  /\ Len(stack[p]) # 1 => kept' = kept \cup ({Top(p).id} \cap live)
  /\ live' = live

CallEnds(p) == Refused(p) \/ Followed(Top(p))

\* All a step without a fault can do to the calls of p.
CallsMove(p) ==
  \/ \E d \in CallSet : Swapped(p, d) /\ Advanced(Top(p), d)
  \/ \E d, e \in CallSet : Called(p, d, e) /\ ChildCalled(Top(p), d, e)
  \/ Returned(p) /\ CallEnds(p)

LEMMA TopCall ==
  ASSUME CallsTyped, NEW p \in Requests, stack[p] # <<>>
  PROVE  /\ Top(p) \in CallSet
         /\ Len(stack[p]) \in Nat \ {0} /\ DOMAIN stack[p] = 1 .. Len(stack[p])
BY StackTyped

LEMMA RefuseMoves ==
  ASSUME CallsTyped, Track, NEW p \in Requests, stack[p] # <<>>,
         Top(p).step \in {"restrict", "remove"}, Refuse(p), UNCHANGED rows
  PROVE  CallsTyped' /\ Others(p) /\ CallsMove(p)
<1>1. CallsTyped' /\ Others(p) /\ Returned(p)
  BY ReturnTyped DEF Refuse
<1>2. Refused(p)
  BY DEF Refuse, Refused, rows
<1> QED
  BY <1>1, <1>2 DEF CallsMove, CallEnds

LEMMA SwapMoves ==
  ASSUME CallsTyped, Track, NEW p \in Requests, stack[p] # <<>>,
         NEW d \in CallSet, SetTop(p, d), UNCHANGED op, Advanced(Top(p), d)
  PROVE  CallsTyped' /\ Others(p) /\ CallsMove(p)
BY SetTopTyped DEF CallsMove

LEMMA KidsTyped ==
  ASSUME NEW c \in CallSet, NEW f \in c.todo, NEW kids,
         \A k \in kids : k \in [row : Ids, rest : SUBSET Ids] /\ k.rest \subseteq Typed(f)
  PROVE  [c EXCEPT !.todo = @ \ {f}, !.via = f, !.kids = kids] \in CallSet
<1>1. f \in Fields
  BY DEF CallSet
<1> QED
  BY <1>1 DEF CallSet

LEMMA WithoutKid ==
  ASSUME NEW c \in CallSet, NEW k
  PROVE  [c EXCEPT !.kids = @ \ {k}] \in CallSet
BY DEF CallSet

LEMMA RestrictMoves ==
  ASSUME RecordTypes, Track, NEW p \in Requests, CheckRestrict(p) \/ BeforeDelete(p)
  PROVE  CallsTyped' /\ Others(p) /\ CallsMove(p)
<1> USE DEF RecordTypes
<1>1. /\ stack[p] # <<>> /\ Top(p) \in CallSet /\ Top(p).step = "restrict"
      /\ UNCHANGED rows
  BY TopCall DEF CheckRestrict, BeforeDelete, At
<1>2. CASE Refuse(p)
  BY <1>1, <1>2, RefuseMoves
<1>3. CASE CheckRestrict(p) /\ ~Refuse(p)
  <2>1. PICK f \in Top(p).todo :
          /\ Referrers(f, Top(p).id) = {} /\ UNCHANGED op
          /\ SetTop(p, [Top(p) EXCEPT !.todo = @ \ {f}])
    BY <1>3 DEF CheckRestrict
  <2> DEFINE d == [Top(p) EXCEPT !.todo = @ \ {f}]
  <2>2. d \in CallSet
    BY <1>1 DEF CallSet
  <2>3. Advanced(Top(p), d)
    BY <1>1, <2>1 DEF Advanced, FieldChecked
  <2> QED
    BY <1>1, <2>1, <2>2, <2>3, SwapMoves
<1>4. CASE BeforeDelete(p) /\ ~Refuse(p)
  <2> DEFINE d == [Top(p) EXCEPT !.step = "remove"]
  <2>1. Top(p).todo = {} /\ SetTop(p, d) /\ UNCHANGED op
    BY <1>4 DEF BeforeDelete
  <2>2. d \in CallSet
    BY <1>1 DEF CallSet, CallSteps
  <2>3. Advanced(Top(p), d)
    BY <1>1, <2>1 DEF Advanced, Checked
  <2> QED
    BY <1>1, <2>1, <2>2, <2>3, SwapMoves
<1> QED
  BY <1>2, <1>3, <1>4

LEMMA RemoveMoves ==
  ASSUME RecordTypes, Track, NEW p \in Requests, RemoveRow(p) \/ AnnounceDelete(p)
  PROVE  CallsTyped' /\ Others(p) /\ CallsMove(p)
<1> USE DEF RecordTypes
<1>1. stack[p] # <<>> /\ Top(p) \in CallSet /\ UNCHANGED op
  BY TopCall DEF RemoveRow, AnnounceDelete, At
<1>2. CASE RemoveRow(p)
  <2> DEFINE d == [Top(p) EXCEPT !.step = "announce"]
  <2>1. SetTop(p, d) /\ Top(p).step = "remove" /\ Top(p).id \notin live'
    BY <1>2 DEF RemoveRow, At
  <2>2. d \in CallSet
    BY <1>1 DEF CallSet, CallSteps
  <2>3. Advanced(Top(p), d)
    BY <2>1 DEF Advanced, Removed
  <2> QED
    BY <1>1, <2>1, <2>2, <2>3, SwapMoves
<1>3. CASE AnnounceDelete(p)
  <2> DEFINE d == [Top(p) EXCEPT !.step = "follow",
                     !.todo = {f \in Top(p).fields : Policy(f) # "RESTRICT"}]
  <2>1. SetTop(p, d) /\ Top(p).step = "announce"
    BY <1>3 DEF AnnounceDelete, At
  <2>2. d \in CallSet
    BY <1>1 DEF CallSet, CallSteps
  <2>3. Advanced(Top(p), d)
    BY <2>1 DEF Advanced, Announced
  <2> QED
    BY <1>1, <2>1, <2>2, <2>3, SwapMoves
<1> QED
  BY <1>2, <1>3

LEMMA FindMoves ==
  ASSUME RecordTypes, Track, NEW p \in Requests,
         FindChildren(p) \/ ClearField(p) \/ FindLists(p)
  PROVE  CallsTyped' /\ Others(p) /\ CallsMove(p)
<1> USE DEF RecordTypes
<1>1. /\ stack[p] # <<>> /\ Top(p) \in CallSet /\ UNCHANGED op
      /\ Top(p).step = "follow" /\ Top(p).kids = {}
  BY TopCall DEF FindChildren, ClearField, FindLists, At
<1>2. CASE FindChildren(p)
  <2>1. PICK f \in Top(p).todo :
          /\ Policy(f) = "CASCADE"
          /\ NextField(p, f, {[row |-> r, rest |-> {}] : r \in Referrers(f, Top(p).id)})
    BY <1>2 DEF FindChildren
  <2> DEFINE kids == {[row |-> r, rest |-> {}] : r \in Referrers(f, Top(p).id)}
             d == [Top(p) EXCEPT !.todo = @ \ {f}, !.via = f, !.kids = kids]
  <2>2. \A k \in kids : k \in [row : Ids, rest : SUBSET Ids] /\ k.rest \subseteq Typed(f)
    BY DEF Referrers, RowsTyped
  <2>3. d \in CallSet
    <3> HIDE DEF kids
    <3> QED
      BY <1>1, <2>1, <2>2, KidsTyped
  <2>4. SetTop(p, d)
    BY <2>1 DEF NextField
  <2>5. Advanced(Top(p), d)
    BY <1>1, <2>1 DEF Advanced, ChildrenFound
  <2> QED
    BY <1>1, <2>3, <2>4, <2>5, SwapMoves
<1>3. CASE ClearField(p)
  <2>1. PICK f \in Top(p).todo :
          /\ ref' = [r \in Ids |-> IF r \in Referrers(f, Top(p).id)
                                   THEN [ref[r] EXCEPT ![f] = {}] ELSE ref[r]]
          /\ NextField(p, f, {})
    BY <1>3 DEF ClearField
  <2> DEFINE d == [Top(p) EXCEPT !.todo = @ \ {f}, !.via = f, !.kids = {}]
  <2>2. d \in CallSet
    BY <1>1, KidsTyped
  <2>3. SetTop(p, d)
    BY <2>1 DEF NextField
  <2>4. \A r \in Referrers(f, Top(p).id) : ref'[r][f] = {}
    BY <1>1, <2>1 DEF Referrers, RowsTyped, CallSet
  <2>5. Advanced(Top(p), d)
    BY <1>1, <2>1, <2>4 DEF Advanced, FieldCleared
  <2> QED
    BY <1>1, <2>2, <2>3, <2>5, SwapMoves
<1>4. CASE FindLists(p)
  <2>1. PICK f \in Top(p).todo :
          /\ Policy(f) = "SET_NULL"
          /\ NextField(p, f, {[row |-> r, rest |-> ref[r][f] \ {Top(p).id}] :
                                r \in Referrers(f, Top(p).id)})
    BY <1>4 DEF FindLists
  <2> DEFINE kids == {[row |-> r, rest |-> ref[r][f] \ {Top(p).id}] :
                        r \in Referrers(f, Top(p).id)}
             d == [Top(p) EXCEPT !.todo = @ \ {f}, !.via = f, !.kids = kids]
  <2>2. \A k \in kids : k \in [row : Ids, rest : SUBSET Ids] /\ k.rest \subseteq Typed(f)
    BY <1>1 DEF Referrers, RowsTyped, CallSet, Typed
  <2>3. d \in CallSet
    <3> HIDE DEF kids
    <3> QED
      BY <1>1, <2>1, <2>2, KidsTyped
  <2>4. SetTop(p, d)
    BY <2>1 DEF NextField
  <2>5. Advanced(Top(p), d)
    BY <1>1, <1>4, <2>1 DEF Advanced, ListsFound, FindLists, rows
  <2> QED
    BY <1>1, <2>3, <2>4, <2>5, SwapMoves
<1> QED
  BY <1>2, <1>3, <1>4

LEMMA RewriteMoves ==
  ASSUME RecordTypes, Track, NEW p \in Requests, RewriteList(p) \/ Deleted(p)
  PROVE  CallsTyped' /\ Others(p) /\ CallsMove(p)
<1> USE DEF RecordTypes
<1>1. stack[p] # <<>> /\ Top(p) \in CallSet
  BY TopCall DEF RewriteList, Deleted, At
<1>2. CASE RewriteList(p)
  <2>1. PICK k \in Top(p).kids :
          /\ Policy(Top(p).via) = "SET_NULL"
          /\ ref' = IF k.row \in live THEN [ref EXCEPT ![k.row][Top(p).via] = k.rest] ELSE ref
          /\ SetTop(p, [Top(p) EXCEPT !.kids = @ \ {k}])
    BY <1>2 DEF RewriteList
  <2> DEFINE d == [Top(p) EXCEPT !.kids = @ \ {k}]
  <2>2. d \in CallSet
    BY <1>1, WithoutKid
  <2>3. Top(p).step = "follow" /\ UNCHANGED op /\ k.row \in Ids /\ Top(p).via \in Fields
    BY <1>1, <1>2 DEF RewriteList, At, CallSet
  <2>5. Advanced(Top(p), d)
    BY <2>1, <2>3 DEF Advanced, ListWritten
  <2> QED
    BY <1>1, <2>1, <2>2, <2>3, <2>5, SwapMoves
<1>3. CASE Deleted(p)
  BY <1>1, <1>3, ReturnTyped DEF Deleted, CallsMove, CallEnds
<1> QED
  BY <1>2, <1>3

LEMMA ChildMoves ==
  ASSUME RecordTypes, Track, NEW p \in Requests, DeleteChild(p)
  PROVE  CallsTyped' /\ Others(p) /\ CallsMove(p)
<1> USE DEF RecordTypes
<1>1. /\ stack[p] # <<>> /\ Top(p) \in CallSet /\ stack[p] \in Seq(CallSet)
      /\ Len(stack[p]) \in Nat \ {0} /\ UNCHANGED op /\ Top(p).step = "follow"
  BY TopCall DEF DeleteChild, At, CallsTyped
<1>2. PICK k \in Top(p).kids :
        LET rest == [Top(p) EXCEPT !.kids = @ \ {k}] IN
        /\ Policy(Top(p).via) = "CASCADE"
        /\ stack' = [stack EXCEPT ![p] = SubSeq(@, 1, Len(@) - 1) \o <<rest>>
                                          \o (IF k.row \in live THEN <<Call(k.row)>> ELSE <<>>)]
  BY DEF DeleteChild
<1> DEFINE d == [Top(p) EXCEPT !.kids = @ \ {k}]
           s == WithTop(stack[p], d)
<1>3. d \in CallSet /\ k.row \in Ids
  BY <1>1, WithoutKid DEF CallSet
<1>4. PICK e \in CallSet : e = Call(k.row)
  BY <1>3, CallTyped
<1>5. stack' = [stack EXCEPT ![p] = s \o (IF k.row \in live THEN <<e>> ELSE <<>>)]
  BY <1>2, <1>4 DEF CallsTyped, WithTop
<1> HIDE DEF d
<1>6. /\ s \in Seq(CallSet) /\ Len(s) = Len(stack[p]) /\ s[Len(stack[p])] = d
      /\ \A i \in 1 .. Len(stack[p]) - 1 : s[i] = stack[p][i]
  <2>1. PICK t \in Seq(CallSet) : t = stack[p]
    BY <1>1
  <2>2. t # <<>>
    BY <1>1, <2>1
  <2>3. /\ WithTop(t, d) \in Seq(CallSet) /\ Len(WithTop(t, d)) = Len(t)
        /\ WithTop(t, d)[Len(t)] = d
        /\ \A i \in 1 .. Len(t) - 1 : WithTop(t, d)[i] = t[i]
    BY <1>3, <2>2, SwapSeq
  <2> QED
    BY <2>1, <2>3
<1> HIDE DEF s
<1>7. CASE k.row \in live
  <2>1. stack' = [stack EXCEPT ![p] = s \o <<e>>]
    BY <1>5, <1>7
  <2>2. /\ s \o <<e>> \in Seq(CallSet) /\ Len(s \o <<e>>) = Len(s) + 1
        /\ (s \o <<e>>)[Len(s) + 1] = e /\ s \o <<e>> # <<>>
        /\ \A i \in 1 .. Len(s) : (s \o <<e>>)[i] = s[i]
    BY <1>6, PushSeq
  <2>3. PICK t : t = s \o <<e>>
    OBVIOUS
  <2>4. stack' = [stack EXCEPT ![p] = t] /\ t \in Seq(CallSet) /\ t # <<>>
    BY <2>1, <2>2, <2>3
  <2>5. /\ Len(t) = Len(stack[p]) + 1 /\ t[Len(stack[p])] = d /\ t[Len(stack[p]) + 1] = e
        /\ \A i \in 1 .. Len(stack[p]) - 1 : t[i] = stack[p][i]
    BY <1>1, <1>6, <2>2, <2>3
  <2>6. stack'[p] = t /\ Others(p)
    BY <1>1, <2>4 DEF CallsTyped, Others
  <2>7. CallsTyped'
    <3>1. stack' \in [Requests -> Seq(CallSet)]
      BY <2>4 DEF CallsTyped
    <3>2. \A q \in Requests : (op'[q].step = "cascade") <=> (stack'[q] # <<>>)
      BY <1>1, <2>4, <2>6 DEF CallsTyped, Others
    <3> QED
      BY <1>1, <3>1, <3>2, TrackTyped DEF CallsTyped
  <2>8. Called(p, d, e)
    BY <1>1, <2>5, <2>6 DEF Called
  <2>9. ChildCalled(Top(p), d, e)
    BY <1>1, <1>2, <1>4, <1>7 DEF ChildCalled, d
  <2> QED
    BY <1>3, <2>6, <2>7, <2>8, <2>9 DEF CallsMove
<1>8. CASE k.row \notin live
  <2>1. stack' = [stack EXCEPT ![p] = s \o <<>>]
    BY <1>5, <1>8
  <2>2. s \o <<>> = s
    BY <1>6, ConcatEmptySeq
  <2>3. SetTop(p, d)
    BY <2>1, <2>2 DEF SetTop, s, WithTop
  <2>4. Advanced(Top(p), d)
    BY <1>1, <1>2, <1>8 DEF Advanced, ChildGone, d
  <2> QED
    BY <1>1, <1>3, <2>3, <2>4, SwapMoves
<1> QED
  BY <1>7, <1>8


LEMMA DeleteMoves ==
  ASSUME RecordTypes, Track, NEW p \in Requests, Delete(p)
  PROVE  CallsTyped' /\ Others(p) /\ CallsMove(p)
BY RestrictMoves, RemoveMoves, FindMoves, RewriteMoves, ChildMoves DEF Delete

LEMMA FaultTypes ==
  ASSUME RecordTypes, Track, NEW p \in Requests,
         StatementFails(p) \/ DeleteStatementFails(p)
  PROVE  CallsTyped'
<1> USE DEF RecordTypes
<1>1. CASE StatementFails(p)
  <2>1. /\ op[p].step \in {"read", "write", "fetch", "check", "unique"} /\ UNCHANGED stack
        /\ End(p) \/ Goto(p, "before")
    BY <1>1 DEF StatementFails
  <2> QED
    BY <2>1, OpEnded, OpMoved DEF OpSteps
<1>2. CASE DeleteStatementFails(p)
  <2>1. stack[p] # <<>> /\ Top(p) \in CallSet
    BY <1>2, TopCall DEF DeleteStatementFails, At
  <2>2. CASE Refuse(p)
    BY <2>1, <2>2, ReturnTyped DEF Refuse
  <2>3. CASE SetTop(p, [Top(p) EXCEPT !.fields = {}, !.todo = {}]) /\ UNCHANGED op
    <3>1. [Top(p) EXCEPT !.fields = {}, !.todo = {}] \in CallSet
      BY <2>1 DEF CallSet
    <3> QED
      BY <2>1, <2>3, <3>1, SetTopTyped
  <2>4. CASE \E f \in Top(p).todo :
               SetTop(p, [Top(p) EXCEPT !.todo = @ \ {f}]) /\ UNCHANGED op
    <3>1. PICK f \in Top(p).todo : SetTop(p, [Top(p) EXCEPT !.todo = @ \ {f}])
      BY <2>4
    <3>2. [Top(p) EXCEPT !.todo = @ \ {f}] \in CallSet
      BY <2>1 DEF CallSet
    <3> QED
      BY <2>1, <2>4, <3>1, <3>2, SetTopTyped
  <2>5. CASE \E f \in Top(p).todo : NextField(p, f, {}) /\ UNCHANGED op
    <3>1. PICK f \in Top(p).todo : NextField(p, f, {})
      BY <2>5
    <3>2. [Top(p) EXCEPT !.todo = @ \ {f}, !.via = f, !.kids = {}] \in CallSet
      BY <2>1, KidsTyped
    <3> QED
      BY <2>1, <2>5, <3>1, <3>2, SetTopTyped DEF NextField
  <2>6. CASE \E k \in Top(p).kids :
               SetTop(p, [Top(p) EXCEPT !.kids = @ \ {k}]) /\ UNCHANGED op
    <3>1. PICK k \in Top(p).kids : SetTop(p, [Top(p) EXCEPT !.kids = @ \ {k}])
      BY <2>6
    <3>2. [Top(p) EXCEPT !.kids = @ \ {k}] \in CallSet
      BY <2>1, WithoutKid
    <3> QED
      BY <2>1, <2>6, <3>1, <3>2, SetTopTyped
  <2> QED
    BY <1>2, <2>2, <2>3, <2>4, <2>5, <2>6 DEF DeleteStatementFails
<1> QED
  BY <1>1, <1>2

LEMMA CrashTypes ==
  ASSUME RecordTypes, Track, Crash
  PROVE  CallsTyped'
<1>1. op' = [p \in Requests |-> Idle] /\ stack' = [p \in Requests |-> <<>>]
  BY DEF Crash
<1>2. stack' \in [Requests -> Seq(CallSet)]
  BY <1>1
<1>3. \A q \in Requests : (op'[q].step = "cascade") <=> (stack'[q] # <<>>)
  BY <1>1 DEF Idle
<1> QED
  BY <1>1, <1>2, <1>3, TrackTyped DEF CallsTyped

LEMMA CallsStep ==
  ASSUME RecordTypes, Next
  PROVE  CallsTyped'
<1>1. CASE Crash
  BY <1>1, CrashTypes DEF Next
<1>2. CASE \E p \in Requests :
             Submit(p) \/ Write(p) \/ Delete(p) \/ StatementFails(p) \/ DeleteStatementFails(p)
  BY <1>2, WriteTypes, DeleteMoves, FaultTypes DEF Next
<1> QED
  BY <1>1, <1>2 DEF Next, Step

(***************************************************************************)
(* The rows keep to the types of their fields.                             *)
(***************************************************************************)
LEMMA RowsUnchanged ==
  ASSUME RowsTyped, UNCHANGED <<live, ref, schema>>,
         kept' \subseteq live, owed' \subseteq Requests \X Ids
  PROVE  RowsTyped'
BY DEF RowsTyped

LEMMA WriteRows ==
  ASSUME RecordTypes, NEW p \in Requests, Write(p)
  PROVE  RowsTyped'
<1> USE DEF RecordTypes
<1>1. CASE InsertRow(p)
  <2>1. op[p] \in OpSet
    BY <1>1 DEF InsertRow, CallsTyped, Idle
  <2>2. CASE op[p].id \in live
    BY <1>1, <2>2 DEF InsertRow, RowsTyped, rows, counts
  <2>3. CASE op[p].id \notin live
    <3> DEFINE v == [f \in Fields |-> IF f = op[p].field THEN op[p].value ELSE {}]
    <3>1. v \in [Fields -> SUBSET Ids] /\ \A f \in Fields : v[f] \subseteq Typed(f)
      BY <2>1 DEF OpSet
    <3>2. ref' = [ref EXCEPT ![op[p].id] = v] /\ op[p].id \in Ids
      BY <1>1, <2>1, <2>3 DEF InsertRow, OpSet
    <3> HIDE DEF v
    <3>3. ref' \in [Ids -> [Fields -> SUBSET Ids]]
      BY <3>1, <3>2 DEF RowsTyped
    <3>4. \A i \in Ids : \A f \in Fields : ref'[i][f] \subseteq Typed(f)
      BY <3>1, <3>2 DEF RowsTyped
    <3>5. UNCHANGED <<schema, kept>> /\ live' = live \cup {op[p].id}
      BY <1>1, <2>3 DEF InsertRow, counts
    <3>6. owed' \subseteq Requests \X Ids
      BY <1>1, <2>3, <3>2 DEF InsertRow, RowsTyped
    <3> QED
      BY <3>2, <3>3, <3>4, <3>5, <3>6 DEF RowsTyped
  <2> QED
    BY <2>2, <2>3
<1>2. CASE UpdateRow(p)
  <2>1. op[p] \in OpSet /\ op[p].kind = "update"
    BY <1>2 DEF UpdateRow, CallsTyped, Idle
  <2>2. op[p].id \in Ids /\ op[p].field \in Fields /\ op[p].value \subseteq Typed(op[p].field)
    BY <2>1 DEF OpSet
  <2>3. /\ ref' = [ref EXCEPT ![op[p].id][op[p].field] = op[p].value] \/ ref' = ref
        /\ owed' \subseteq owed \cup {<<p, op[p].id>>}
        /\ UNCHANGED <<live, schema, kept>>
    BY <1>2 DEF UpdateRow, counts
  <2>4. ref' \in [Ids -> [Fields -> SUBSET Ids]]
    <3>1. CASE ref' = ref
      BY <3>1 DEF RowsTyped
    <3>2. CASE ref' = [ref EXCEPT ![op[p].id][op[p].field] = op[p].value]
      BY <2>2, <3>2 DEF RowsTyped, Typed
    <3> QED
      BY <2>3, <3>1, <3>2
  <2>5. \A i \in Ids : \A f \in Fields : ref'[i][f] \subseteq Typed(f)
    BY <2>2, <2>3 DEF RowsTyped
  <2> QED
    BY <2>2, <2>3, <2>4, <2>5 DEF RowsTyped
<1>3. CASE Read(p) \/ CheckTarget(p) \/ CheckUnique(p) \/ RunBefore(p) \/ FetchBack(p)
  <2>1. UNCHANGED <<live, ref, schema, kept, owed>>
    BY <1>3 DEF Read, CheckTarget, CheckUnique, RunBefore, FetchBack, rows, counts
  <2> QED
    BY <2>1 DEF RowsTyped
<1>4. CASE Announce(p)
  <2>1. UNCHANGED <<live, ref, schema, kept>> /\ owed' \subseteq owed
    BY <1>4 DEF Announce, rows, counts
  <2> QED
    BY <2>1 DEF RowsTyped
<1> QED
  BY <1>1, <1>2, <1>3, <1>4 DEF Write

LEMMA DeleteRows ==
  ASSUME RecordTypes, NEW p \in Requests, Delete(p)
  PROVE  RowsTyped'
<1> USE DEF RecordTypes
<1>1. stack[p] # <<>> /\ Top(p) \in CallSet
  BY TopCall DEF Delete, CheckRestrict, BeforeDelete, RemoveRow, AnnounceDelete, FindChildren,
                 DeleteChild, ClearField, FindLists, RewriteList, Deleted, At
<1>2. CASE CheckRestrict(p) \/ BeforeDelete(p)
  <2>1. UNCHANGED <<live, ref, schema, owed>>
    BY <1>2 DEF CheckRestrict, BeforeDelete, rows, counts
  <2>2. kept' \subseteq kept \cup live
    BY <1>2 DEF CheckRestrict, BeforeDelete, Refuse
  <2> QED
    BY <2>1, <2>2 DEF RowsTyped
<1>3. CASE RemoveRow(p)
  <2>1. /\ live' = live \ {Top(p).id} /\ ref' = [ref EXCEPT ![Top(p).id] = Empty]
        /\ kept' = kept \ {Top(p).id} /\ UNCHANGED schema
        /\ owed' \subseteq owed \cup {<<p, Top(p).id>>}
    BY <1>3 DEF RemoveRow, counts
  <2>2. Empty \in [Fields -> SUBSET Ids] /\ \A f \in Fields : Empty[f] = {}
    BY DEF Empty
  <2>3. ref' \in [Ids -> [Fields -> SUBSET Ids]]
    BY <2>1, <2>2 DEF RowsTyped
  <2>4. \A i \in Ids : \A f \in Fields : ref'[i][f] \subseteq Typed(f)
    BY <2>1, <2>2 DEF RowsTyped
  <2>5. Top(p).id \in Ids
    BY <1>1 DEF CallSet
  <2> QED
    BY <2>1, <2>3, <2>4, <2>5 DEF RowsTyped
<1>4. CASE AnnounceDelete(p)
  <2>1. UNCHANGED <<live, ref, schema, kept>> /\ owed' \subseteq owed
    BY <1>4 DEF AnnounceDelete, rows, counts
  <2> QED
    BY <2>1 DEF RowsTyped
<1>5. CASE FindChildren(p) \/ DeleteChild(p) \/ FindLists(p) \/ Deleted(p)
  <2>1. UNCHANGED <<live, ref, schema, kept, owed>>
    BY <1>5 DEF FindChildren, DeleteChild, FindLists, Deleted, rows, counts
  <2> QED
    BY <2>1 DEF RowsTyped
<1>6. CASE ClearField(p)
  <2>1. PICK f \in Top(p).todo :
          ref' = [r \in Ids |-> IF r \in Referrers(f, Top(p).id)
                                THEN [ref[r] EXCEPT ![f] = {}] ELSE ref[r]]
    BY <1>6 DEF ClearField
  <2>2. UNCHANGED <<live, schema, kept, owed>>
    BY <1>6 DEF ClearField, counts
  <2>3. ref' \in [Ids -> [Fields -> SUBSET Ids]]
    <3>1. \A r \in Ids : [ref[r] EXCEPT ![f] = {}] \in [Fields -> SUBSET Ids]
      BY DEF RowsTyped
    <3> QED
      BY <2>1, <3>1 DEF RowsTyped
  <2>4. \A i \in Ids : \A g \in Fields : ref'[i][g] \subseteq ref[i][g]
    BY <2>1 DEF RowsTyped
  <2> QED
    BY <2>2, <2>3, <2>4 DEF RowsTyped
<1>7. CASE RewriteList(p)
  <2>1. PICK k \in Top(p).kids :
          ref' = IF k.row \in live THEN [ref EXCEPT ![k.row][Top(p).via] = k.rest] ELSE ref
    BY <1>7 DEF RewriteList
  <2>2. UNCHANGED <<live, schema, kept, owed>>
    BY <1>7 DEF RewriteList, counts
  <2>3. k.row \in Ids /\ Top(p).via \in Fields /\ k.rest \subseteq Typed(Top(p).via)
    BY <1>1 DEF CallSet
  <2>4. ref' \in [Ids -> [Fields -> SUBSET Ids]]
    BY <2>1, <2>3 DEF RowsTyped, Typed
  <2>5. \A i \in Ids : \A g \in Fields : ref'[i][g] \subseteq Typed(g)
    BY <2>1, <2>3 DEF RowsTyped
  <2> QED
    BY <2>2, <2>4, <2>5 DEF RowsTyped
<1> QED
  BY <1>2, <1>3, <1>4, <1>5, <1>6, <1>7 DEF Delete


LEMMA RowsStep ==
  ASSUME RecordTypes, Next
  PROVE  RowsTyped'
<1> USE DEF RecordTypes
<1>1. CASE Crash
  <2>1. UNCHANGED <<live, ref, schema, kept>> /\ owed' = {}
    BY <1>1 DEF Crash, rows, counts
  <2> QED
    BY <2>1, RowsUnchanged DEF RowsTyped
<1>2. ASSUME NEW p \in Requests, Submit(p) \/ StatementFails(p)
      PROVE  RowsTyped'
  <2>1. UNCHANGED <<live, ref, schema, kept>> /\ owed' \subseteq owed
    BY <1>2 DEF Submit, StatementFails, rows, counts
  <2> QED
    BY <2>1, RowsUnchanged DEF RowsTyped
<1>3. ASSUME NEW p \in Requests, DeleteStatementFails(p)
      PROVE  RowsTyped'
  <2>1. UNCHANGED <<live, ref, schema, owed>>
    BY <1>3 DEF DeleteStatementFails, rows, counts
  <2>2. kept' \subseteq kept \cup live
    BY <1>3 DEF DeleteStatementFails, Refuse
  <2> QED
    BY <2>1, <2>2, RowsUnchanged DEF RowsTyped
<1> QED
  BY <1>1, <1>2, <1>3, WriteRows, DeleteRows DEF Next, Step

LEMMA CountsStep ==
  ASSUME RecordTypes, Next
  PROVE  CountsTyped'
<1> USE DEF RecordTypes
<1>1. ASSUME NEW p \in Requests, Submit(p)
      PROVE  CountsTyped'
  BY <1>1, RecordsAssumption DEF Submit, CountsTyped
<1>2. ASSUME NEW p \in Requests, Write(p)
      PROVE  UNCHANGED <<schema, overlapped, submitted, faults>>
  BY <1>2 DEF Write, Read, CheckTarget, CheckUnique, RunBefore, InsertRow, UpdateRow,
              FetchBack, Announce, counts
<1>3. ASSUME NEW p \in Requests, Delete(p)
      PROVE  UNCHANGED <<schema, overlapped, submitted, faults>>
  BY <1>3 DEF Delete, CheckRestrict, BeforeDelete, RemoveRow, AnnounceDelete, FindChildren,
              DeleteChild, ClearField, FindLists, RewriteList, Deleted, counts
<1>4. ASSUME (\E p \in Requests : StatementFails(p) \/ DeleteStatementFails(p)) \/ Crash
      PROVE  UNCHANGED <<schema, overlapped, submitted>> /\ Fault
  BY <1>4 DEF StatementFails, DeleteStatementFails, Crash, counts
<1>5. ASSUME Fault
      PROVE  faults' \in 0 .. MaxFaults
  BY <1>5, RecordsAssumption DEF CountsTyped, Fault
<1> QED
  BY <1>1, <1>2, <1>3, <1>4, <1>5 DEF Next, Step, CountsTyped

LEMMA RecordTypesInit ==
  ASSUME Init
  PROVE  RecordTypes
<1>1. ref \in [Ids -> {v \in [Fields -> SUBSET Ids] : \A f \in Fields : v[f] \in Values(f)}]
  BY DEF Init
<1>2. ref \in [Ids -> [Fields -> SUBSET Ids]]
  BY <1>1
<1>3. \A i \in Ids : \A f \in Fields : ref[i][f] \subseteq Typed(f)
  BY <1>1 DEF Values, Typed
<1>4. RowsTyped
  BY <1>2, <1>3, RecordsAssumption DEF Init, RowsTyped
<1>5. CallsTyped
  <2>1. stack \in [Requests -> Seq(CallSet)]
    BY DEF Init
  <2> QED
    BY <2>1 DEF Init, CallsTyped, Idle
<1>6. CountsTyped
  <2>1. overlapped \in BOOLEAN
    BY DEF Init
  <2>2. submitted \in 0 .. MaxRequests /\ faults \in 0 .. MaxFaults
    BY RecordsAssumption DEF Init
  <2> QED
    BY <2>1, <2>2 DEF CountsTyped
<1> QED
  BY <1>4, <1>5, <1>6 DEF RecordTypes

LEMMA RecordTypesStep ==
  ASSUME RecordTypes, [Next]_vars
  PROVE  RecordTypes'
<1>1. CASE Next
  BY <1>1, CallsStep, RowsStep, CountsStep DEF RecordTypes
<1>2. CASE UNCHANGED vars
  BY <1>2 DEF vars, RecordTypes, RowsTyped, CallsTyped, CountsTyped
<1> QED
  BY <1>1, <1>2

LEMMA RecordTypesOK ==
  ASSUME RecordTypes
  PROVE  TypeOK
<1> USE DEF RecordTypes
<1>1. /\ schema \in Schemas /\ live \subseteq Ids /\ DOMAIN ref = Ids
      /\ \A i \in Ids : \A f \in Fields : ref[i][f] \subseteq {t \in Ids : MoulOf[t] = Target[f]}
      /\ kept \subseteq live /\ owed \subseteq Requests \X Ids
  BY DEF RowsTyped, Typed
<1>2. ASSUME NEW p \in Requests
      PROVE  /\ op[p] = Idle \/ (op[p].kind \in Kinds /\ op[p].step \in OpSteps)
             /\ op[p].todo \subseteq op[p].value
             /\ (op[p].step = "cascade") = (stack[p] # <<>>)
             /\ DOMAIN held[p] = DOMAIN stack[p]
  BY DEF CallsTyped, OpSet, Idle
<1> QED
  BY <1>1, <1>2 DEF CountsTyped, TypeOK

\* Only ids that exist, in fields of the right collection, are ever referenced,
\* and a request is in a cascade exactly while it has calls of
\* deleteRecordAndCascade.
THEOREM RecordsTyped == Spec => []TypeOK
<1>1. RecordTypes /\ [Next]_vars => RecordTypes'
  BY RecordTypesStep
<1> QED
  BY RecordTypesInit, RecordTypesOK, <1>1, PTL DEF Spec


-----------------------------------------------------------------------------
(* What has referenced a record ever since *)

References(id) == {x \in Ids \X Fields : x[1] \in live /\ id \in ref[x[1]][x[2]]}

\* What has referenced the record of a call since the call began still does.
HeldInv ==
  \A p \in Requests : \A n \in DOMAIN stack[p] : held[p][n] \subseteq References(stack[p][n].id)

\* Of what has referenced a call's record, nothing goes through a RESTRICT field
\* that was looked at.
Unrestricted(c, h) ==
  /\ c.fields = Pointing(c.id)
  /\ \A x \in h : Policy(x[2]) = "RESTRICT" => c.step = "restrict" /\ x[2] \in c.todo

RestrictInv ==
  faults = 0 =>
    \A p \in Requests : \A n \in DOMAIN stack[p] : Unrestricted(stack[p][n], held[p][n])

\* A reference x to the record of c is still to be followed: its field is, or its
\* row was found and is to be deleted or given a list without the id.
Pending(c, x) ==
  \/ x[2] \in c.todo
  \/ /\ x[2] = c.via
     /\ \E k \in c.kids : k.row = x[1] /\ (Policy(c.via) = "CASCADE" \/ c.id \notin k.rest)

\* The call after the n-th is about to delete the row r.
BeingDeleted(p, n, r) ==
  /\ n + 1 \in DOMAIN stack[p]
  /\ stack[p][n + 1].id = r /\ stack[p][n + 1].step \in {"restrict", "remove"}

FollowInv ==
  faults = 0 =>
    \A p \in Requests : \A n \in DOMAIN stack[p] :
      stack[p][n].step = "follow" =>
        \A x \in held[p][n] :
          Pending(stack[p][n], x) \/ x[1] \in kept \/ BeingDeleted(p, n, x[1])

\* A change that is not announced is in the hands of its request, which still
\* finds the row when it reads it back.
InHand(p, id) ==
  \/ op[p].id = id /\ (op[p].step = "announce" \/ (op[p].step = "fetch" /\ id \in live))
  \/ stack[p] # <<>> /\ Top(p).id = id /\ Top(p).step = "announce"

AnnounceInv == \A x \in owed : InHand(x[1], x[2])


(***************************************************************************)
(* One step, seen from one request's calls, from the rows that were kept   *)
(* and from the history.                                                   *)
(***************************************************************************)
LEMMA SchemaFixed ==
  ASSUME Next
  PROVE  schema' = schema
<1>1. ASSUME NEW p \in Requests, Submit(p) \/ Write(p)
      PROVE  schema' = schema
  BY <1>1 DEF Submit, Write, Read, CheckTarget, CheckUnique, RunBefore, InsertRow, UpdateRow,
              FetchBack, Announce, counts
<1>2. ASSUME NEW p \in Requests, Delete(p)
      PROVE  schema' = schema
  BY <1>2 DEF Delete, CheckRestrict, BeforeDelete, RemoveRow, AnnounceDelete, FindChildren,
              DeleteChild, ClearField, FindLists, RewriteList, Deleted, counts
<1>3. ASSUME (\E p \in Requests : StatementFails(p) \/ DeleteStatementFails(p)) \/ Crash
      PROVE  schema' = schema
  BY <1>3 DEF StatementFails, DeleteStatementFails, Crash, counts
<1> QED
  BY <1>1, <1>2, <1>3 DEF Next, Step

LEMMA NoFault ==
  ASSUME CountsTyped, Next, faults' = 0
  PROVE  /\ faults = 0
         /\ \E p \in Requests : Submit(p) \/ Write(p) \/ Delete(p)
<1>1. ASSUME Fault
      PROVE  FALSE
  BY <1>1 DEF CountsTyped, Fault
<1>2. \E p \in Requests : Submit(p) \/ Write(p) \/ Delete(p)
  BY <1>1 DEF Next, Step, StatementFails, DeleteStatementFails, Crash
<1>3. ASSUME NEW p \in Requests, Submit(p) \/ Write(p)
      PROVE  faults' = faults
  BY <1>3 DEF Submit, Write, Read, CheckTarget, CheckUnique, RunBefore, InsertRow, UpdateRow,
              FetchBack, Announce, counts
<1>4. ASSUME NEW p \in Requests, Delete(p)
      PROVE  faults' = faults
  BY <1>4 DEF Delete, CheckRestrict, BeforeDelete, RemoveRow, AnnounceDelete, FindChildren,
              DeleteChild, ClearField, FindLists, RewriteList, Deleted, counts
<1> QED
  BY <1>2, <1>3, <1>4

\* The request asks for a deletion.
Started(p) ==
  stack[p] = <<>> /\ \E e \in CallSet, id \in Ids : e = Call(id) /\ stack'[p] = <<e>>

LEMMA WriteStarts ==
  ASSUME RecordTypes, NEW p \in Requests, NEW q \in Requests, Submit(p) \/ Write(p)
  PROVE  stack'[q] = stack[q] \/ Started(q)
<1> USE DEF RecordTypes
<1>1. CASE Read(p) /\ ~ UNCHANGED stack
  <2>1. /\ op[p].step = "read" /\ op[p] \in OpSet
        /\ stack' = [stack EXCEPT ![p] = <<Call(op[p].id)>>]
    BY <1>1 DEF Read, CallsTyped, Idle
  <2>2. stack[p] = <<>> /\ op[p].id \in Ids
    BY <2>1 DEF CallsTyped, OpSet
  <2>3. PICK e \in CallSet : e = Call(op[p].id)
    BY <2>2, CallTyped
  <2>4. stack'[p] = <<e>> /\ (q # p => stack'[q] = stack[q])
    BY <2>1, <2>3 DEF CallsTyped
  <2> QED
    BY <2>2, <2>3, <2>4 DEF Started
<1>2. CASE Submit(p) \/ (Read(p) /\ UNCHANGED stack) \/ CheckTarget(p) \/ CheckUnique(p)
           \/ RunBefore(p) \/ InsertRow(p) \/ UpdateRow(p) \/ FetchBack(p) \/ Announce(p)
  BY <1>2 DEF Submit, CheckTarget, CheckUnique, RunBefore, InsertRow, UpdateRow, FetchBack,
              Announce
<1> QED
  BY <1>1, <1>2 DEF Write

LEMMA StepOfCalls ==
  ASSUME RecordTypes, Next, faults' = 0, NEW p \in Requests
  PROVE  stack'[p] = stack[p] \/ Started(p) \/ CallsMove(p)
<1>1. PICK q \in Requests : Submit(q) \/ Write(q) \/ Delete(q)
  BY NoFault DEF RecordTypes
<1>2. CASE Submit(q) \/ Write(q)
  BY <1>2, WriteStarts
<1>3. CASE Delete(q)
  BY <1>3, DeleteMoves DEF Next, Others
<1> QED
  BY <1>1, <1>2, <1>3

LEMMA KeptStays ==
  ASSUME Next, NEW r \in kept
  PROVE  r \in kept' \/ r \notin live'
<1>1. ASSUME NEW p \in Requests, Submit(p) \/ Write(p) \/ StatementFails(p)
      PROVE  kept' = kept
  BY <1>1 DEF Submit, Write, Read, CheckTarget, CheckUnique, RunBefore, InsertRow, UpdateRow,
              FetchBack, Announce, StatementFails
<1>2. ASSUME NEW p \in Requests, RemoveRow(p)
      PROVE  r \in kept' \/ r \notin live'
  BY <1>2 DEF RemoveRow
<1>3. ASSUME NEW p \in Requests, Delete(p) \/ DeleteStatementFails(p), ~RemoveRow(p)
      PROVE  kept \subseteq kept'
  BY <1>3 DEF Delete, CheckRestrict, BeforeDelete, AnnounceDelete, FindChildren, DeleteChild,
              ClearField, FindLists, RewriteList, Deleted, DeleteStatementFails, Refuse
<1>4. Crash => kept' = kept
  BY DEF Crash
<1> QED
  BY <1>1, <1>2, <1>3, <1>4 DEF Next, Step

\* A call that goes on is still referenced by no more than what it was.
LEMMA HistoryShrinks ==
  ASSUME CallsTyped, Track, NEW p \in Requests, NEW n \in DOMAIN stack'[p]
  PROVE  /\ held'[p][n] \subseteq ReferencesAfter(stack'[p][n].id)
         /\ n \in DOMAIN stack[p] => held'[p][n] \subseteq held[p][n]
BY DEF Track

LEMMA HeldStep ==
  ASSUME RecordTypes, HeldInv, [Next]_vars
  PROVE  HeldInv'
<1>1. CASE Next
  <2> SUFFICES ASSUME NEW p \in Requests, NEW n \in DOMAIN stack'[p]
               PROVE  held'[p][n] \subseteq References(stack[p][n].id)'
    BY DEF HeldInv
  <2>1. held'[p][n] \subseteq ReferencesAfter(stack'[p][n].id)
    BY <1>1, HistoryShrinks DEF Next, RecordTypes
  <2> QED
    BY <2>1 DEF ReferencesAfter, References
<1>2. CASE UNCHANGED vars
  BY <1>2 DEF vars, HeldInv, References
<1> QED
  BY <1>1, <1>2


(***************************************************************************)
(* A RESTRICT field that was looked at has no reference from before.       *)
(***************************************************************************)
LEMMA NewCallUnrestricted ==
  ASSUME RowsTyped', NEW id \in Ids, NEW h \in SUBSET ReferencesAfter(id)
  PROVE  Unrestricted(Call(id), h)
<1>1. ASSUME NEW x \in h
      PROVE  x[2] \in Pointing(id)
  BY <1>1 DEF ReferencesAfter, RowsTyped, Pointing, Typed
<1> QED
  BY <1>1 DEF Unrestricted, Call

LEMMA AdvanceSameId ==
  ASSUME NEW c \in CallSet, NEW d \in CallSet, Advanced(c, d)
  PROVE  d.id = c.id
BY DEF Advanced, FieldChecked, Checked, Removed, Announced, ChildrenFound, ChildGone,
       FieldCleared, ListsFound, ListWritten, CallSet

LEMMA AdvanceUnrestricted ==
  ASSUME NEW c \in CallSet, NEW d \in CallSet, Advanced(c, d),
         NEW h \in SUBSET References(c.id), NEW g \in SUBSET h, Unrestricted(c, h)
  PROVE  Unrestricted(d, g) /\ d.id = c.id
<1>1. CASE FieldChecked(c, d)
  <2>1. PICK f \in c.todo : Referrers(f, c.id) = {} /\ d = [c EXCEPT !.todo = @ \ {f}]
    BY <1>1 DEF FieldChecked
  <2>2. \A x \in g : x[2] # f
    BY <2>1 DEF References, Referrers
  <2> QED
    BY <1>1, <2>1, <2>2 DEF FieldChecked, Unrestricted, CallSet
<1>2. CASE Checked(c, d) \/ Removed(c, d) \/ Announced(c, d)
  BY <1>2 DEF Checked, Removed, Announced, Unrestricted, CallSet
<1>3. CASE ChildrenFound(c, d) \/ ChildGone(c, d) \/ FieldCleared(c, d)
           \/ ListsFound(c, d) \/ ListWritten(c, d)
  <2>1. c.step = "follow" /\ d.step = "follow" /\ d.fields = c.fields /\ d.id = c.id
    BY <1>3 DEF ChildrenFound, ChildGone, FieldCleared, ListsFound, ListWritten, CallSet
  <2> QED
    BY <2>1 DEF Unrestricted
<1> QED
  BY <1>1, <1>2, <1>3 DEF Advanced

LEMMA RestrictStep ==
  ASSUME RecordTypes, RecordTypes', HeldInv, RestrictInv, [Next]_vars
  PROVE  RestrictInv'
<1>1. CASE UNCHANGED vars
  <2>1. UNCHANGED <<schema, faults, stack, held>>
    BY <1>1 DEF vars
  <2> SUFFICES ASSUME faults' = 0, NEW p \in Requests, NEW n \in DOMAIN stack'[p]
               PROVE  Unrestricted(stack[p][n], held[p][n])'
    BY DEF RestrictInv
  <2>2. Unrestricted(stack[p][n], held[p][n])
    BY <2>1 DEF RestrictInv
  <2> QED
    BY <2>1, <2>2 DEF Unrestricted, Policy, Pointing
<1>2. CASE Next
  <2> SUFFICES ASSUME faults' = 0, NEW p \in Requests, NEW n \in DOMAIN stack'[p]
               PROVE  Unrestricted(stack[p][n], held[p][n])'
    BY DEF RestrictInv
  <2>1. schema' = schema /\ faults = 0
    BY <1>2, SchemaFixed, NoFault DEF RecordTypes
  <2> SUFFICES Unrestricted(stack'[p][n], held'[p][n])
    BY <2>1 DEF Unrestricted, Policy, Pointing
  <2>2. /\ held'[p][n] \subseteq ReferencesAfter(stack'[p][n].id)
        /\ n \in DOMAIN stack[p] => held'[p][n] \subseteq held[p][n]
    BY <1>2, HistoryShrinks DEF Next, RecordTypes
  <2>3. \A m \in DOMAIN stack[p] : /\ Unrestricted(stack[p][m], held[p][m])
                                   /\ held[p][m] \subseteq References(stack[p][m].id)
    BY <2>1 DEF RestrictInv, HeldInv
  <2>4. CASE n \in DOMAIN stack[p] /\ stack'[p][n] = stack[p][n]
    BY <2>2, <2>3, <2>4 DEF Unrestricted
  <2>5. ASSUME NEW id \in Ids, stack'[p][n] = Call(id)
        PROVE  Unrestricted(stack'[p][n], held'[p][n])
    <3>1. stack'[p][n].id = id
      BY <2>5 DEF Call
    <3> QED
      BY <2>2, <2>5, <3>1, NewCallUnrestricted DEF RecordTypes
  <2>6. /\ DOMAIN stack'[p] = 1 .. Len(stack'[p]) /\ Len(stack[p]) \in Nat
        /\ DOMAIN stack[p] = 1 .. Len(stack[p])
        /\ stack[p] # <<>> => Len(stack[p]) >= 1 /\ Top(p) \in CallSet
    <3>1. CallsTyped /\ CallsTyped'
      BY DEF RecordTypes
    <3>2. stack'[p] \in Seq(CallSet)
      BY <3>1 DEF CallsTyped
    <3> QED
      BY <3>1, <3>2, StackTyped, LenProperties
  <2>7. CASE stack'[p] = stack[p]
    BY <2>4, <2>7
  <2>8. CASE Started(p)
    <3>1. PICK e \in CallSet, id \in Ids : e = Call(id) /\ stack'[p] = <<e>>
      BY <2>8 DEF Started
    <3>2. stack'[p][n] = Call(id)
      BY <3>1
    <3> QED
      BY <2>5, <3>2
  <2>9. ASSUME NEW d \in CallSet, Swapped(p, d), Advanced(Top(p), d)
        PROVE  Unrestricted(stack'[p][n], held'[p][n])
    <3>1. CASE n = Len(stack[p])
      <4>1. stack'[p][n] = d /\ stack[p][n] = Top(p) /\ n \in DOMAIN stack[p]
        BY <2>6, <2>9, <3>1 DEF Swapped, Top
      <4> QED
        BY <2>2, <2>3, <2>6, <2>9, <4>1, AdvanceUnrestricted DEF Swapped
    <3>2. CASE n # Len(stack[p])
      BY <2>4, <2>6, <2>9, <3>2 DEF Swapped
    <3> QED
      BY <3>1, <3>2
  <2>10. ASSUME NEW d \in CallSet, NEW e \in CallSet, Called(p, d, e), ChildCalled(Top(p), d, e)
         PROVE  Unrestricted(stack'[p][n], held'[p][n])
    <3>1. PICK k \in Top(p).kids : d = [Top(p) EXCEPT !.kids = @ \ {k}] /\ e = Call(k.row)
      BY <2>10 DEF ChildCalled
    <3>2. CASE n = Len(stack[p]) + 1
      <4>1. k.row \in Ids /\ stack'[p][n] = Call(k.row)
        BY <2>6, <2>10, <3>1, <3>2 DEF Called, CallSet
      <4> QED
        BY <2>5, <4>1
    <3>3. CASE n = Len(stack[p])
      <4>1. stack'[p][n] = d /\ stack[p][n] = Top(p) /\ n \in DOMAIN stack[p]
        BY <2>6, <2>10, <3>3 DEF Called, Top
      <4>2. d.fields = Top(p).fields /\ d.id = Top(p).id /\ d.step = Top(p).step
            /\ d.todo = Top(p).todo
        BY <2>6, <2>10, <3>1 DEF CallSet, Called
      <4> QED
        BY <2>2, <2>3, <4>1, <4>2 DEF Unrestricted
    <3>4. CASE n # Len(stack[p]) /\ n # Len(stack[p]) + 1
      BY <2>4, <2>6, <2>10, <3>4 DEF Called
    <3> QED
      BY <3>2, <3>3, <3>4
  <2>11. CASE Returned(p)
    BY <2>4, <2>6, <2>11 DEF Returned
  <2> QED
    BY <1>2, <2>7, <2>8, <2>9, <2>10, <2>11, StepOfCalls DEF CallsMove
<1> QED
  BY <1>1, <1>2

LEMMA RestrictInit ==
  ASSUME Init
  PROVE  HeldInv /\ RestrictInv /\ FollowInv /\ AnnounceInv
BY DEF Init, HeldInv, RestrictInv, FollowInv, AnnounceInv

LEMMA RestrictHonouredState ==
  ASSUME RestrictInv
  PROVE  RestrictHonoured
BY DEF RestrictInv, Unrestricted, RestrictHonoured


(***************************************************************************)
(* What references the record when it is followed is followed.             *)
(***************************************************************************)

\* Where a call begins to follow, all that references its record is to be
\* followed; and a step that takes a field or a row from its lists leaves no
\* reference that was only in them.
LEMMA AdvancePending ==
  ASSUME RowsTyped, NEW c \in CallSet, NEW d \in CallSet, Advanced(c, d), d.step = "follow",
         NEW h \in SUBSET References(c.id), Unrestricted(c, h), NEW x \in h,
         x \in ReferencesAfter(c.id), c.step = "follow" => Pending(c, x)
  PROVE  Pending(d, x)
<1> USE DEF CallSet
<1>0. x \in Ids \X Fields /\ x[1] \in live /\ c.id \in ref[x[1]][x[2]]
  BY DEF References
<1>1. CASE FieldChecked(c, d) \/ Checked(c, d) \/ Removed(c, d)
  BY <1>1 DEF FieldChecked, Checked, Removed
<1>2. CASE Announced(c, d)
  <2>1. /\ c.step = "announce"
        /\ d = [c EXCEPT !.step = "follow", !.todo = {f \in c.fields : Policy(f) # "RESTRICT"}]
    BY <1>2 DEF Announced
  <2>2. c.fields = Pointing(c.id) /\ Policy(x[2]) # "RESTRICT"
    BY <2>1 DEF Unrestricted
  <2>3. x[2] \in Pointing(c.id)
    BY <1>0 DEF RowsTyped, Typed, Pointing
  <2> QED
    BY <2>1, <2>2, <2>3 DEF Pending
<1>3. CASE ChildrenFound(c, d)
  <2>1. PICK f \in c.todo :
          /\ Policy(f) = "CASCADE"
          /\ d = [c EXCEPT !.todo = @ \ {f}, !.via = f,
                           !.kids = {[row |-> r, rest |-> {}] : r \in Referrers(f, c.id)}]
    BY <1>3 DEF ChildrenFound
  <2>2. c.step = "follow" /\ c.kids = {}
    BY <1>3 DEF ChildrenFound
  <2>3. x[2] \in c.todo
    BY <2>2 DEF Pending
  <2>4. CASE x[2] = f
    <3>1. x[1] \in Referrers(f, c.id)
      BY <1>0, <2>4 DEF Referrers
    <3>2. [row |-> x[1], rest |-> {}] \in d.kids /\ d.via = f
      BY <2>1, <3>1
    <3> QED
      BY <2>1, <2>4, <3>2 DEF Pending
  <2>5. CASE x[2] # f
    BY <2>1, <2>3, <2>5 DEF Pending
  <2> QED
    BY <2>4, <2>5
<1>4. CASE ChildGone(c, d)
  <2>1. PICK k \in c.kids : k.row \notin live /\ d = [c EXCEPT !.kids = @ \ {k}]
    BY <1>4 DEF ChildGone
  <2>2. c.step = "follow"
    BY <1>4 DEF ChildGone
  <2> QED
    BY <1>0, <2>1, <2>2 DEF Pending
<1>5. CASE FieldCleared(c, d)
  <2>1. PICK f \in c.todo :
          /\ \A r \in Referrers(f, c.id) : ref'[r][f] = {}
          /\ d = [c EXCEPT !.todo = @ \ {f}, !.via = f, !.kids = {}]
    BY <1>5 DEF FieldCleared
  <2>2. c.step = "follow" /\ c.kids = {}
    BY <1>5 DEF FieldCleared
  <2>3. x[2] \in c.todo
    BY <2>2 DEF Pending
  <2>4. x[2] # f
    BY <1>0, <2>1 DEF ReferencesAfter, Referrers
  <2> QED
    BY <2>1, <2>3, <2>4 DEF Pending
<1>6. CASE ListsFound(c, d)
  <2>1. PICK f \in c.todo :
          /\ Policy(f) = "SET_NULL"
          /\ d = [c EXCEPT !.todo = @ \ {f}, !.via = f,
                           !.kids = {[row |-> r, rest |-> ref[r][f] \ {c.id}] :
                                       r \in Referrers(f, c.id)}]
    BY <1>6 DEF ListsFound
  <2>2. c.step = "follow" /\ c.kids = {}
    BY <1>6 DEF ListsFound
  <2>3. x[2] \in c.todo
    BY <2>2 DEF Pending
  <2>4. CASE x[2] = f
    <3>1. x[1] \in Referrers(f, c.id)
      BY <1>0, <2>4 DEF Referrers
    <3>2. [row |-> x[1], rest |-> ref[x[1]][f] \ {c.id}] \in d.kids /\ d.via = f /\ d.id = c.id
      BY <2>1, <3>1
    <3> QED
      BY <2>1, <2>4, <3>2 DEF Pending
  <2>5. CASE x[2] # f
    BY <2>1, <2>3, <2>5 DEF Pending
  <2> QED
    BY <2>4, <2>5
<1>7. CASE ListWritten(c, d)
  <2>1. PICK k \in c.kids :
          /\ ref' = IF k.row \in live THEN [ref EXCEPT ![k.row][c.via] = k.rest] ELSE ref
          /\ d = [c EXCEPT !.kids = @ \ {k}]
    BY <1>7 DEF ListWritten
  <2>2. c.step = "follow" /\ Policy(c.via) # "CASCADE"
    BY <1>7 DEF ListWritten
  <2>3. ~(k.row = x[1] /\ x[2] = c.via /\ c.id \notin k.rest)
    BY <1>0, <2>1 DEF ReferencesAfter, RowsTyped
  <2> QED
    BY <2>1, <2>2, <2>3 DEF Pending
<1> QED
  BY <1>1, <1>2, <1>3, <1>4, <1>5, <1>6, <1>7 DEF Advanced

LEMMA FollowStep ==
  ASSUME RecordTypes, RecordTypes', HeldInv, RestrictInv, FollowInv, [Next]_vars
  PROVE  FollowInv'
<1>1. CASE UNCHANGED vars
  <2>1. UNCHANGED <<schema, faults, stack, held, kept>>
    BY <1>1 DEF vars
  <2> SUFFICES ASSUME faults' = 0, NEW p \in Requests, NEW n \in DOMAIN stack'[p],
                      stack'[p][n].step = "follow", NEW x \in held'[p][n]
               PROVE  Pending(stack[p][n], x)' \/ x[1] \in kept' \/ BeingDeleted(p, n, x[1])'
    BY DEF FollowInv
  <2>2. Pending(stack[p][n], x) \/ x[1] \in kept \/ BeingDeleted(p, n, x[1])
    BY <2>1 DEF FollowInv
  <2>3. Pending(stack[p][n], x) => Pending(stack[p][n], x)'
    BY <2>1 DEF Pending, Policy
  <2>4. BeingDeleted(p, n, x[1]) => BeingDeleted(p, n, x[1])'
    BY <2>1 DEF BeingDeleted
  <2> QED
    BY <2>1, <2>2, <2>3, <2>4
<1>2. CASE Next
  <2> SUFFICES ASSUME faults' = 0, NEW p \in Requests, NEW n \in DOMAIN stack'[p],
                      stack'[p][n].step = "follow", NEW x \in held'[p][n]
               PROVE  Pending(stack[p][n], x)' \/ x[1] \in kept' \/ BeingDeleted(p, n, x[1])'
    BY DEF FollowInv
  <2>1. schema' = schema /\ faults = 0
    BY <1>2, SchemaFixed, NoFault DEF RecordTypes
  <2> SUFFICES Pending(stack'[p][n], x) \/ x[1] \in kept' \/ BeingDeleted(p, n, x[1])'
    BY <2>1 DEF Pending, Policy
  <2>2. /\ x \in ReferencesAfter(stack'[p][n].id) /\ x[1] \in live'
        /\ n \in DOMAIN stack[p] => x \in held[p][n]
    BY <1>2, HistoryShrinks DEF Next, RecordTypes, ReferencesAfter
  <2>3. ASSUME NEW m \in DOMAIN stack[p]
        PROVE  /\ Unrestricted(stack[p][m], held[p][m])
               /\ held[p][m] \subseteq References(stack[p][m].id)
               /\ stack[p][m].step = "follow" =>
                    \A y \in held[p][m] :
                      Pending(stack[p][m], y) \/ y[1] \in kept \/ BeingDeleted(p, m, y[1])
    BY <2>1 DEF RestrictInv, HeldInv, FollowInv
  <2>4. x[1] \in kept => x[1] \in kept'
    BY <1>2, <2>2, KeptStays
  <2>6. /\ DOMAIN stack'[p] = 1 .. Len(stack'[p]) /\ Len(stack[p]) \in Nat
        /\ DOMAIN stack[p] = 1 .. Len(stack[p])
        /\ stack[p] # <<>> => Len(stack[p]) >= 1 /\ Top(p) \in CallSet
    <3>1. CallsTyped /\ CallsTyped'
      BY DEF RecordTypes
    <3>2. stack'[p] \in Seq(CallSet)
      BY <3>1 DEF CallsTyped
    <3> QED
      BY <3>1, <3>2, StackTyped, LenProperties
  <2>7. CASE stack'[p] = stack[p]
    BY <2>2, <2>3, <2>4, <2>7 DEF BeingDeleted
  <2>8. CASE Started(p)
    BY <2>6, <2>8 DEF Started, Call
  <2>9. ASSUME n \in DOMAIN stack[p], n # Len(stack[p]), stack'[p][n] = stack[p][n],
               BeingDeleted(p, n, x[1]) => x[1] \in kept' \/ BeingDeleted(p, n, x[1])'
        PROVE  Pending(stack'[p][n], x) \/ x[1] \in kept' \/ BeingDeleted(p, n, x[1])'
    BY <2>2, <2>3, <2>4, <2>9
  <2>10. ASSUME NEW d \in CallSet, Swapped(p, d), Advanced(Top(p), d)
         PROVE  Pending(stack'[p][n], x) \/ x[1] \in kept' \/ BeingDeleted(p, n, x[1])'
    <3>1. /\ stack[p] # <<>> /\ Len(stack'[p]) = Len(stack[p]) /\ stack'[p][Len(stack[p])] = d
          /\ \A i \in 1 .. Len(stack[p]) - 1 : stack'[p][i] = stack[p][i]
      BY <2>10 DEF Swapped
    <3>2. Top(p) = stack[p][Len(stack[p])]
      BY DEF Top
    <3>3. CASE n = Len(stack[p])
      <4>1. stack'[p][n] = d /\ n \in DOMAIN stack[p] /\ stack[p][n] = Top(p)
        BY <2>6, <3>1, <3>2, <3>3
      <4>2. ~BeingDeleted(p, n, x[1])
        BY <2>6, <3>3 DEF BeingDeleted
      <4>3. d.id = Top(p).id
        BY <2>6, <2>10, <3>1, AdvanceSameId
      <4>4. CASE x[1] \in kept
        BY <2>4, <4>4
      <4>5. CASE x[1] \notin kept
        BY <2>2, <2>3, <2>6, <2>10, <3>1, <4>1, <4>2, <4>3, <4>5, AdvancePending
           DEF RecordTypes
      <4> QED
        BY <4>4, <4>5
    <3>4. CASE n # Len(stack[p])
      <4>1. n \in 1 .. Len(stack[p]) - 1 /\ n + 1 \in 1 .. Len(stack[p])
        BY <2>6, <3>1, <3>4
      <4>2. ASSUME BeingDeleted(p, n, x[1])
            PROVE  BeingDeleted(p, n, x[1])'
        <5>1. CASE n + 1 # Len(stack[p])
          BY <2>6, <3>1, <4>1, <4>2, <5>1 DEF BeingDeleted
        <5>2. CASE n + 1 = Len(stack[p])
          <6>1. Top(p).id = x[1] /\ Top(p).step \in {"restrict", "remove"}
            BY <3>2, <4>2, <5>2 DEF BeingDeleted
          <6>2. ~Removed(Top(p), d)
            BY <2>2, <6>1 DEF Removed
          <6>3. FieldChecked(Top(p), d) \/ Checked(Top(p), d)
            BY <2>10, <6>1, <6>2 DEF Advanced, Announced, ChildrenFound, ChildGone,
                                     FieldCleared, ListsFound, ListWritten
          <6>4. d.id = x[1] /\ d.step \in {"restrict", "remove"}
            BY <2>6, <3>1, <6>1, <6>3 DEF FieldChecked, Checked, CallSet
          <6> QED
            BY <2>6, <3>1, <4>1, <5>2, <6>4 DEF BeingDeleted
        <5> QED
          BY <5>1, <5>2
      <4> QED
        BY <2>6, <2>9, <3>1, <3>4, <4>1, <4>2
    <3> QED
      BY <3>3, <3>4
  <2>11. ASSUME NEW d \in CallSet, NEW e \in CallSet, Called(p, d, e), ChildCalled(Top(p), d, e)
         PROVE  Pending(stack'[p][n], x) \/ x[1] \in kept' \/ BeingDeleted(p, n, x[1])'
    <3>1. /\ stack[p] # <<>> /\ Len(stack'[p]) = Len(stack[p]) + 1
          /\ stack'[p][Len(stack[p])] = d /\ stack'[p][Len(stack[p]) + 1] = e
          /\ \A i \in 1 .. Len(stack[p]) - 1 : stack'[p][i] = stack[p][i]
      BY <2>11 DEF Called
    <3>2. Top(p) = stack[p][Len(stack[p])]
      BY DEF Top
    <3>3. PICK k \in Top(p).kids : d = [Top(p) EXCEPT !.kids = @ \ {k}] /\ e = Call(k.row)
      BY <2>11 DEF ChildCalled
    <3>4. Top(p).step = "follow" /\ e.step = "restrict" /\ e.id = k.row
      BY <2>11, <3>3 DEF ChildCalled, Call
    <3>5. CASE n = Len(stack[p]) + 1
      BY <3>1, <3>4, <3>5
    <3>6. CASE n = Len(stack[p])
      <4>1. stack'[p][n] = d /\ n \in DOMAIN stack[p] /\ stack[p][n] = Top(p)
        BY <2>6, <3>1, <3>2, <3>6
      <4>2. ~BeingDeleted(p, n, x[1])
        BY <2>6, <3>6 DEF BeingDeleted
      <4>3. Pending(Top(p), x) \/ x[1] \in kept
        BY <2>2, <2>3, <3>4, <4>1, <4>2
      <4>4. CASE k.row = x[1]
        BY <2>6, <3>1, <3>4, <3>6, <4>4 DEF BeingDeleted
      <4>5. CASE Pending(Top(p), x) /\ k.row # x[1]
        <5>1. d.todo = Top(p).todo /\ d.via = Top(p).via /\ d.id = Top(p).id
              /\ d.kids = Top(p).kids \ {k}
          BY <2>6, <3>1, <3>3 DEF CallSet
        <5>2. Pending(d, x)
          BY <4>5, <5>1 DEF Pending
        <5> QED
          BY <4>1, <5>2
      <4> QED
        BY <2>4, <4>3, <4>4, <4>5
    <3>7. CASE n # Len(stack[p]) /\ n # Len(stack[p]) + 1
      <4>1. n \in 1 .. Len(stack[p]) - 1 /\ n + 1 \in 1 .. Len(stack[p])
        BY <2>6, <3>1, <3>7
      <4>2. ASSUME BeingDeleted(p, n, x[1])
            PROVE  BeingDeleted(p, n, x[1])'
        <5>1. n + 1 # Len(stack[p])
          BY <3>2, <3>4, <4>2 DEF BeingDeleted
        <5> QED
          BY <2>6, <3>1, <4>1, <4>2, <5>1 DEF BeingDeleted
      <4> QED
        BY <2>6, <2>9, <3>1, <3>7, <4>1, <4>2
    <3> QED
      BY <3>5, <3>6, <3>7
  <2>12. CASE Returned(p) /\ CallEnds(p)
    <3>1. /\ stack[p] # <<>> /\ Len(stack'[p]) = Len(stack[p]) - 1
          /\ \A i \in 1 .. Len(stack[p]) - 1 : stack'[p][i] = stack[p][i]
      BY <2>12 DEF Returned
    <3>2. n \in 1 .. Len(stack[p]) - 1 /\ n + 1 \in 1 .. Len(stack[p])
      BY <2>6, <3>1
    <3>3. ASSUME BeingDeleted(p, n, x[1])
          PROVE  x[1] \in kept' \/ BeingDeleted(p, n, x[1])'
      <4>1. CASE n + 1 # Len(stack[p])
        BY <2>6, <3>1, <3>2, <3>3, <4>1 DEF BeingDeleted
      <4>2. CASE n + 1 = Len(stack[p])
        <5>1. Top(p).id = x[1] /\ Top(p).step \in {"restrict", "remove"}
          BY <3>3, <4>2 DEF BeingDeleted, Top
        <5>2. Refused(p)
          BY <2>12, <5>1 DEF CallEnds, Followed
        <5>3. Len(stack[p]) # 1
          <6>1. PICK len \in Nat : len = Len(stack[p])
            BY <2>6
          <6>2. n \in 1 .. len - 1
            BY <3>2, <6>1
          <6>3. len # 1
            BY <6>1, <6>2
          <6> QED
            BY <6>1, <6>3
        <5> QED
          BY <2>2, <5>1, <5>2, <5>3 DEF Refused
      <4> QED
        BY <4>1, <4>2
    <3> QED
      BY <2>6, <2>9, <3>1, <3>2, <3>3
  <2> QED
    BY <1>2, <2>7, <2>8, <2>10, <2>11, <2>12, StepOfCalls DEF CallsMove
<1> QED
  BY <1>1, <1>2

LEMMA FollowedThroughState ==
  ASSUME RecordTypes, FollowInv
  PROVE  FollowedThrough
<1> SUFFICES ASSUME faults = 0, NEW p \in Requests, stack[p] # <<>>, Followed(Top(p)),
                    NEW x \in held[p][Len(stack[p])]
             PROVE  x[1] \in kept
  BY DEF FollowedThrough
<1>1. /\ Len(stack[p]) \in DOMAIN stack[p] /\ Len(stack[p]) + 1 \notin DOMAIN stack[p]
      /\ Top(p) = stack[p][Len(stack[p])]
  <2>1. Len(stack[p]) \in Nat \ {0} /\ DOMAIN stack[p] = 1 .. Len(stack[p])
    BY TopCall DEF RecordTypes
  <2> QED
    BY <2>1 DEF Top
<1>2. Pending(Top(p), x) \/ x[1] \in kept \/ BeingDeleted(p, Len(stack[p]), x[1])
  BY <1>1 DEF FollowInv, Followed
<1> QED
  BY <1>1, <1>2 DEF Pending, Followed, BeingDeleted


(***************************************************************************)
(* A change stays in the hands of its request until it is announced.       *)
(***************************************************************************)
LEMMA StaysInHand ==
  ASSUME NEW r, NEW id, InHand(r, id), op'[r] = op[r], stack'[r] = stack[r],
         id \in live => id \in live'
  PROVE  InHand(r, id)'
<1>1. Top(r)' = Top(r)
  BY DEF Top
<1> QED
  BY <1>1 DEF InHand

\* The others of a step keep their requests and calls.
LEMMA WriteOthers ==
  ASSUME CallsTyped, NEW q \in Requests, Submit(q) \/ Write(q) \/ StatementFails(q)
  PROVE  Others(q)
<1>1. CASE Read(q) /\ ~End(q)
  BY <1>1 DEF Read, Goto, CallsTyped, Others
<1>2. CASE Submit(q)
  BY <1>2 DEF Submit, CallsTyped, Others
<1>3. CASE (Read(q) /\ End(q)) \/ CheckUnique(q) \/ RunBefore(q) \/ InsertRow(q)
           \/ UpdateRow(q) \/ FetchBack(q) \/ Announce(q) \/ StatementFails(q)
  <2>1. End(q) \/ \E step \in OpSteps : Goto(q, step)
    BY <1>3 DEF CheckUnique, RunBefore, InsertRow, UpdateRow, FetchBack, Announce,
                StatementFails, OpSteps
  <2>2. \A r \in Requests \ {q} : op'[r] = op[r]
    BY <2>1 DEF End, Goto, CallsTyped
  <2>3. UNCHANGED stack \/ Read(q)
    BY <1>3 DEF CheckUnique, RunBefore, InsertRow, UpdateRow, FetchBack, Announce,
                StatementFails
  <2>4. \A r \in Requests \ {q} : stack'[r] = stack[r]
    BY <2>3 DEF Read, CallsTyped
  <2> QED
    BY <2>2, <2>4 DEF Others
<1>4. CASE CheckTarget(q)
  BY <1>4 DEF CheckTarget, End, CallsTyped, Others
<1> QED
  BY <1>1, <1>2, <1>3, <1>4 DEF Write

\* Before its write a request owes nothing, and later only its own id.
LEMMA OwedByWriter ==
  ASSUME RecordTypes, AnnounceInv, NEW q \in Requests, op[q].step # "cascade",
         NEW x \in owed, x[1] = q
  PROVE  /\ x[2] = op[q].id
         /\ op[q].step = "announce" \/ (op[q].step = "fetch" /\ x[2] \in live)
<1>1. InHand(q, x[2])
  BY DEF AnnounceInv
<1>2. stack[q] = <<>>
  BY DEF RecordTypes, CallsTyped
<1> QED
  BY <1>1, <1>2 DEF InHand

\* In a cascade it owes only the deletion that its innermost call is to announce.
LEMMA OwedByCascade ==
  ASSUME RecordTypes, AnnounceInv, NEW q \in Requests, stack[q] # <<>>,
         NEW x \in owed, x[1] = q
  PROVE  x[2] = Top(q).id /\ Top(q).step = "announce"
<1>1. InHand(q, x[2])
  BY DEF AnnounceInv
<1>2. op[q].step = "cascade"
  BY DEF RecordTypes, CallsTyped
<1> QED
  BY <1>1, <1>2 DEF InHand

LEMMA AnnounceWrite ==
  ASSUME RecordTypes, AnnounceInv, NEW q \in Requests,
         Submit(q) \/ Write(q) \/ StatementFails(q)
  PROVE  AnnounceInv'
<1> SUFFICES ASSUME NEW x \in owed'
             PROVE  InHand(x[1], x[2])'
  BY DEF AnnounceInv
<1>1. live \subseteq live' /\ owed' \subseteq owed \cup {<<q, op[q].id>>}
  BY DEF Submit, Write, Read, CheckTarget, CheckUnique, RunBefore, InsertRow, UpdateRow,
         FetchBack, Announce, StatementFails, rows
<1>2. CASE x[1] # q
  <2>1. x \in owed /\ x[1] \in Requests
    BY <1>1, <1>2 DEF RecordTypes, RowsTyped
  <2>2. op'[x[1]] = op[x[1]] /\ stack'[x[1]] = stack[x[1]]
    BY <1>2, <2>1, WriteOthers DEF RecordTypes, Others
  <2> QED
    BY <1>1, <2>1, <2>2, StaysInHand DEF AnnounceInv
<1>3. CASE x[1] = q
  <2>1. op[q].step # "cascade" /\ (op[q] \in OpSet \/ op[q] = Idle)
    BY DEF Submit, Write, Read, CheckTarget, CheckUnique, RunBefore, InsertRow, UpdateRow,
           FetchBack, Announce, StatementFails, Idle, RecordTypes, CallsTyped
  <2>2. x \in owed => /\ x[2] = op[q].id
                      /\ op[q].step = "announce" \/ (op[q].step = "fetch" /\ x[2] \in live)
    BY <1>3, <2>1, OwedByWriter
  <2>3. CASE Submit(q) \/ Read(q) \/ CheckTarget(q) \/ CheckUnique(q) \/ RunBefore(q)
    BY <2>2, <2>3 DEF Submit, Idle, Read, CheckTarget, CheckUnique, RunBefore
  <2>4. CASE InsertRow(q) \/ UpdateRow(q)
    <3>1. /\ op[q].step = "write" /\ op[q] \in OpSet
      BY <2>1, <2>4 DEF InsertRow, UpdateRow, Idle
    <3>2. x = <<q, op[q].id>> /\ owed' # owed
      BY <1>1, <1>3, <2>2, <3>1
    <3>3. Goto(q, "fetch") /\ op[q].id \in live'
      BY <2>4, <3>2 DEF InsertRow, UpdateRow
    <3>4. op'[q].id = op[q].id /\ op'[q].step = "fetch"
      BY <3>1, <3>3 DEF Goto, RecordTypes, CallsTyped, OpSet
    <3> QED
      BY <3>2, <3>3, <3>4 DEF InHand
  <2>5. CASE FetchBack(q)
    <3>1. op[q].step = "fetch" /\ op[q] \in OpSet /\ x \in owed
      BY <2>1, <2>5 DEF FetchBack, Idle
    <3>2. x[2] = op[q].id /\ x[2] \in live
      BY <2>2, <3>1
    <3>3. Goto(q, "announce")
      BY <2>5, <3>2 DEF FetchBack
    <3>4. op'[q].id = op[q].id /\ op'[q].step = "announce"
      BY <3>1, <3>3 DEF Goto, RecordTypes, CallsTyped, OpSet
    <3> QED
      BY <1>3, <3>2, <3>4 DEF InHand
  <2>6. CASE Announce(q) \/ StatementFails(q)
    <3>1. x \in owed /\ x # <<q, op[q].id>>
      BY <2>6 DEF Announce, StatementFails
    <3>2. x = <<x[1], x[2]>>
      BY <3>1 DEF RecordTypes, RowsTyped
    <3> QED
      BY <1>3, <2>2, <3>1, <3>2
  <2> QED
    BY <2>3, <2>4, <2>5, <2>6 DEF Write
<1> QED
  BY <1>2, <1>3

LEMMA AnnounceDeletes ==
  ASSUME RecordTypes, AnnounceInv, NEW q \in Requests, CallsTyped', Others(q),
         Delete(q) \/ DeleteStatementFails(q)
  PROVE  AnnounceInv'
<1> SUFFICES ASSUME NEW x \in owed'
             PROVE  InHand(x[1], x[2])'
  BY DEF AnnounceInv
<1>1. stack[q] # <<>> /\ Top(q) \in CallSet /\ Len(stack[q]) \in Nat \ {0}
  BY TopCall DEF RecordTypes, Delete, CheckRestrict, BeforeDelete, RemoveRow, AnnounceDelete,
                 FindChildren, DeleteChild, ClearField, FindLists, RewriteList, Deleted,
                 DeleteStatementFails, At
<1>2. x \in owed /\ x[1] = q => x[2] = Top(q).id /\ Top(q).step = "announce"
  BY <1>1, OwedByCascade
<1>3. ASSUME x \in owed, x[1] # q, x[2] \in live => x[2] \in live'
      PROVE  InHand(x[1], x[2])'
  <2>1. x[1] \in Requests /\ InHand(x[1], x[2])
    BY <1>3 DEF RecordTypes, RowsTyped, AnnounceInv
  <2>2. op'[x[1]] = op[x[1]] /\ stack'[x[1]] = stack[x[1]]
    BY <1>3, <2>1 DEF Others
  <2> QED
    BY <1>3, <2>1, <2>2, StaysInHand
<1>4. CASE RemoveRow(q)
  <2>1. /\ Top(q).step = "remove" /\ live' = live \ {Top(q).id}
        /\ owed' \subseteq {y \in owed : y[2] # Top(q).id} \cup {<<q, Top(q).id>>}
        /\ SetTop(q, [Top(q) EXCEPT !.step = "announce"])
    BY <1>4 DEF RemoveRow, At
  <2>2. CASE x \in owed /\ x[2] # Top(q).id
    BY <1>2, <1>3, <2>1, <2>2
  <2>3. CASE x = <<q, Top(q).id>>
    <3> DEFINE d == [Top(q) EXCEPT !.step = "announce"]
    <3>1. d \in CallSet /\ d.id = Top(q).id /\ d.step = "announce"
      BY <1>1 DEF CallSet, CallSteps
    <3>2. stack'[q] = WithTop(stack[q], d)
      BY <2>1 DEF RecordTypes, CallsTyped, SetTop, WithTop
    <3> HIDE DEF d
    <3>3. PICK s \in Seq(CallSet) : s = stack[q]
      BY DEF RecordTypes, CallsTyped
    <3>0. s # <<>>
      BY <1>1, <3>3
    <3>4. Len(WithTop(s, d)) = Len(s) /\ WithTop(s, d)[Len(s)] = d /\ WithTop(s, d) # <<>>
      BY <3>0, <3>1, SwapSeq
    <3>5. stack'[q] # <<>> /\ stack'[q][Len(stack'[q])] = d
      BY <3>2, <3>3, <3>4
    <3> QED
      BY <2>3, <3>1, <3>5 DEF InHand, Top
  <2> QED
    BY <2>1, <2>2, <2>3
<1>5. CASE AnnounceDelete(q)
  <2>1. x \in owed /\ x # <<q, Top(q).id>> /\ live' = live
    BY <1>5 DEF AnnounceDelete, rows
  <2>2. x = <<x[1], x[2]>>
    BY <2>1 DEF RecordTypes, RowsTyped
  <2> QED
    BY <1>2, <1>3, <2>1, <2>2
<1>6. CASE ~RemoveRow(q) /\ ~AnnounceDelete(q)
  <2>1. owed' = owed /\ live' = live
    BY <1>6 DEF Delete, CheckRestrict, BeforeDelete, FindChildren, DeleteChild, ClearField,
                FindLists, RewriteList, Deleted, DeleteStatementFails, rows
  <2>2. Top(q).step # "announce"
    BY <1>6 DEF Delete, CheckRestrict, BeforeDelete, FindChildren, DeleteChild, ClearField,
                FindLists, RewriteList, Deleted, DeleteStatementFails, At, Followed
  <2> QED
    BY <1>2, <1>3, <2>1, <2>2
<1> QED
  BY <1>4, <1>5, <1>6

LEMMA AnnounceStep ==
  ASSUME RecordTypes, AnnounceInv, [Next]_vars
  PROVE  AnnounceInv'
<1>1. CASE UNCHANGED vars
  <2>1. UNCHANGED <<owed, op, stack, live>>
    BY <1>1 DEF vars
  <2> QED
    BY <2>1 DEF AnnounceInv, InHand, Top
<1>2. CASE Next
  <2>1. CASE Crash
    BY <2>1 DEF Crash, AnnounceInv
  <2>2. ASSUME NEW q \in Requests, Delete(q) \/ DeleteStatementFails(q)
        PROVE  AnnounceInv'
    <3>1. CallsTyped'
      BY <1>2, CallsStep
    <3>2. Others(q)
      <4>1. CASE Delete(q)
        BY <1>2, <4>1, DeleteMoves DEF Next
      <4>2. CASE DeleteStatementFails(q)
        BY <4>2 DEF DeleteStatementFails, NextField, SetTop, Refuse, Return, End, RecordTypes,
                    CallsTyped, Others
      <4> QED
        BY <2>2, <4>1, <4>2
    <3> QED
      BY <2>2, <3>1, <3>2, AnnounceDeletes
  <2> QED
    BY <1>2, <2>1, <2>2, AnnounceWrite DEF Next, Step
<1> QED
  BY <1>1, <1>2

LEMMA ChangesAnnouncedState ==
  ASSUME RecordTypes, AnnounceInv
  PROVE  ChangesAnnounced
<1> SUFFICES ASSUME NEW x \in owed
             PROVE  \/ op[x[1]].id = x[2] /\ op[x[1]].step \in {"fetch", "announce"}
                    \/ \E c \in Calls(x[1]) : c.id = x[2] /\ c.step = "announce"
  BY DEF ChangesAnnounced
<1>1. InHand(x[1], x[2]) /\ x[1] \in Requests
  BY DEF AnnounceInv, RecordTypes, RowsTyped
<1>2. CASE stack[x[1]] # <<>> /\ Top(x[1]).id = x[2] /\ Top(x[1]).step = "announce"
  <2>1. Len(stack[x[1]]) \in DOMAIN stack[x[1]]
    BY <1>1, <1>2, TopCall DEF RecordTypes
  <2>2. Top(x[1]) \in Calls(x[1])
    BY <2>1 DEF Calls, Top
  <2> QED
    BY <1>2, <2>2
<1> QED
  BY <1>1, <1>2 DEF InHand

-----------------------------------------------------------------------------
(* Requests that come one after the other *)

Alone == ~overlapped /\ faults = 0

OneRequest == \A p, q \in Requests : p # q => op[p] = Idle \/ op[q] = Idle

\* A call that waits for another is at the rows of a CASCADE field.
CallersWait ==
  \A p \in Requests : \A n \in DOMAIN stack[p] :
    n # Len(stack[p]) => stack[p][n].step = "follow" /\ Policy(stack[p][n].via) = "CASCADE"

\* Past its DELETE a call's row stays gone, and so no call is for the record of
\* another.
RowsGone ==
  \A p \in Requests : \A n \in DOMAIN stack[p] :
    stack[p][n].step \in {"announce", "follow"} => stack[p][n].id \notin live

CallsDiffer ==
  \A p \in Requests : \A m, n \in DOMAIN stack[p] : m # n => stack[p][m].id # stack[p][n].id

\* Until then, all that references its record did so from the start.
AllHeld ==
  \A p \in Requests : \A n \in DOMAIN stack[p] :
    stack[p][n].step \in {"restrict", "remove"} =>
      References(stack[p][n].id) \subseteq held[p][n]

\* A list that is to be written holds nothing that the row's does not.
ListsFresh ==
  \A p \in Requests : \A n \in DOMAIN stack[p] : LET c == stack[p][n] IN
    /\ c.step # "follow" => c.kids = {}
    /\ c.kids # {} /\ Policy(c.via) = "SET_NULL" =>
         /\ \A k \in c.kids : k.rest \subseteq ref[k.row][c.via]
         /\ \A k, l \in c.kids : k.row = l.row => k = l

\* A reference to a missing record, in a row that was not kept, is one that a
\* deletion under way is still to follow.
Dangling(i, f, t) ==
  \E p \in Requests : \E n \in DOMAIN stack[p] :
    /\ stack[p][n].id = t /\ stack[p][n].step \in {"announce", "follow"}
    /\ <<i, f>> \in held[p][n]

RefsLead ==
  \A i \in live \ kept : \A f \in Fields : \A t \in ref[i][f] : t \in live \/ Dangling(i, f, t)

RefsUnique ==
  \A f \in Fields : Card(f) = "1:1" =>
    \A i, j \in live : i # j => ref[i][f] \cap ref[j][f] = {}

\* What a create or an update has checked still holds.
CheckedOp(o) ==
  /\ o.step = "read" => o.todo = o.value
  /\ o.step \in {"check", "unique", "before", "write"} => o.value \ o.todo \subseteq live
  /\ o.step \in {"unique", "before", "write"} => o.todo = {}
  /\ o.step \in {"before", "write"} /\ o.field \in Fields /\ Card(o.field) = "1:1" =>
       \A t \in o.value : Referrers(o.field, t) \subseteq {o.id}

ChecksHold == \A p \in Requests : CheckedOp(op[p])

AloneCalls == CallersWait /\ RowsGone /\ CallsDiffer /\ AllHeld /\ ListsFresh
AloneRows == RefsLead /\ RefsUnique /\ ChecksHold

AloneInv == Alone => OneRequest /\ AloneCalls /\ AloneRows

\* No other request is under way, and none has calls.
Solo(q) == \A r \in Requests \ {q} : op[r] = Idle /\ stack[r] = <<>>

LEMMA AloneActor ==
  ASSUME RecordTypes, AloneInv, Next, Alone'
  PROVE  /\ Alone /\ OneRequest'
         /\ \E q \in Requests : /\ Submit(q) \/ Write(q) \/ Delete(q)
                                /\ Solo(q) /\ Others(q)
<1>1. faults' = 0 /\ ~overlapped'
  BY DEF Alone
<1>2. faults = 0 /\ \E q \in Requests : Submit(q) \/ Write(q) \/ Delete(q)
  BY <1>1, NoFault DEF RecordTypes
<1>3. PICK q \in Requests : Submit(q) \/ Write(q) \/ Delete(q)
  BY <1>2
<1>4. ~overlapped
  <2>1. CASE Submit(q)
    BY <1>1, <2>1 DEF Submit
  <2>2. CASE Write(q)
    BY <1>1, <2>2 DEF Write, Read, CheckTarget, CheckUnique, RunBefore, InsertRow, UpdateRow,
                      FetchBack, Announce, counts
  <2>3. CASE Delete(q)
    BY <1>1, <2>3 DEF Delete, CheckRestrict, BeforeDelete, RemoveRow, AnnounceDelete,
                      FindChildren, DeleteChild, ClearField, FindLists, RewriteList, Deleted,
                      counts
  <2> QED
    BY <1>3, <2>1, <2>2, <2>3
<1>5. \A r \in Requests \ {q} : op[r] = Idle
  <2>1. CASE Submit(q)
    BY <1>1, <2>1 DEF Submit, UnderWay
  <2>2. CASE Write(q)
    <3>1. op[q] # Idle
      BY <2>2 DEF Write, Read, CheckTarget, CheckUnique, RunBefore, InsertRow, UpdateRow,
                  FetchBack, Announce, Idle
    <3> QED
      BY <1>2, <1>4, <3>1 DEF AloneInv, Alone, OneRequest
  <2>3. CASE Delete(q)
    <3>1. stack[q] # <<>>
      BY <2>3 DEF Delete, CheckRestrict, BeforeDelete, RemoveRow, AnnounceDelete,
                  FindChildren, DeleteChild, ClearField, FindLists, RewriteList, Deleted, At
    <3>2. op[q] # Idle
      BY <3>1 DEF RecordTypes, CallsTyped, Idle
    <3> QED
      BY <1>2, <1>4, <3>2 DEF AloneInv, Alone, OneRequest
  <2> QED
    BY <1>3, <2>1, <2>2, <2>3
<1>6. Solo(q)
  BY <1>5 DEF Solo, RecordTypes, CallsTyped, Idle
<1>7. Others(q)
  BY <1>3, WriteOthers, DeleteMoves DEF Next, RecordTypes
<1>8. OneRequest'
  BY <1>5, <1>7 DEF OneRequest, Others
<1> QED
  BY <1>2, <1>3, <1>4, <1>6, <1>7, <1>8 DEF Alone

LEMMA PositionCases ==
  ASSUME RecordTypes, CallsTyped', NEW q \in Requests, CallsMove(q), NEW n \in DOMAIN stack'[q]
  PROVE  \/ n \in 1 .. Len(stack[q]) - 1 /\ stack'[q][n] = stack[q][n]
         \/ /\ n = Len(stack[q]) /\ n = Len(stack'[q]) /\ stack[q] # <<>>
            /\ stack'[q][n] \in CallSet /\ Advanced(Top(q), stack'[q][n])
         \/ /\ n = Len(stack[q]) /\ stack[q] # <<>>
            /\ Top(q).step = "follow" /\ Policy(Top(q).via) = "CASCADE"
            /\ \E k \in Top(q).kids : stack'[q][n] = [Top(q) EXCEPT !.kids = @ \ {k}]
         \/ /\ n = Len(stack[q]) + 1 /\ n = Len(stack'[q]) /\ stack[q] # <<>>
            /\ Top(q).step = "follow"
            /\ \E k \in Top(q).kids : k.row \in live /\ stack'[q][n] = Call(k.row)
<1>1. DOMAIN stack'[q] = 1 .. Len(stack'[q]) /\ Len(stack[q]) \in Nat
  <2>1. stack[q] \in Seq(CallSet) /\ stack'[q] \in Seq(CallSet)
    BY DEF RecordTypes, CallsTyped
  <2> QED
    BY <2>1, LenProperties
<1>2. ASSUME NEW d \in CallSet, Swapped(q, d), Advanced(Top(q), d)
      PROVE  \/ n \in 1 .. Len(stack[q]) - 1 /\ stack'[q][n] = stack[q][n]
             \/ /\ n = Len(stack[q]) /\ n = Len(stack'[q]) /\ stack[q] # <<>>
                /\ stack'[q][n] \in CallSet /\ Advanced(Top(q), stack'[q][n])
  <2>1. n \in 1 .. Len(stack[q]) /\ Len(stack'[q]) = Len(stack[q])
    BY <1>1, <1>2 DEF Swapped
  <2>2. CASE n = Len(stack[q])
    BY <1>2, <2>1, <2>2 DEF Swapped
  <2>3. CASE n # Len(stack[q])
    BY <1>1, <1>2, <2>1, <2>3 DEF Swapped
  <2> QED
    BY <2>2, <2>3
<1>3. ASSUME NEW d \in CallSet, NEW e \in CallSet, Called(q, d, e), ChildCalled(Top(q), d, e)
      PROVE  \/ n \in 1 .. Len(stack[q]) - 1 /\ stack'[q][n] = stack[q][n]
             \/ /\ n = Len(stack[q]) /\ stack[q] # <<>>
                /\ Top(q).step = "follow" /\ Policy(Top(q).via) = "CASCADE"
                /\ \E k \in Top(q).kids : stack'[q][n] = [Top(q) EXCEPT !.kids = @ \ {k}]
             \/ /\ n = Len(stack[q]) + 1 /\ n = Len(stack'[q]) /\ stack[q] # <<>>
                /\ Top(q).step = "follow"
                /\ \E k \in Top(q).kids : k.row \in live /\ stack'[q][n] = Call(k.row)
  <2>1. n \in 1 .. Len(stack[q]) + 1 /\ Len(stack'[q]) = Len(stack[q]) + 1
    BY <1>1, <1>3 DEF Called
  <2>2. CASE n = Len(stack[q])
    BY <1>3, <2>1, <2>2 DEF Called, ChildCalled
  <2>3. CASE n = Len(stack[q]) + 1
    BY <1>3, <2>1, <2>3 DEF Called, ChildCalled
  <2>4. CASE n # Len(stack[q]) /\ n # Len(stack[q]) + 1
    BY <1>1, <1>3, <2>1, <2>4 DEF Called
  <2> QED
    BY <2>2, <2>3, <2>4
<1>4. CASE Returned(q)
  BY <1>1, <1>4 DEF Returned
<1> QED
  BY <1>2, <1>3, <1>4 DEF CallsMove

\* A deletion takes rows away one by one and references that it follows.
LEMMA DeleteShrinks ==
  ASSUME RecordTypes, ListsFresh, NEW q \in Requests, Delete(q)
  PROVE  /\ live' \subseteq live /\ kept \cap live' \subseteq kept'
         /\ \A i \in live : \A f \in Fields : ref'[i][f] \subseteq ref[i][f]
         /\ \A t \in live \ live' : t = Top(q).id /\ Top(q).step = "remove"
<1> USE DEF RecordTypes
<1>1. /\ stack[q] # <<>> /\ Top(q) \in CallSet
      /\ Len(stack[q]) \in DOMAIN stack[q] /\ Top(q) = stack[q][Len(stack[q])]
  <2>1. stack[q] # <<>>
    BY DEF Delete, CheckRestrict, BeforeDelete, RemoveRow, AnnounceDelete, FindChildren,
           DeleteChild, ClearField, FindLists, RewriteList, Deleted, At
  <2>2. Len(stack[q]) \in Nat \ {0} /\ DOMAIN stack[q] = 1 .. Len(stack[q]) /\ Top(q) \in CallSet
    BY <2>1, TopCall
  <2> QED
    BY <2>1, <2>2 DEF Top
<1>2. CASE RemoveRow(q)
  <2>1. /\ Top(q).step = "remove" /\ live' = live \ {Top(q).id}
        /\ ref' = [ref EXCEPT ![Top(q).id] = Empty] /\ kept' = kept \ {Top(q).id}
    BY <1>2 DEF RemoveRow, At
  <2>2. \A i \in live : \A f \in Fields : ref'[i][f] \subseteq ref[i][f]
    BY <2>1 DEF RowsTyped, Empty
  <2> QED
    BY <2>1, <2>2
<1>3. CASE ClearField(q)
  <2>1. PICK f \in Top(q).todo :
          ref' = [r \in Ids |-> IF r \in Referrers(f, Top(q).id)
                                THEN [ref[r] EXCEPT ![f] = {}] ELSE ref[r]]
    BY <1>3 DEF ClearField
  <2>2. \A i \in live : \A g \in Fields : ref'[i][g] \subseteq ref[i][g]
    BY <2>1 DEF RowsTyped
  <2>3. live' = live /\ kept' = kept
    BY <1>3 DEF ClearField
  <2> QED
    BY <2>2, <2>3
<1>4. CASE RewriteList(q)
  <2>1. PICK k \in Top(q).kids :
          /\ Policy(Top(q).via) = "SET_NULL"
          /\ ref' = IF k.row \in live THEN [ref EXCEPT ![k.row][Top(q).via] = k.rest] ELSE ref
    BY <1>4 DEF RewriteList
  <2>2. k.rest \subseteq ref[k.row][Top(q).via] /\ k.row \in Ids /\ Top(q).via \in Fields
    BY <1>1, <2>1 DEF ListsFresh, CallSet
  <2>3. \A i \in live : \A g \in Fields : ref'[i][g] \subseteq ref[i][g]
    BY <2>1, <2>2 DEF RowsTyped
  <2>4. live' = live /\ kept' = kept
    BY <1>4 DEF RewriteList
  <2> QED
    BY <2>3, <2>4
<1>5. CASE CheckRestrict(q) \/ BeforeDelete(q) \/ AnnounceDelete(q) \/ FindChildren(q)
           \/ DeleteChild(q) \/ FindLists(q) \/ Deleted(q)
  BY <1>5 DEF CheckRestrict, BeforeDelete, Refuse, AnnounceDelete, FindChildren, DeleteChild,
              FindLists, Deleted, rows
<1> QED
  BY <1>2, <1>3, <1>4, <1>5 DEF Delete

\* A step of the only request changes no calls but its own.
LEMMA SoloCalls ==
  ASSUME NEW q \in Requests, Solo(q), Others(q), NEW p \in Requests, NEW n \in DOMAIN stack'[p]
  PROVE  p = q
BY DEF Solo, Others

LEMMA AdvanceSteps ==
  ASSUME NEW c \in CallSet, NEW d \in CallSet, Advanced(c, d)
  PROVE  /\ d.id = c.id
         /\ d.step \in {"announce", "follow"} =>
              c.step \in {"announce", "follow"} \/ c.id \notin live'
         /\ d.step \in {"restrict", "remove"} => c.step \in {"restrict", "remove"}
         /\ c.step \in {"announce", "follow"} => d.step \in {"announce", "follow"}
         /\ c.step = "remove" => d.step = "announce"
BY DEF Advanced, FieldChecked, Checked, Removed, Announced, ChildrenFound, ChildGone,
       FieldCleared, ListsFound, ListWritten, CallSet

LEMMA AdvanceFresh ==
  ASSUME RowsTyped, NEW c \in CallSet, NEW d \in CallSet, Advanced(c, d),
         c.step # "follow" => c.kids = {},
         c.kids # {} /\ Policy(c.via) = "SET_NULL" =>
           /\ \A k \in c.kids : k.rest \subseteq ref[k.row][c.via]
           /\ \A k, l \in c.kids : k.row = l.row => k = l
  PROVE  /\ d.step # "follow" => d.kids = {}
         /\ d.kids # {} /\ Policy(d.via) = "SET_NULL" =>
              /\ \A k \in d.kids : k.rest \subseteq ref'[k.row][d.via]
              /\ \A k, l \in d.kids : k.row = l.row => k = l
<1> USE DEF CallSet
<1>1. CASE FieldChecked(c, d) \/ Checked(c, d) \/ Removed(c, d) \/ Announced(c, d)
  BY <1>1 DEF FieldChecked, Checked, Removed, Announced
<1>2. CASE ChildrenFound(c, d)
  BY <1>2 DEF ChildrenFound
<1>3. CASE ChildGone(c, d)
  BY <1>3 DEF ChildGone
<1>4. CASE FieldCleared(c, d)
  BY <1>4 DEF FieldCleared
<1>5. CASE ListsFound(c, d)
  <2>1. PICK f \in c.todo :
          d = [c EXCEPT !.todo = @ \ {f}, !.via = f,
                        !.kids = {[row |-> r, rest |-> ref[r][f] \ {c.id}] :
                                    r \in Referrers(f, c.id)}]
    BY <1>5 DEF ListsFound
  <2>2. /\ d.via = f /\ d.step = "follow" /\ ref' = ref
        /\ d.kids = {[row |-> r, rest |-> ref[r][f] \ {c.id}] : r \in Referrers(f, c.id)}
    BY <1>5, <2>1 DEF ListsFound
  <2>3. \A k \in d.kids : /\ k.rest = ref[k.row][f] \ {c.id}
                          /\ k = [row |-> k.row, rest |-> ref[k.row][f] \ {c.id}]
    BY <2>2
  <2>4. \A k \in d.kids : k.rest \subseteq ref'[k.row][d.via]
    BY <2>2, <2>3
  <2>5. \A k, l \in d.kids : k.row = l.row => k = l
    BY <2>3
  <2> QED
    BY <2>2, <2>4, <2>5
<1>6. CASE ListWritten(c, d)
  <2>1. PICK k \in c.kids :
          /\ ref' = IF k.row \in live THEN [ref EXCEPT ![k.row][c.via] = k.rest] ELSE ref
          /\ d = [c EXCEPT !.kids = @ \ {k}]
    BY <1>6 DEF ListWritten
  <2>2. d.kids = c.kids \ {k} /\ d.via = c.via /\ d.step = "follow"
    BY <1>6, <2>1 DEF ListWritten
  <2>3. k.row \in Ids /\ c.via \in Fields /\ \A l \in c.kids : l.row \in Ids
    OBVIOUS
  <2>4. ASSUME NEW l \in d.kids, Policy(c.via) = "SET_NULL"
        PROVE  l.rest \subseteq ref'[l.row][c.via]
    <3>1. l \in c.kids /\ l.row # k.row /\ l.rest \subseteq ref[l.row][c.via]
      BY <2>2, <2>4
    <3> QED
      BY <2>1, <2>3, <3>1 DEF RowsTyped
  <2> QED
    BY <2>2, <2>4
<1> QED
  BY <1>1, <1>2, <1>3, <1>4, <1>5, <1>6 DEF Advanced

LEMMA CallersWaitStep ==
  ASSUME RecordTypes, CallsTyped', NEW q \in Requests, Solo(q), Others(q), CallsMove(q),
         schema' = schema, CallersWait
  PROVE  CallersWait'
<1> SUFFICES ASSUME NEW p \in Requests, NEW n \in DOMAIN stack'[p], n # Len(stack'[p])
             PROVE  stack'[p][n].step = "follow" /\ (Policy(stack[p][n].via) = "CASCADE")'
  BY DEF CallersWait
<1> SUFFICES stack'[p][n].step = "follow" /\ Policy(stack'[p][n].via) = "CASCADE"
  BY DEF Policy
<1>1. p = q
  BY SoloCalls
<1>2. CASE n \in 1 .. Len(stack[q]) - 1 /\ stack'[q][n] = stack[q][n]
  <2>1. n \in DOMAIN stack[q] /\ n # Len(stack[q])
    BY <1>2, StackTyped DEF RecordTypes
  <2> QED
    BY <1>1, <1>2, <2>1 DEF CallersWait
<1>3. ASSUME Top(q).step = "follow", Policy(Top(q).via) = "CASCADE", stack[q] # <<>>,
             NEW k \in Top(q).kids, stack'[q][n] = [Top(q) EXCEPT !.kids = @ \ {k}]
      PROVE  stack'[p][n].step = "follow" /\ Policy(stack'[p][n].via) = "CASCADE"
  <2>1. Top(q) \in CallSet
    BY <1>3, TopCall DEF RecordTypes
  <2> QED
    BY <1>1, <1>3, <2>1 DEF CallSet
<1> QED
  BY <1>1, <1>2, <1>3, PositionCases

LEMMA RowsGoneStep ==
  ASSUME RecordTypes, CallsTyped', NEW q \in Requests, Solo(q), Others(q), CallsMove(q),
         live' \subseteq live, RowsGone
  PROVE  RowsGone'
<1> SUFFICES ASSUME NEW p \in Requests, NEW n \in DOMAIN stack'[p],
                    stack'[p][n].step \in {"announce", "follow"}
             PROVE  stack'[p][n].id \notin live'
  BY DEF RowsGone
<1>1. p = q
  BY SoloCalls
<1>2. CASE n \in 1 .. Len(stack[q]) - 1 /\ stack'[q][n] = stack[q][n]
  <2>1. n \in DOMAIN stack[q]
    BY <1>2, StackTyped DEF RecordTypes
  <2> QED
    BY <1>1, <1>2, <2>1 DEF RowsGone
<1>3. stack[q] # <<>> => /\ Top(q) \in CallSet
                         /\ Top(q).step \in {"announce", "follow"} => Top(q).id \notin live
  <2> SUFFICES ASSUME stack[q] # <<>>
               PROVE  /\ Top(q) \in CallSet
                      /\ Top(q).step \in {"announce", "follow"} => Top(q).id \notin live
    OBVIOUS
  <2>1. Top(q) \in CallSet /\ Len(stack[q]) \in DOMAIN stack[q]
    BY TopCall DEF RecordTypes
  <2> QED
    BY <2>1 DEF RowsGone, Top
<1>4. CASE stack[q] # <<>> /\ stack'[q][n] \in CallSet /\ Advanced(Top(q), stack'[q][n])
  BY <1>1, <1>3, <1>4, AdvanceSteps
<1>5. ASSUME stack[q] # <<>>, Top(q).step = "follow",
             NEW k \in Top(q).kids, stack'[q][n] = [Top(q) EXCEPT !.kids = @ \ {k}]
      PROVE  stack'[p][n].id \notin live'
  BY <1>1, <1>3, <1>5 DEF CallSet
<1>6. ASSUME NEW k \in Top(q).kids, stack'[q][n] = Call(k.row)
      PROVE  FALSE
  BY <1>1, <1>6 DEF Call
<1> QED
  BY <1>1, <1>2, <1>4, <1>5, <1>6, PositionCases

LEMMA CallsDifferStep ==
  ASSUME RecordTypes, CallsTyped', NEW q \in Requests, Solo(q), Others(q), CallsMove(q),
         CallersWait, RowsGone, CallsDiffer
  PROVE  CallsDiffer'
<1>1. stack[q] # <<>> => /\ Top(q) \in CallSet /\ Len(stack[q]) \in DOMAIN stack[q]
                         /\ Top(q) = stack[q][Len(stack[q])]
  BY TopCall DEF RecordTypes, Top
<1>2. Len(stack[q]) \in Nat /\ DOMAIN stack[q] = 1 .. Len(stack[q])
  BY StackTyped DEF RecordTypes
<1>3. ASSUME NEW n \in DOMAIN stack'[q]
      PROVE  \/ n \in DOMAIN stack[q] /\ stack'[q][n].id = stack[q][n].id
             \/ /\ n = Len(stack[q]) + 1 /\ stack'[q][n].id \in live
                /\ stack[q] # <<>> /\ Top(q).step = "follow"
  <2>1. CASE n \in 1 .. Len(stack[q]) - 1 /\ stack'[q][n] = stack[q][n]
    BY <1>2, <2>1
  <2>2. CASE /\ n = Len(stack[q]) /\ stack[q] # <<>>
             /\ stack'[q][n] \in CallSet /\ Advanced(Top(q), stack'[q][n])
    BY <1>1, <2>2, AdvanceSteps
  <2>3. ASSUME n = Len(stack[q]), stack[q] # <<>>,
               NEW k \in Top(q).kids, stack'[q][n] = [Top(q) EXCEPT !.kids = @ \ {k}]
        PROVE  n \in DOMAIN stack[q] /\ stack'[q][n].id = stack[q][n].id
    BY <1>1, <2>3 DEF CallSet
  <2>4. ASSUME NEW k \in Top(q).kids, k.row \in live, stack'[q][n] = Call(k.row)
        PROVE  stack'[q][n].id \in live
    BY <2>4 DEF Call
  <2> QED
    BY <2>1, <2>2, <2>3, <2>4, PositionCases
<1>4. ASSUME stack[q] # <<>>, Top(q).step = "follow", NEW n \in DOMAIN stack[q]
      PROVE  stack[q][n].id \notin live
  BY <1>1, <1>4 DEF CallersWait, RowsGone
<1> SUFFICES ASSUME NEW p \in Requests, NEW m \in DOMAIN stack'[p], NEW n \in DOMAIN stack'[p],
                    m # n
             PROVE  stack'[p][m].id # stack'[p][n].id
  BY DEF CallsDiffer
<1>5. p = q
  BY SoloCalls
<1> QED
  BY <1>2, <1>3, <1>4, <1>5 DEF CallsDiffer

LEMMA AllHeldStep ==
  ASSUME RecordTypes, CallsTyped', Track, NEW q \in Requests, Solo(q), Others(q), CallsMove(q),
         live' \subseteq live, \A i \in live : \A f \in Fields : ref'[i][f] \subseteq ref[i][f],
         CallersWait, AllHeld
  PROVE  AllHeld'
<1> SUFFICES ASSUME NEW p \in Requests, NEW n \in DOMAIN stack'[p],
                    stack'[p][n].step \in {"restrict", "remove"}
             PROVE  References(stack[p][n].id)' \subseteq held'[p][n]
  BY DEF AllHeld
<1> SUFFICES ReferencesAfter(stack'[p][n].id) \subseteq held'[p][n]
  BY DEF References, ReferencesAfter
<1>1. p = q
  BY SoloCalls
<1>2. ReferencesAfter(stack'[p][n].id) \subseteq References(stack'[p][n].id)
  BY DEF References, ReferencesAfter
<1>3. Len(stack[q]) \in Nat /\ DOMAIN stack[q] = 1 .. Len(stack[q])
  BY StackTyped DEF RecordTypes
<1>4. /\ n \notin DOMAIN stack[p] => held'[p][n] = ReferencesAfter(stack'[p][n].id)
      /\ n \in DOMAIN stack[p] => held'[p][n] = held[p][n] \cap ReferencesAfter(stack'[p][n].id)
  BY DEF Track
<1>5. CASE n \in 1 .. Len(stack[q]) - 1 /\ stack'[q][n] = stack[q][n]
  BY <1>1, <1>3, <1>5 DEF CallersWait
<1>6. CASE /\ n = Len(stack[q]) /\ stack[q] # <<>>
           /\ stack'[q][n] \in CallSet /\ Advanced(Top(q), stack'[q][n])
  <2>1. Top(q) \in CallSet /\ Len(stack[q]) \in DOMAIN stack[q] /\ Top(q) = stack[q][n]
    BY <1>6, TopCall DEF RecordTypes, Top
  <2>2. stack'[q][n].id = Top(q).id /\ Top(q).step \in {"restrict", "remove"}
    BY <1>1, <1>6, <2>1, AdvanceSteps
  <2>3. References(stack'[q][n].id) \subseteq held[q][n]
    BY <1>6, <2>1, <2>2 DEF AllHeld
  <2> QED
    BY <1>1, <1>2, <1>4, <2>3
<1>7. ASSUME stack[q] # <<>>, Top(q).step = "follow",
             NEW k \in Top(q).kids, stack'[q][n] = [Top(q) EXCEPT !.kids = @ \ {k}]
      PROVE  FALSE
  <2>1. Top(q) \in CallSet
    BY <1>7, TopCall DEF RecordTypes
  <2> QED
    BY <1>1, <1>7, <2>1 DEF CallSet
<1>8. CASE n = Len(stack[q]) + 1
  BY <1>1, <1>3, <1>4, <1>8
<1> QED
  BY <1>1, <1>5, <1>6, <1>7, <1>8, PositionCases

LEMMA ListsFreshStep ==
  ASSUME RecordTypes, CallsTyped', NEW q \in Requests, Solo(q), Others(q), CallsMove(q),
         schema' = schema, CallersWait, ListsFresh
  PROVE  ListsFresh'
<1> SUFFICES ASSUME NEW p \in Requests, NEW n \in DOMAIN stack'[p], NEW c, c = stack'[p][n]
             PROVE  /\ c.step # "follow" => c.kids = {}
                    /\ c.kids # {} /\ Policy(c.via) = "SET_NULL" =>
                         /\ \A k \in c.kids : k.rest \subseteq ref'[k.row][c.via]
                         /\ \A k, l \in c.kids : k.row = l.row => k = l
  BY DEF ListsFresh, Policy
<1>1. p = q
  BY SoloCalls
<1>2. Len(stack[q]) \in Nat /\ DOMAIN stack[q] = 1 .. Len(stack[q])
  BY StackTyped DEF RecordTypes
<1>3. CASE n \in 1 .. Len(stack[q]) - 1 /\ stack'[q][n] = stack[q][n]
  BY <1>1, <1>2, <1>3 DEF CallersWait
<1>4. CASE /\ n = Len(stack[q]) /\ stack[q] # <<>>
           /\ stack'[q][n] \in CallSet /\ Advanced(Top(q), stack'[q][n])
  <2>1. Top(q) \in CallSet /\ Len(stack[q]) \in DOMAIN stack[q] /\ Top(q) = stack[q][n]
    BY <1>4, TopCall DEF RecordTypes, Top
  <2>2. /\ Top(q).step # "follow" => Top(q).kids = {}
        /\ Top(q).kids # {} /\ Policy(Top(q).via) = "SET_NULL" =>
             /\ \A k \in Top(q).kids : k.rest \subseteq ref[k.row][Top(q).via]
             /\ \A k, l \in Top(q).kids : k.row = l.row => k = l
    BY <1>4, <2>1 DEF ListsFresh
  <2> QED
    BY <1>1, <1>4, <2>1, <2>2, AdvanceFresh DEF RecordTypes
<1>5. ASSUME stack[q] # <<>>, Top(q).step = "follow", Policy(Top(q).via) = "CASCADE",
             NEW k \in Top(q).kids, stack'[q][n] = [Top(q) EXCEPT !.kids = @ \ {k}]
      PROVE  c.step = "follow" /\ Policy(c.via) = "CASCADE"
  <2>1. Top(q) \in CallSet
    BY <1>5, TopCall DEF RecordTypes
  <2> QED
    BY <1>1, <1>5, <2>1 DEF CallSet
<1>6. ASSUME NEW k \in Top(q).kids, stack'[q][n] = Call(k.row)
      PROVE  c.kids = {}
  BY <1>1, <1>6 DEF Call
<1> QED
  BY <1>1, <1>3, <1>4, <1>5, <1>6, PositionCases

\* A call past its DELETE, or that deletes its row now, stays there until it has
\* followed all that it found.
LEMMA HolderStays ==
  ASSUME RecordTypes, CallsTyped', NEW q \in Requests, CallsMove(q), CallersWait,
         NEW n \in DOMAIN stack[q],
         \/ stack[q][n].step \in {"announce", "follow"}
         \/ stack[q][n].step = "remove" /\ live' # live,
         ~(n = Len(stack[q]) /\ Followed(Top(q)))
  PROVE  /\ n \in DOMAIN stack'[q] /\ stack'[q][n].id = stack[q][n].id
         /\ stack'[q][n].step \in {"announce", "follow"}
<1>1. /\ Len(stack[q]) \in Nat /\ DOMAIN stack[q] = 1 .. Len(stack[q])
      /\ DOMAIN stack'[q] = 1 .. Len(stack'[q])
  <2>1. stack[q] \in Seq(CallSet) /\ stack'[q] \in Seq(CallSet)
    BY DEF RecordTypes, CallsTyped
  <2> QED
    BY <2>1, LenProperties
<1>2. /\ stack[q] # <<>> /\ Top(q) \in CallSet /\ Top(q) = stack[q][Len(stack[q])]
      /\ n # Len(stack[q]) => stack[q][n].step = "follow"
  <2>1. stack[q] # <<>>
    BY <1>1
  <2> QED
    BY <2>1, TopCall DEF RecordTypes, CallersWait, Top
<1>3. ASSUME NEW d \in CallSet, Swapped(q, d), Advanced(Top(q), d)
      PROVE  /\ n \in DOMAIN stack'[q] /\ stack'[q][n].id = stack[q][n].id
             /\ stack'[q][n].step \in {"announce", "follow"}
  <2>1. /\ Len(stack'[q]) = Len(stack[q]) /\ stack'[q][Len(stack[q])] = d
        /\ \A i \in 1 .. Len(stack[q]) - 1 : stack'[q][i] = stack[q][i]
    BY <1>3 DEF Swapped
  <2>2. CASE n = Len(stack[q])
    BY <1>1, <1>2, <1>3, <2>1, <2>2, AdvanceSteps
  <2>3. CASE n # Len(stack[q])
    BY <1>1, <1>2, <2>1, <2>3
  <2> QED
    BY <2>2, <2>3
<1>4. ASSUME NEW d \in CallSet, NEW e \in CallSet, Called(q, d, e), ChildCalled(Top(q), d, e)
      PROVE  /\ n \in DOMAIN stack'[q] /\ stack'[q][n].id = stack[q][n].id
             /\ stack'[q][n].step \in {"announce", "follow"}
  <2>1. /\ Len(stack'[q]) = Len(stack[q]) + 1 /\ stack'[q][Len(stack[q])] = d
        /\ \A i \in 1 .. Len(stack[q]) - 1 : stack'[q][i] = stack[q][i]
    BY <1>4 DEF Called
  <2>2. d.id = Top(q).id /\ d.step = "follow"
    BY <1>2, <1>4 DEF ChildCalled, CallSet
  <2>3. CASE n = Len(stack[q])
    BY <1>1, <1>2, <2>1, <2>2, <2>3
  <2>4. CASE n # Len(stack[q])
    BY <1>1, <1>2, <2>1, <2>4
  <2> QED
    BY <2>3, <2>4
<1>5. CASE Returned(q) /\ CallEnds(q)
  <2>1. n # Len(stack[q])
    BY <1>2, <1>5 DEF CallEnds, Refused
  <2> QED
    BY <1>1, <1>2, <1>5, <2>1 DEF Returned
<1> QED
  BY <1>3, <1>4, <1>5 DEF CallsMove

LEMMA RefsLeadDelete ==
  ASSUME RecordTypes, RecordTypes', Next, NEW q \in Requests, Solo(q), Delete(q),
         faults = 0, FollowInv, AloneCalls, RefsLead
  PROVE  RefsLead'
<1> USE DEF AloneCalls
<1> SUFFICES ASSUME NEW i \in live' \ kept', NEW f \in Fields, NEW t \in ref'[i][f],
                    t \notin live'
             PROVE  Dangling(i, f, t)'
  BY DEF RefsLead
<1>1. /\ live' \subseteq live /\ kept \cap live' \subseteq kept'
      /\ \A r \in live : \A g \in Fields : ref'[r][g] \subseteq ref[r][g]
      /\ \A u \in live \ live' : u = Top(q).id /\ Top(q).step = "remove"
  BY DeleteShrinks
<1>2. i \in live \ kept /\ i \in Ids /\ t \in ref[i][f]
  BY <1>1 DEF RecordTypes, RowsTyped
<1>3. CallsMove(q) /\ CallsTyped' /\ Track
  BY DeleteMoves DEF RecordTypes, Next
<1>4. ASSUME NEW n \in DOMAIN stack[q], stack[q][n].id = t, <<i, f>> \in held[q][n],
             \/ stack[q][n].step \in {"announce", "follow"}
             \/ stack[q][n].step = "remove" /\ live' # live
      PROVE  Dangling(i, f, t)'
  <2>1. ~(n = Len(stack[q]) /\ Followed(Top(q)))
    <3> SUFFICES ASSUME n = Len(stack[q]), Followed(Top(q))
                 PROVE  FALSE
      OBVIOUS
    <3>1. stack[q] # <<>>
      BY StackTyped DEF RecordTypes
    <3>2. \A x \in held[q][n] : x[1] \in kept
      BY <3>1, FollowedThroughState DEF FollowedThrough
    <3> QED
      BY <1>2, <1>4, <3>2
  <2>2. /\ n \in DOMAIN stack'[q] /\ stack'[q][n].id = t
        /\ stack'[q][n].step \in {"announce", "follow"}
    BY <1>3, <1>4, <2>1, HolderStays
  <2>3. <<i, f>> \in ReferencesAfter(stack'[q][n].id)
    BY <1>2, <2>2 DEF ReferencesAfter
  <2>4. <<i, f>> \in held'[q][n]
    BY <1>3, <1>4, <2>2, <2>3 DEF Track
  <2> QED
    BY <2>2, <2>4 DEF Dangling
<1>5. CASE t \in live
  <2>1. t = Top(q).id /\ Top(q).step = "remove"
    BY <1>1, <1>5
  <2>2. stack[q] # <<>>
    BY DEF Delete, CheckRestrict, BeforeDelete, RemoveRow, AnnounceDelete, FindChildren,
           DeleteChild, ClearField, FindLists, RewriteList, Deleted, At
  <2>3. Len(stack[q]) \in DOMAIN stack[q] /\ Top(q) = stack[q][Len(stack[q])]
    BY <2>2, TopCall DEF RecordTypes, Top
  <2>4. <<i, f>> \in References(t)
    BY <1>2 DEF References
  <2>5. <<i, f>> \in held[q][Len(stack[q])]
    BY <2>1, <2>3, <2>4 DEF AllHeld
  <2> QED
    BY <1>4, <1>5, <2>1, <2>3, <2>5
<1>6. CASE t \notin live
  <2>1. PICK p \in Requests : \E n \in DOMAIN stack[p] :
          /\ stack[p][n].id = t /\ stack[p][n].step \in {"announce", "follow"}
          /\ <<i, f>> \in held[p][n]
    BY <1>2, <1>6 DEF RefsLead, Dangling
  <2>2. p = q
    BY <2>1 DEF Solo
  <2> QED
    BY <1>4, <2>1, <2>2
<1> QED
  BY <1>5, <1>6

LEMMA RefsUniqueDelete ==
  ASSUME RecordTypes, NEW q \in Requests, Delete(q), ListsFresh, schema' = schema, RefsUnique
  PROVE  RefsUnique'
<1> SUFFICES ASSUME NEW f \in Fields, Card(f) = "1:1", NEW i \in live', NEW j \in live', i # j
             PROVE  ref'[i][f] \cap ref'[j][f] = {}
  BY DEF RefsUnique, Card
<1>1. /\ i \in live /\ j \in live
      /\ ref'[i][f] \subseteq ref[i][f] /\ ref'[j][f] \subseteq ref[j][f]
  BY DeleteShrinks
<1>2. ref[i][f] \cap ref[j][f] = {}
  BY <1>1 DEF RefsUnique
<1> QED
  BY <1>1, <1>2

LEMMA ChecksHoldDelete ==
  ASSUME RecordTypes, NEW q \in Requests, Solo(q), Others(q), Delete(q)
  PROVE  ChecksHold'
<1> SUFFICES ASSUME NEW p \in Requests
             PROVE  CheckedOp(op[p])'
  BY DEF ChecksHold
<1>1. op'[p].step \in {"idle", "cascade"}
  <2>1. CASE p # q
    BY <2>1 DEF Solo, Others, Idle
  <2>2. CASE p = q
    <3>1. op[q].step = "cascade"
      BY DEF Delete, CheckRestrict, BeforeDelete, RemoveRow, AnnounceDelete, FindChildren,
             DeleteChild, ClearField, FindLists, RewriteList, Deleted, At, RecordTypes, CallsTyped
    <3>2. op' = op \/ End(q)
      BY DEF Delete, CheckRestrict, BeforeDelete, RemoveRow, AnnounceDelete, FindChildren,
             DeleteChild, ClearField, FindLists, RewriteList, Deleted, Refuse, Return
    <3>3. op'[q] = op[q] \/ op'[q] = Idle
      BY <3>2 DEF End, RecordTypes, CallsTyped
    <3> QED
      BY <2>2, <3>1, <3>3 DEF Idle
  <2> QED
    BY <2>1, <2>2
<1> QED
  BY <1>1 DEF CheckedOp

\* While a lone request creates, updates or starts a deletion there are no calls
\* but the first of that deletion.
LEMMA WriteCalls ==
  ASSUME RecordTypes, NEW q \in Requests, Submit(q) \/ Write(q), Solo(q), Others(q), Track,
         NEW p \in Requests
  PROVE  /\ stack[p] = <<>>
         /\ \A n \in DOMAIN stack'[p] :
              /\ n = 1 /\ Len(stack'[p]) = 1 /\ held'[p][n] = ReferencesAfter(stack'[p][n].id)
              /\ \E id \in Ids : stack'[p][n] = Call(id)
<1>1. stack[p] = <<>>
  <2>1. op[q].step # "cascade"
    BY DEF Submit, Write, Read, CheckTarget, CheckUnique, RunBefore, InsertRow, UpdateRow,
           FetchBack, Announce, Idle
  <2> QED
    BY <2>1 DEF Solo, RecordTypes, CallsTyped
<1>2. stack'[p] = <<>> \/ Started(p)
  BY <1>1, WriteStarts
<1>3. ASSUME NEW n \in DOMAIN stack'[p]
      PROVE  /\ n = 1 /\ Len(stack'[p]) = 1 /\ held'[p][n] = ReferencesAfter(stack'[p][n].id)
             /\ \E id \in Ids : stack'[p][n] = Call(id)
  <2>1. PICK e \in CallSet, id \in Ids : e = Call(id) /\ stack'[p] = <<e>>
    BY <1>2, <1>3 DEF Started
  <2>2. n = 1 /\ Len(stack'[p]) = 1 /\ stack'[p][n] = Call(id)
    BY <2>1
  <2>3. n \notin DOMAIN stack[p]
    BY <1>1
  <2>4. held'[p][n] = ReferencesAfter(stack'[p][n].id)
    BY <2>3 DEF Track
  <2> QED
    BY <2>2, <2>4
<1> QED
  BY <1>1, <1>3

LEMMA AloneCallsWrite ==
  ASSUME RecordTypes, NEW q \in Requests, Submit(q) \/ Write(q), Solo(q), Others(q), Track
  PROVE  AloneCalls'
<1>1. ASSUME NEW p \in Requests, NEW n \in DOMAIN stack'[p]
      PROVE  /\ n = 1 /\ Len(stack'[p]) = 1 /\ held'[p][n] = ReferencesAfter(stack'[p][n].id)
             /\ stack'[p][n].step = "restrict" /\ stack'[p][n].kids = {}
  <2>1. /\ n = 1 /\ Len(stack'[p]) = 1 /\ held'[p][n] = ReferencesAfter(stack'[p][n].id)
        /\ \E id \in Ids : stack'[p][n] = Call(id)
    BY <1>1, WriteCalls
  <2> QED
    BY <2>1 DEF Call
<1>2. CallersWait'
  BY <1>1 DEF CallersWait
<1>3. RowsGone'
  BY <1>1 DEF RowsGone
<1>4. CallsDiffer'
  BY <1>1 DEF CallsDiffer
<1>5. AllHeld'
  <2> SUFFICES ASSUME NEW p \in Requests, NEW n \in DOMAIN stack'[p]
               PROVE  References(stack[p][n].id)' \subseteq held'[p][n]
    BY DEF AllHeld
  <2> QED
    BY <1>1 DEF References, ReferencesAfter
<1>6. ListsFresh'
  BY <1>1 DEF ListsFresh
<1> QED
  BY <1>2, <1>3, <1>4, <1>5, <1>6 DEF AloneCalls

\* What an INSERT or UPDATE writes was checked.
LEMMA WriterChecked ==
  ASSUME RecordTypes, NEW q \in Requests, InsertRow(q) \/ UpdateRow(q), ChecksHold
  PROVE  /\ op[q] \in OpSet /\ op[q].value \subseteq live
         /\ op[q].field \in Fields /\ Card(op[q].field) = "1:1" =>
              \A t \in op[q].value : Referrers(op[q].field, t) \subseteq {op[q].id}
         /\ InsertRow(q) /\ rows' # rows =>
              /\ op[q].id \notin live /\ live' = live \cup {op[q].id}
              /\ ref' = [ref EXCEPT ![op[q].id] =
                           [f \in Fields |-> IF f = op[q].field THEN op[q].value ELSE {}]]
         /\ UpdateRow(q) /\ rows' # rows =>
              /\ op[q].field \in Fields /\ live' = live
              /\ ref' = [ref EXCEPT ![op[q].id][op[q].field] = op[q].value]
<1>1. op[q] \in OpSet /\ op[q].step = "write"
  BY DEF InsertRow, UpdateRow, RecordTypes, CallsTyped, Idle
<1>2. op[q].value \subseteq live
  BY <1>1 DEF ChecksHold, CheckedOp, OpSet
<1>3. op[q].field \in Fields /\ Card(op[q].field) = "1:1" =>
        \A t \in op[q].value : Referrers(op[q].field, t) \subseteq {op[q].id}
  BY <1>1 DEF ChecksHold, CheckedOp
<1>4. UpdateRow(q) => op[q].field \in Fields
  BY <1>1 DEF UpdateRow, OpSet
<1> QED
  BY <1>1, <1>2, <1>3, <1>4 DEF InsertRow, UpdateRow, rows

LEMMA WriteKeepsRows ==
  ASSUME NEW q \in Requests, Submit(q) \/ Write(q)
  PROVE  kept' = kept /\ (InsertRow(q) \/ UpdateRow(q) \/ UNCHANGED rows)
BY DEF Submit, Write, Read, CheckTarget, CheckUnique, RunBefore, InsertRow, UpdateRow,
       FetchBack, Announce, rows

LEMMA RefsLeadWrite ==
  ASSUME RecordTypes, NEW q \in Requests, Submit(q) \/ Write(q), Solo(q), Others(q), Track,
         RefsLead, ChecksHold
  PROVE  RefsLead'
<1> SUFFICES ASSUME NEW i \in live' \ kept', NEW f \in Fields, NEW t \in ref'[i][f]
             PROVE  t \in live'
  BY DEF RefsLead
<1>1. \A r \in live \ kept : \A g \in Fields : ref[r][g] \subseteq live
  <2>1. \A p \in Requests : DOMAIN stack[p] = {}
    BY WriteCalls
  <2>2. ASSUME NEW r, NEW g, NEW u
        PROVE  ~Dangling(r, g, u)
    BY <2>1 DEF Dangling
  <2> QED
    BY <2>2 DEF RefsLead
<1>2. kept' = kept
  BY WriteKeepsRows
<1>3. CASE UNCHANGED rows
  BY <1>1, <1>2, <1>3 DEF rows
<1>4. CASE InsertRow(q) /\ rows' # rows
  <2>1. /\ op[q] \in OpSet /\ op[q].value \subseteq live /\ live' = live \cup {op[q].id}
        /\ ref' = [ref EXCEPT ![op[q].id] =
                     [g \in Fields |-> IF g = op[q].field THEN op[q].value ELSE {}]]
    BY <1>4, WriterChecked
  <2>2. op[q].id \in Ids
    BY <2>1 DEF OpSet
  <2>3. CASE i = op[q].id
    BY <2>1, <2>2, <2>3 DEF RecordTypes, RowsTyped
  <2>4. CASE i # op[q].id
    BY <1>1, <1>2, <2>1, <2>4 DEF RecordTypes, RowsTyped
  <2> QED
    BY <2>3, <2>4
<1>5. CASE UpdateRow(q) /\ rows' # rows
  <2>1. /\ op[q] \in OpSet /\ op[q].value \subseteq live /\ live' = live
        /\ op[q].field \in Fields
        /\ ref' = [ref EXCEPT ![op[q].id][op[q].field] = op[q].value]
    BY <1>5, WriterChecked
  <2>2. ref'[i][f] = ref[i][f] \/ ref'[i][f] = op[q].value
    BY <1>2, <2>1 DEF RecordTypes, RowsTyped
  <2> QED
    BY <1>1, <1>2, <2>1, <2>2
<1> QED
  BY <1>3, <1>4, <1>5, WriteKeepsRows

LEMMA RefsUniqueWrite ==
  ASSUME RecordTypes, NEW q \in Requests, Submit(q) \/ Write(q), schema' = schema,
         RefsUnique, ChecksHold
  PROVE  RefsUnique'
<1> SUFFICES ASSUME NEW f \in Fields, Card(f) = "1:1", NEW i \in live', NEW j \in live', i # j,
                    NEW t, t \in ref'[i][f], t \in ref'[j][f]
             PROVE  FALSE
  BY DEF RefsUnique, Card
<1>1. \A r, s \in live : r # s => ref[r][f] \cap ref[s][f] = {}
  BY DEF RefsUnique
<1>2. CASE UNCHANGED rows
  BY <1>1, <1>2 DEF rows
<1>3. ASSUME InsertRow(q) \/ UpdateRow(q), rows' # rows
      PROVE  FALSE
  <2> DEFINE id == op[q].id
             v == op[q].value
  <2>1. /\ op[q] \in OpSet
        /\ f = op[q].field => \A u \in v : Referrers(f, u) \subseteq {id}
    BY <1>3, WriterChecked
  <2>2. id \in Ids
    BY <2>1 DEF OpSet
  <2>3. ASSUME NEW r \in live', t \in ref'[r][f], r # id
        PROVE  r \in live /\ t \in ref[r][f]
    <3>1. CASE InsertRow(q)
      <4>1. /\ live' = live \cup {id}
            /\ ref' = [ref EXCEPT ![id] = [g \in Fields |-> IF g = op[q].field THEN v ELSE {}]]
        BY <1>3, <3>1, WriterChecked
      <4> QED
        BY <2>2, <2>3, <4>1 DEF RecordTypes, RowsTyped
    <3>2. CASE UpdateRow(q)
      <4>1. live' = live /\ ref' = [ref EXCEPT ![id][op[q].field] = v]
        BY <1>3, <3>2, WriterChecked
      <4> QED
        BY <2>2, <2>3, <4>1 DEF RecordTypes, RowsTyped
    <3> QED
      BY <1>3, <3>1, <3>2
  <2>4. ASSUME id \in live', t \in ref'[id][f]
        PROVE  (f = op[q].field /\ t \in v) \/ (id \in live /\ t \in ref[id][f])
    <3>1. CASE InsertRow(q)
      <4>1. ref' = [ref EXCEPT ![id] = [g \in Fields |-> IF g = op[q].field THEN v ELSE {}]]
        BY <1>3, <3>1, WriterChecked
      <4>2. t \in (IF f = op[q].field THEN v ELSE {})
        BY <2>2, <2>4, <4>1 DEF RecordTypes, RowsTyped
      <4> QED
        BY <4>2
    <3>2. CASE UpdateRow(q)
      <4>1. /\ live' = live /\ op[q].field \in Fields
            /\ ref' = [ref EXCEPT ![id][op[q].field] = v]
        BY <1>3, <3>2, WriterChecked
      <4>2. ref'[id][f] = IF f = op[q].field THEN v ELSE ref[id][f]
        BY <2>2, <4>1 DEF RecordTypes, RowsTyped
      <4> QED
        BY <2>4, <4>1, <4>2
    <3> QED
      BY <1>3, <3>1, <3>2
  <2>5. ASSUME NEW r \in live', r # id, t \in ref'[r][f], id \in live', t \in ref'[id][f]
        PROVE  FALSE
    <3>1. r \in live /\ t \in ref[r][f]
      BY <2>3, <2>5
    <3>2. CASE f = op[q].field /\ t \in v
      BY <2>1, <2>5, <3>1, <3>2 DEF Referrers
    <3>3. CASE id \in live /\ t \in ref[id][f]
      BY <1>1, <2>5, <3>1, <3>3
    <3> QED
      BY <2>4, <2>5, <3>2, <3>3
  <2>6. CASE i = id
    BY <2>5, <2>6
  <2>7. CASE j = id
    BY <2>5, <2>7
  <2>8. CASE i # id /\ j # id
    BY <1>1, <2>3, <2>8
  <2> QED
    BY <2>6, <2>7, <2>8
<1> QED
  BY <1>2, <1>3, WriteKeepsRows

LEMMA CheckingChecked ==
  ASSUME NEW o \in OpSet, o.value \ o.todo \subseteq live
  PROVE  CheckedOp(Checking(o))
<1>1. CASE o.todo # {}
  <2>1. Checking(o) = [o EXCEPT !.step = "check"]
    BY <1>1 DEF Checking
  <2> QED
    BY <2>1 DEF CheckedOp, OpSet
<1>2. CASE o.todo = {} /\ o.value # {} /\ Card(o.field) = "1:1"
  <2>1. Checking(o) = [o EXCEPT !.step = "unique"]
    BY <1>2 DEF Checking
  <2> QED
    BY <1>2, <2>1 DEF CheckedOp, OpSet
<1>3. CASE o.todo = {} /\ ~(o.value # {} /\ Card(o.field) = "1:1")
  <2>1. Checking(o) = [o EXCEPT !.step = "before"]
    BY <1>3 DEF Checking
  <2> QED
    BY <1>3, <2>1 DEF CheckedOp, OpSet
<1> QED
  BY <1>1, <1>2, <1>3

LEMMA ChecksHoldWrite ==
  ASSUME RecordTypes, NEW q \in Requests, Submit(q) \/ Write(q), Solo(q), Others(q),
         schema' = schema, ChecksHold
  PROVE  ChecksHold'
<1> USE DEF RecordTypes
<1> SUFFICES ASSUME NEW p \in Requests
             PROVE  CheckedOp(op[p])'
  BY DEF ChecksHold
<1>1. CASE p # q
  BY <1>1 DEF Solo, Others, Idle, CheckedOp
<1> SUFFICES CheckedOp(op[q])'
  BY <1>1
<1>2. ASSUME op'[q].step \notin {"read", "check", "unique", "before", "write"}
      PROVE  CheckedOp(op[q])'
  BY <1>2 DEF CheckedOp
<1>3. ASSUME NEW o, op'[q] = o, UNCHANGED rows, CheckedOp(o)
      PROVE  CheckedOp(op[q])'
  BY <1>3 DEF CheckedOp, rows, Card, Referrers
<1>4. CheckedOp(op[q])
  BY DEF ChecksHold
<1>5. op[q] \in OpSet \cup {Idle}
  BY DEF CallsTyped
<1>6. End(q) => CheckedOp(op[q])'
  BY <1>2 DEF End, Idle, CallsTyped
<1>7. CASE Submit(q)
  <2>1. UNCHANGED rows
    BY <1>7 DEF Submit, rows
  <2>2. PICK id \in Ids :
       \/ \E f \in FieldsOf(MoulOf[id]) : \E v \in Values(f) :
            op' = [op EXCEPT ![q] = Checking([kind |-> "create", id |-> id, field |-> f,
                                              value |-> v, step |-> "check", todo |-> v])]
       \/ \E f \in FieldsOf(MoulOf[id]) : \E v \in Values(f) :
            op' = [op EXCEPT ![q] = [kind |-> "update", id |-> id, field |-> f, value |-> v,
                                     step |-> "read", todo |-> v]]
       \/ FieldsOf(MoulOf[id]) = {}
          /\ op' = [op EXCEPT ![q] = [kind |-> "create", id |-> id, field |-> NoField, value |-> {},
                                      step |-> "before", todo |-> {}]]
       \/ op' = [op EXCEPT ![q] = [kind |-> "delete", id |-> id, field |-> NoField, value |-> {},
                                   step |-> "read", todo |-> {}]]
    BY <1>7 DEF Submit
  <2>3. CASE \E f \in FieldsOf(MoulOf[id]) : \E v \in Values(f) :
            op' = [op EXCEPT ![q] = Checking([kind |-> "create", id |-> id, field |-> f,
                                              value |-> v, step |-> "check", todo |-> v])]
    <3>1. PICK f \in FieldsOf(MoulOf[id]) : \E v \in Values(f) :
            op' = [op EXCEPT ![q] = Checking([kind |-> "create", id |-> id, field |-> f,
                                              value |-> v, step |-> "check", todo |-> v])]
      BY <2>3
    <3>2. PICK v \in Values(f) :
            op' = [op EXCEPT ![q] = Checking([kind |-> "create", id |-> id, field |-> f,
                                              value |-> v, step |-> "check", todo |-> v])]
      BY <3>1
    <3> DEFINE o == [kind |-> "create", id |-> id, field |-> f,
                     value |-> v, step |-> "check", todo |-> v]
    <3>3. o \in OpSet /\ o.value \ o.todo \subseteq live
      BY DEF FieldsOf, Values, Typed, OpSet, OpSteps, Kinds
    <3>4. op'[q] = Checking(o)
      BY <3>2 DEF CallsTyped
    <3> HIDE DEF o
    <3> QED
      BY <1>3, <2>1, <3>3, <3>4, CheckingChecked
  <2>4. ASSUME NEW o, op' = [op EXCEPT ![q] = o], o.todo = o.value,
               o.step = "read" \/ (o.step = "before" /\ o.value = {})
        PROVE  CheckedOp(op[q])'
    <3>1. op'[q] = o
      BY <2>4 DEF CallsTyped
    <3>2. CheckedOp(o)
      BY <2>4 DEF CheckedOp
    <3> QED
      BY <1>3, <2>1, <3>1, <3>2
  <2>5. CASE \E f \in FieldsOf(MoulOf[id]) : \E v \in Values(f) :
            op' = [op EXCEPT ![q] = [kind |-> "update", id |-> id, field |-> f, value |-> v,
                                     step |-> "read", todo |-> v]]
    BY <2>4, <2>5
  <2>6. CASE op' = [op EXCEPT ![q] = [kind |-> "create", id |-> id, field |-> NoField,
                                      value |-> {}, step |-> "before", todo |-> {}]]
    BY <2>4, <2>6
  <2>7. CASE op' = [op EXCEPT ![q] = [kind |-> "delete", id |-> id, field |-> NoField,
                                      value |-> {}, step |-> "read", todo |-> {}]]
    BY <2>4, <2>7
  <2> QED
    BY <2>2, <2>3, <2>5, <2>6, <2>7
<1>8. CASE Read(q)
  <2>1. op[q].step = "read" /\ op[q] \in OpSet /\ UNCHANGED rows
    BY <1>5, <1>8 DEF Read, Idle
  <2>2. CASE op' = [op EXCEPT ![q] = Checking(@)]
    <3>1. op'[q] = Checking(op[q])
      BY <2>2 DEF CallsTyped
    <3>2. op[q].value \ op[q].todo \subseteq live
      BY <1>4, <2>1 DEF CheckedOp
    <3>3. CheckedOp(Checking(op[q]))
      BY <2>1, <3>2, CheckingChecked
    <3> QED
      BY <1>3, <2>1, <3>1, <3>3
  <2>3. CASE Goto(q, "cascade")
    <3>1. op'[q].step = "cascade"
      BY <2>1, <2>3 DEF Goto, CallsTyped, OpSet
    <3> QED
      BY <1>2, <3>1
  <2> QED
    BY <1>6, <1>8, <2>2, <2>3 DEF Read
<1>9. CASE CheckTarget(q) /\ ~End(q)
  <2>1. op[q].step = "check" /\ op[q] \in OpSet /\ UNCHANGED rows
    BY <1>5, <1>9 DEF CheckTarget, Idle
  <2>2. PICK t \in op[q].todo :
          t \in live /\ op' = [op EXCEPT ![q] = Checking([op[q] EXCEPT !.todo = @ \ {t}])]
    BY <1>9 DEF CheckTarget
  <2> DEFINE o == [op[q] EXCEPT !.todo = @ \ {t}]
  <2>3. op[q].value \ op[q].todo \subseteq live
    BY <1>4, <2>1 DEF CheckedOp
  <2>4. o \in OpSet /\ o.value \ o.todo \subseteq live
    BY <2>1, <2>2, <2>3 DEF OpSet
  <2>5. op'[q] = Checking(o)
    BY <2>2 DEF CallsTyped
  <2> HIDE DEF o
  <2> QED
    BY <1>3, <2>1, <2>4, <2>5, CheckingChecked
<1>10. CASE CheckUnique(q) /\ ~End(q)
  <2>1. /\ op[q].step = "unique" /\ op[q] \in OpSet /\ UNCHANGED rows /\ Goto(q, "before")
        /\ \A t \in op[q].value : Referrers(op[q].field, t) \ {op[q].id} = {}
    BY <1>5, <1>10 DEF CheckUnique, Idle
  <2> DEFINE o == [op[q] EXCEPT !.step = "before"]
  <2>2. op'[q] = o
    BY <2>1 DEF Goto, CallsTyped
  <2>3. o.step = "before" /\ o.value = op[q].value /\ o.todo = op[q].todo /\ o.id = op[q].id
        /\ o.field = op[q].field
    BY <2>1 DEF OpSet
  <2> HIDE DEF o
  <2>4. op[q].todo = {} /\ op[q].value \ op[q].todo \subseteq live
    BY <1>4, <2>1 DEF CheckedOp
  <2>5. CheckedOp(o)
    BY <2>1, <2>3, <2>4 DEF CheckedOp
  <2> QED
    BY <1>3, <2>1, <2>2, <2>5
<1>11. CASE RunBefore(q) /\ ~End(q)
  <2>1. op[q].step = "before" /\ op[q] \in OpSet /\ UNCHANGED rows /\ Goto(q, "write")
    BY <1>5, <1>11 DEF RunBefore, Idle
  <2> DEFINE o == [op[q] EXCEPT !.step = "write"]
  <2>2. op'[q] = o
    BY <2>1 DEF Goto, CallsTyped
  <2>3. o.step = "write" /\ o.value = op[q].value /\ o.todo = op[q].todo /\ o.id = op[q].id
        /\ o.field = op[q].field
    BY <2>1 DEF OpSet
  <2> HIDE DEF o
  <2>4. CheckedOp(o)
    BY <1>4, <2>1, <2>3 DEF CheckedOp
  <2> QED
    BY <1>3, <2>1, <2>2, <2>4
<1>12. CASE (InsertRow(q) \/ UpdateRow(q) \/ FetchBack(q) \/ Announce(q)) /\ ~End(q)
  <2>1. (Goto(q, "fetch") \/ Goto(q, "announce")) /\ op[q] \in OpSet
    BY <1>5, <1>12 DEF InsertRow, UpdateRow, FetchBack, Announce, Idle
  <2>2. op'[q].step \in {"fetch", "announce"}
    BY <2>1 DEF Goto, CallsTyped, OpSet
  <2> QED
    BY <1>2, <2>2
<1> QED
  BY <1>6, <1>7, <1>8, <1>9, <1>10, <1>11, <1>12 DEF Write

LEMMA AloneStep ==
  ASSUME RecordTypes, RecordTypes', FollowInv, AloneInv, [Next]_vars
  PROVE  AloneInv'
<1>1. CASE UNCHANGED vars
  <2>1. UNCHANGED <<schema, live, ref, op, stack, held, kept, overlapped, faults>>
    BY <1>1 DEF vars
  <2>2. Alone' => OneRequest' /\ (CallersWait /\ RowsGone /\ CallsDiffer)'
    <3> SUFFICES ASSUME Alone'
                 PROVE  OneRequest' /\ (CallersWait /\ RowsGone /\ CallsDiffer)'
      OBVIOUS
    <3>1. OneRequest /\ CallersWait /\ RowsGone /\ CallsDiffer
      BY <2>1 DEF AloneInv, Alone, AloneCalls
    <3>2. OneRequest'
      BY <2>1, <3>1 DEF OneRequest
    <3>3. CallersWait'
      BY <2>1, <3>1 DEF CallersWait, Policy
    <3>4. RowsGone'
      BY <2>1, <3>1 DEF RowsGone
    <3>5. CallsDiffer'
      BY <2>1, <3>1 DEF CallsDiffer
    <3> QED
      BY <3>2, <3>3, <3>4, <3>5
  <2>3. Alone' => (AllHeld /\ ListsFresh)'
    BY <2>1 DEF AloneInv, Alone, AloneCalls, AllHeld, References, ListsFresh, Policy
  <2>4. Alone' => (RefsLead /\ RefsUnique)'
    BY <2>1 DEF AloneInv, Alone, AloneRows, RefsLead, Dangling, RefsUnique, Card
  <2>5. Alone' => ChecksHold'
    BY <2>1 DEF AloneInv, Alone, AloneRows, ChecksHold, CheckedOp, Card, Referrers
  <2> QED
    BY <2>2, <2>3, <2>4, <2>5 DEF AloneInv, AloneCalls, AloneRows
<1>2. CASE Next
  <2> SUFFICES ASSUME Alone'
               PROVE  OneRequest' /\ AloneCalls' /\ AloneRows'
    BY DEF AloneInv
  <2>1. Alone /\ OneRequest' /\ schema' = schema /\ Track /\ CallsTyped'
    BY <1>2, AloneActor, SchemaFixed DEF Next, RecordTypes
  <2>2. AloneCalls /\ AloneRows
    BY <2>1 DEF AloneInv
  <2>3. PICK q \in Requests : (Submit(q) \/ Write(q) \/ Delete(q)) /\ Solo(q) /\ Others(q)
    BY <1>2, AloneActor
  <2>4. CASE Submit(q) \/ Write(q)
    <3>1. AloneCalls'
      BY <2>1, <2>3, <2>4, AloneCallsWrite
    <3>2. RefsLead'
      BY <2>1, <2>2, <2>3, <2>4, RefsLeadWrite DEF AloneRows
    <3>3. RefsUnique' /\ ChecksHold'
      BY <2>1, <2>2, <2>3, <2>4, RefsUniqueWrite, ChecksHoldWrite DEF AloneRows
    <3> QED
      BY <2>1, <3>1, <3>2, <3>3 DEF AloneRows
  <2>5. CASE Delete(q)
    <3>1. CallsMove(q)
      BY <2>1, <2>5, DeleteMoves
    <3>2. /\ live' \subseteq live
          /\ \A i \in live : \A f \in Fields : ref'[i][f] \subseteq ref[i][f]
      BY <2>2, <2>5, DeleteShrinks DEF AloneCalls
    <3>3. CallersWait' /\ RowsGone' /\ CallsDiffer'
      BY <2>1, <2>2, <2>3, <3>1, <3>2, CallersWaitStep, RowsGoneStep, CallsDifferStep
         DEF AloneCalls
    <3>4. AllHeld'
      BY <2>1, <2>2, <2>3, <3>1, <3>2, AllHeldStep DEF AloneCalls
    <3>5. ListsFresh'
      BY <2>1, <2>2, <2>3, <3>1, ListsFreshStep DEF AloneCalls
    <3>6. RefsLead'
      BY <1>2, <2>1, <2>2, <2>3, <2>5, RefsLeadDelete DEF Alone, AloneRows
    <3>7. RefsUnique' /\ ChecksHold'
      BY <2>1, <2>2, <2>3, <2>5, RefsUniqueDelete, ChecksHoldDelete DEF AloneCalls, AloneRows
    <3> QED
      BY <2>1, <3>3, <3>4, <3>5, <3>6, <3>7 DEF AloneCalls, AloneRows
  <2> QED
    BY <2>3, <2>4, <2>5
<1> QED
  BY <1>1, <1>2

LEMMA AloneInit ==
  ASSUME Init
  PROVE  AloneInv
<1>1. OneRequest
  BY DEF Init, OneRequest
<1>2. AloneCalls
  BY DEF Init, AloneCalls, CallersWait, RowsGone, CallsDiffer, AllHeld, ListsFresh
<1>3. RefsLead /\ RefsUnique
  BY DEF Init, Sound, RefsLead, RefsUnique
<1>4. ChecksHold
  BY DEF Init, ChecksHold, CheckedOp, Idle
<1> QED
  BY <1>1, <1>2, <1>3, <1>4 DEF AloneInv, AloneRows

LEMMA SoundWhenAloneState ==
  ASSUME RecordTypes, AloneInv
  PROVE  SoundWhenAlone
<1> SUFFICES ASSUME Alone
             PROVE  /\ UnderWay = {} =>
                         /\ \A i \in live \ kept : \A f \in Fields : ref[i][f] \subseteq live
                         /\ \A f \in Fields : Card(f) = "1:1" =>
                              \A i, j \in live : i # j => ref[i][f] \cap ref[j][f] = {}
                    /\ \A p \in Requests : \A m, n \in DOMAIN stack[p] :
                         m # n => stack[p][m].id # stack[p][n].id
  BY DEF SoundWhenAlone, Alone
<1>1. \A p \in Requests : \A m, n \in DOMAIN stack[p] :
        m # n => stack[p][m].id # stack[p][n].id
  BY DEF AloneInv, AloneCalls, CallsDiffer
<1>2. \A f \in Fields : Card(f) = "1:1" =>
        \A i, j \in live : i # j => ref[i][f] \cap ref[j][f] = {}
  BY DEF AloneInv, AloneRows, RefsUnique
<1>3. ASSUME UnderWay = {}, NEW i \in live \ kept, NEW f \in Fields, NEW t \in ref[i][f]
      PROVE  t \in live
  <2>1. \A p \in Requests : stack[p] = <<>>
    BY <1>3 DEF UnderWay, RecordTypes, CallsTyped, Idle
  <2>2. \A p \in Requests : DOMAIN stack[p] = {}
    BY <2>1
  <2>3. ~Dangling(i, f, t)
    BY <2>2 DEF Dangling
  <2> QED
    BY <1>3, <2>3 DEF AloneInv, AloneRows, RefsLead
<1> QED
  BY <1>1, <1>2, <1>3

-----------------------------------------------------------------------------
(* The theorems *)

RecordsInv ==
  RecordTypes /\ HeldInv /\ RestrictInv /\ FollowInv /\ AnnounceInv /\ AloneInv

LEMMA RecordsInvHolds == Spec => []RecordsInv
<1>1. Init => RecordsInv
  BY RecordTypesInit, RestrictInit, AloneInit DEF RecordsInv
<1>2. RecordsInv /\ [Next]_vars => RecordsInv'
  <2> SUFFICES ASSUME RecordsInv, [Next]_vars
               PROVE  RecordsInv'
    OBVIOUS
  <2>1. RecordTypes'
    BY RecordTypesStep DEF RecordsInv
  <2> QED
    BY <2>1, HeldStep, RestrictStep, FollowStep, AnnounceStep, AloneStep DEF RecordsInv
<1> QED
  BY <1>1, <1>2, PTL DEF Spec

\* While no statement fails and no process dies, a deletion that got past its
\* checks is not one that a row has been referencing through a RESTRICT field
\* since before it was asked for, whatever other requests write in between.
THEOREM RestrictionsHonoured == Spec => []RestrictHonoured
<1>1. RecordsInv => RestrictHonoured
  BY RestrictHonouredState DEF RecordsInv
<1> QED
  BY <1>1, RecordsInvHolds, PTL

\* While no statement fails and no process dies, what pointed to a record from
\* the start of its deletion to the end is a row whose own deletion was refused.
THEOREM DeletionsFollowedThrough == Spec => []FollowedThrough
<1>1. RecordsInv => FollowedThrough
  BY FollowedThroughState DEF RecordsInv
<1> QED
  BY <1>1, RecordsInvHolds, PTL

\* Every change that is not announced yet is in the hands of a request that is
\* about to, in spite of failures, crashes and other requests' deletions.
THEOREM ChangesReachListeners == Spec => []ChangesAnnounced
<1>1. RecordsInv => ChangesAnnounced
  BY ChangesAnnouncedState DEF RecordsInv
<1> QED
  BY <1>1, RecordsInvHolds, PTL

\* Requests that come one after the other, none of them hit by a fault, leave no
\* reference to a missing record but in a row whose cascaded deletion was
\* refused, no 1:1 field that two rows share, and no deletion enters a record
\* twice, whatever cycles the relations form.
THEOREM SoundOneByOne == Spec => []SoundWhenAlone
<1>1. RecordsInv => SoundWhenAlone
  BY SoundWhenAloneState DEF RecordsInv
<1> QED
  BY <1>1, RecordsInvHolds, PTL

=============================================================================

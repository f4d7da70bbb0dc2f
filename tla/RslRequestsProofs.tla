-------------------------- MODULE RslRequestsProofs -------------------------
(***************************************************************************)
(* The way of a client's request in RSL, for every number of replicas, set *)
(* of clients and size of batches.                                         *)
(***************************************************************************)
EXTENDS RslRequests, ListProofs

-----------------------------------------------------------------------------
(***************************************************************************)
(* Lists of requests.                                                      *)
(***************************************************************************)
Apart(s, t) == \A i \in DOMAIN s, j \in DOMAIN t : s[i] # t[j]

\* Two lists in one.
LEMMA ListsJoined ==
    ASSUME NEW S, NEW s \in Seq(S), NEW t \in Seq(S)
    PROVE  /\ s \o t \in Seq(S)
           /\ BuildReqSet(s \o t) = BuildReqSet(s) \cup BuildReqSet(t)
           /\ Distinct(s \o t) <=> /\ Distinct(s) /\ Distinct(t)
                                  /\ Apart(s, t)
<1>1. PICK u : u = s \o t
    OBVIOUS
<1>2. PICK m \in Nat, n \in Nat : m = Len(s) /\ n = Len(t)
    OBVIOUS
<1>3. DOMAIN s = 1 .. m /\ DOMAIN t = 1 .. n
    BY <1>2
<1>4. /\ u \in Seq(S) /\ DOMAIN u = 1 .. (m + n)
      /\ \A i \in 1 .. m : u[i] = s[i]
      /\ \A j \in 1 .. n : u[m + j] = t[j]
    BY <1>1, <1>2
<1>5. \A k \in 1 .. (m + n) : k \in 1 .. m \/ \E j \in 1 .. n : k = m + j
    <2> SUFFICES ASSUME NEW k \in 1 .. (m + n), k \notin 1 .. m PROVE \E j \in 1 .. n : k = m + j
        OBVIOUS
    <2>1. k - m \in 1 .. n /\ k = m + (k - m)
        OBVIOUS
    <2> QED
        BY <2>1
<1>6. BuildReqSet(u) = BuildReqSet(s) \cup BuildReqSet(t)
    <2>1. ASSUME NEW x \in BuildReqSet(u) PROVE x \in BuildReqSet(s) \cup BuildReqSet(t)
        <3>1. PICK k \in 1 .. (m + n) : x = u[k]
            BY <1>4 DEF BuildReqSet
        <3> QED
            BY <1>3, <1>4, <1>5, <3>1 DEF BuildReqSet
    <2>2. ASSUME NEW x \in BuildReqSet(s) PROVE x \in BuildReqSet(u)
        <3>1. PICK k \in 1 .. m : x = s[k]
            BY <1>3 DEF BuildReqSet
        <3>2. k \in 1 .. (m + n)
            OBVIOUS
        <3> QED
            BY <1>4, <3>1, <3>2 DEF BuildReqSet
    <2>3. ASSUME NEW x \in BuildReqSet(t) PROVE x \in BuildReqSet(u)
        <3>1. PICK k \in 1 .. n : x = t[k]
            BY <1>3 DEF BuildReqSet
        <3>2. m + k \in 1 .. (m + n)
            OBVIOUS
        <3> QED
            BY <1>4, <3>1, <3>2 DEF BuildReqSet
    <2> QED
        BY <2>1, <2>2, <2>3
<1>7. ASSUME Distinct(u)
      PROVE  /\ Distinct(s) /\ Distinct(t)
             /\ Apart(s, t)
    <2>1. \A i, j \in 1 .. (m + n) : u[i] = u[j] => i = j
        BY <1>4, <1>7 DEF Distinct
    <2>2. \A i, j \in 1 .. m : s[i] = s[j] => i = j
        BY <1>4, <2>1
    <2>3. \A i, j \in 1 .. n : t[i] = t[j] => i = j
        <3> SUFFICES ASSUME NEW i \in 1 .. n, NEW j \in 1 .. n, t[i] = t[j] PROVE i = j
            OBVIOUS
        <3>1. m + i \in 1 .. (m + n) /\ m + j \in 1 .. (m + n) /\ u[m + i] = u[m + j]
            BY <1>4
        <3>2. m + i = m + j
            BY <2>1, <3>1
        <3> QED
            BY <3>2
    <2>4. \A i \in 1 .. m, j \in 1 .. n : s[i] # t[j]
        <3> SUFFICES ASSUME NEW i \in 1 .. m, NEW j \in 1 .. n, s[i] = t[j] PROVE FALSE
            OBVIOUS
        <3>1. i \in 1 .. (m + n) /\ m + j \in 1 .. (m + n) /\ u[i] = u[m + j] /\ i # m + j
            BY <1>4
        <3> QED
            BY <2>1, <3>1
    <2> QED
        BY <1>3, <2>2, <2>3, <2>4 DEF Distinct, Apart
<1>8. ASSUME Distinct(s), Distinct(t), Apart(s, t)
      PROVE  Distinct(u)
    <2> SUFFICES ASSUME NEW i \in 1 .. (m + n), NEW j \in 1 .. (m + n), u[i] = u[j] PROVE i = j
        BY <1>4 DEF Distinct
    <2>1. /\ \A a, b \in 1 .. m : s[a] = s[b] => a = b
          /\ \A a, b \in 1 .. n : t[a] = t[b] => a = b
          /\ \A a \in 1 .. m, b \in 1 .. n : s[a] # t[b]
        BY <1>3, <1>8 DEF Distinct, Apart
    <2>2. CASE i \in 1 .. m /\ j \in 1 .. m
        BY <1>4, <2>1, <2>2
    <2>3. CASE i \in 1 .. m /\ \E b \in 1 .. n : j = m + b
        BY <1>4, <2>1, <2>3
    <2>4. CASE j \in 1 .. m /\ \E a \in 1 .. n : i = m + a
        <3>1. PICK a \in 1 .. n : i = m + a
            BY <2>4
        <3>2. u[i] = t[a] /\ u[j] = s[j]
            BY <1>4, <2>4, <3>1
        <3> QED
            BY <2>1, <2>4, <3>2
    <2>5. CASE (\E a \in 1 .. n : i = m + a) /\ \E b \in 1 .. n : j = m + b
        <3>1. PICK a \in 1 .. n, b \in 1 .. n : i = m + a /\ j = m + b
            BY <2>5
        <3>2. u[i] = t[a] /\ u[j] = t[b]
            BY <1>4, <3>1
        <3>3. a = b
            BY <2>1, <3>2
        <3> QED
            BY <3>1, <3>3
    <2> QED
        BY <1>5, <2>2, <2>3, <2>4, <2>5
<1> QED
    BY <1>1, <1>4, <1>6, <1>7, <1>8

\* There are finitely many requests.
LEMMA RequestsFinite == IsFiniteSet(CRequest)
<1>0. IsFiniteSet(0 .. MaxSeqno)
    BY RequestsAssumption, FS_Interval
<1>1. IsFiniteSet(Clients \X (0 .. MaxSeqno))
    BY <1>0, RequestsAssumption, FS_Product
<1> DEFINE f == [p \in Clients \X (0 .. MaxSeqno) |-> [client |-> p[1], seqno |-> p[2]]]
<1>2. f \in [Clients \X (0 .. MaxSeqno) -> CRequest]
    BY DEF CRequest
<1>3. \A q \in CRequest : <<q.client, q.seqno>> \in Clients \X (0 .. MaxSeqno)
                          /\ f[<<q.client, q.seqno>>] = q
    BY DEF CRequest
<1>4. f \in Surjection(Clients \X (0 .. MaxSeqno), CRequest)
    BY <1>2, <1>3 DEF Surjection
<1> QED
    BY <1>1, <1>4, FS_Surjection

\* A list without repetitions is as long as the set of its requests, and is not
\* cut by CBoundRequestSequence.
LEMMA DistinctCounted ==
    ASSUME NEW s \in Seq(CRequest), Distinct(s)
    PROVE  /\ Cardinality(BuildReqSet(s)) = Len(s)
           /\ Len(s) <= MaxIntegerVal
           /\ CBoundRequestSequence(s, MaxIntegerVal) = s
<1>1. PICK n \in Nat : n = Len(s)
    OBVIOUS
<1>2. DOMAIN s = 1 .. n /\ s \in [1 .. n -> BuildReqSet(s)] /\ s \in [1 .. n -> CRequest]
    BY <1>1 DEF BuildReqSet
<1>3. IsFiniteSet(1 .. n) /\ Cardinality(1 .. n) = n
    BY FS_Interval
<1>4. s \in Bijection(1 .. n, BuildReqSet(s))
    <2>1. s \in Injection(1 .. n, BuildReqSet(s))
        BY <1>2 DEF Injection, IsInjective, Distinct
    <2>2. s \in Surjection(1 .. n, BuildReqSet(s))
        BY <1>2 DEF Surjection, BuildReqSet
    <2> QED
        BY <2>1, <2>2 DEF Bijection
<1>5. Cardinality(BuildReqSet(s)) = n
    BY <1>3, <1>4, FS_Bijection DEF ExistsBijection
<1>6. s \in Injection(1 .. n, CRequest)
    BY <1>2 DEF Injection, IsInjective, Distinct
<1>7. n <= Cardinality(CRequest) /\ Cardinality(CRequest) \in Nat
    BY <1>3, <1>6, RequestsFinite, FS_Injection, FS_CardinalityType
<1>8. n <= MaxIntegerVal
    BY <1>7, RequestsAssumption, ConfigAssumption
<1> QED
    BY <1>1, <1>5, <1>8, ConfigAssumption DEF CBoundRequestSequence

-----------------------------------------------------------------------------
(***************************************************************************)
(* The election state: what the handlers do to the lists and sets.         *)
(***************************************************************************)
Noted(e) == e \in ElectionState /\ NotedOnce(e)

RequestsOf(e) == BuildReqSet(AllRequests(e))

\* Both lists of an election state are sequences without a common element.
LEMMA NotedLists ==
    ASSUME NEW e, Noted(e)
    PROVE  /\ e.requests_received_this_epoch \in Seq(CRequest)
           /\ e.requests_received_prev_epochs \in Seq(CRequest)
           /\ AllRequests(e) \in Seq(CRequest) /\ Distinct(AllRequests(e))
           /\ Distinct(e.requests_received_this_epoch)
           /\ Distinct(e.requests_received_prev_epochs)
           /\ Apart(e.requests_received_prev_epochs, e.requests_received_this_epoch)
           /\ RequestsOf(e) = BuildReqSet(e.requests_received_prev_epochs)
                                \cup BuildReqSet(e.requests_received_this_epoch)
           /\ RequestsOf(e) = e.prev_req_set \cup e.cur_req_set
<1>1. PICK prev, this : /\ prev = e.requests_received_prev_epochs
                        /\ this = e.requests_received_this_epoch
    OBVIOUS
<1>2. prev \in Seq(CRequest) /\ this \in Seq(CRequest)
    BY <1>1 DEF Noted, ElectionState
<1>3. AllRequests(e) = prev \o this /\ Distinct(prev \o this)
    BY <1>1 DEF AllRequests, Noted, NotedOnce, Distinct
<1> QED
    BY <1>1, <1>2, <1>3, ListsJoined DEF RequestsOf, Noted, NotedOnce

\* A list without repetitions becomes that of the earlier epochs.
LEMMA NewEpochNoted ==
    ASSUME NEW e, Noted(e), NEW prev \in Seq(CRequest), Distinct(prev)
    PROVE  /\ Noted(NewEpoch(e, prev)) /\ RequestsOf(NewEpoch(e, prev)) = BuildReqSet(prev)
           /\ NewEpoch(e, prev).current_view = e.current_view
           /\ NewEpoch(e, prev).current_view_suspectors = e.current_view_suspectors
<1>1. PICK d : d = NewEpoch(e, prev)
    OBVIOUS
<1>2. BuildReqSet(prev) \in SUBSET CRequest /\ BuildReqSet(<<>>) = {}
    BY DEF BuildReqSet
<1>3. /\ d \in ElectionState /\ d.current_view = e.current_view
      /\ d.current_view_suspectors = e.current_view_suspectors
      /\ d.requests_received_this_epoch = <<>> /\ d.requests_received_prev_epochs = prev
      /\ d.cur_req_set = {} /\ d.prev_req_set = BuildReqSet(prev)
    <2>1. PICK P \in SUBSET CRequest : P = BuildReqSet(prev)
        BY <1>2
    <2>2. <<>> \in Seq(CRequest) /\ {} \in SUBSET CRequest
        OBVIOUS
    <2>3. d = [e EXCEPT !.requests_received_this_epoch = <<>>,
                        !.requests_received_prev_epochs = prev,
                        !.cur_req_set = {}, !.prev_req_set = P]
        BY <1>1, <2>1 DEF NewEpoch
    <2> QED
        BY <2>1, <2>2, <2>3 DEF Noted, ElectionState
<1>4. AllRequests(d) = prev
    BY <1>3 DEF AllRequests
<1> QED
    BY <1>1, <1>2, <1>3, <1>4 DEF Noted, NotedOnce, RequestsOf, Distinct

\* Where lists and sets are the same, so is what is outstanding.
LEMMA SameLists ==
    ASSUME NEW e, Noted(e), NEW d \in ElectionState,
           d.requests_received_this_epoch = e.requests_received_this_epoch,
           d.requests_received_prev_epochs = e.requests_received_prev_epochs,
           d.cur_req_set = e.cur_req_set, d.prev_req_set = e.prev_req_set
    PROVE  Noted(d) /\ RequestsOf(d) = RequestsOf(e)
<1>1. AllRequests(d) = AllRequests(e)
    BY DEF AllRequests
<1> QED
    BY <1>1 DEF Noted, NotedOnce, RequestsOf

\* A new view keeps what is outstanding.
LEMMA NewViewNoted ==
    ASSUME NEW e, Noted(e), NEW b \in Ballots, NEW S \in SUBSET Replicas
    PROVE  Noted(NewView(e, b, S)) /\ RequestsOf(NewView(e, b, S)) = RequestsOf(e)
<1>1. PICK d : d = NewEpoch(e, AllRequests(e))
    OBVIOUS
<1>2. Noted(d) /\ RequestsOf(d) = RequestsOf(e)
    BY <1>1, NotedLists, NewEpochNoted DEF RequestsOf
<1>3. PICK v : v = NewView(e, b, S)
    OBVIOUS
<1>4. v = [d EXCEPT !.current_view = b, !.current_view_suspectors = S]
    BY <1>1, <1>3, NotedLists, DistinctCounted DEF NewView
<1>5. Noted(v) /\ RequestsOf(v) = RequestsOf(d)
    <2>1. /\ v \in ElectionState
          /\ v.requests_received_this_epoch = d.requests_received_this_epoch
          /\ v.requests_received_prev_epochs = d.requests_received_prev_epochs
          /\ v.cur_req_set = d.cur_req_set /\ v.prev_req_set = d.prev_req_set
        BY <1>2, <1>4 DEF Noted, ElectionState
    <2> QED
        BY <1>2, <2>1, SameLists
<1> QED
    BY <1>2, <1>3, <1>5

\* A request that is not outstanding is noted, at the end.
LEMMA ReceivedNoted ==
    ASSUME NEW e, Noted(e), NEW q \in CRequest
    PROVE  /\ Noted(ReflectReceivedRequest(e, q))
           /\ RequestsOf(e) \subseteq RequestsOf(ReflectReceivedRequest(e, q))
<1>1. CASE q \in e.cur_req_set \cup e.prev_req_set
    BY <1>1 DEF ReflectReceivedRequest
<1>2. CASE q \notin e.cur_req_set \cup e.prev_req_set
    <2>1. PICK prev \in Seq(CRequest), this \in Seq(CRequest) :
             /\ prev = e.requests_received_prev_epochs
             /\ this = e.requests_received_this_epoch
        BY NotedLists
    <2>2. /\ Distinct(prev) /\ Distinct(this)
          /\ Apart(prev, this)
          /\ e.cur_req_set = BuildReqSet(this) /\ e.prev_req_set = BuildReqSet(prev)
        BY <2>1, NotedLists DEF Noted, NotedOnce
    <2>3. (\A i \in DOMAIN this : this[i] # q) /\ \A i \in DOMAIN prev : prev[i] # q
        BY <1>2, <2>2 DEF BuildReqSet
    <2>4. PICK new : new = Append(this, q)
        OBVIOUS
    <2>5. /\ new \in Seq(CRequest) /\ DOMAIN new = 1 .. (Len(this) + 1)
          /\ DOMAIN this = 1 .. Len(this) /\ Len(this) \in Nat
          /\ new[Len(this) + 1] = q /\ \A i \in 1 .. Len(this) : new[i] = this[i]
        BY <2>1, <2>4
    <2>6. Distinct(new)
        <3> SUFFICES ASSUME NEW i \in 1 .. (Len(this) + 1), NEW j \in 1 .. (Len(this) + 1),
                            new[i] = new[j]
            PROVE i = j
            BY <2>5 DEF Distinct
        <3>1. (i \in 1 .. Len(this) \/ i = Len(this) + 1) /\ (j \in 1 .. Len(this) \/ j = Len(this) + 1)
            BY <2>5
        <3> QED
            BY <2>2, <2>3, <2>5, <3>1 DEF Distinct
    <2>7. Apart(prev, new)
        <3> SUFFICES ASSUME NEW i \in DOMAIN prev, NEW j \in 1 .. (Len(this) + 1)
            PROVE prev[i] # new[j]
            BY <2>5 DEF Apart
        <3>1. j \in 1 .. Len(this) \/ j = Len(this) + 1
            BY <2>5
        <3> QED
            BY <2>2, <2>3, <2>5, <3>1 DEF Apart
    <2>8. BuildReqSet(new) = BuildReqSet(this) \cup {q}
        <3>1. ASSUME NEW x \in BuildReqSet(new) PROVE x \in BuildReqSet(this) \cup {q}
            <4>1. PICK i \in 1 .. (Len(this) + 1) : x = new[i]
                BY <2>5 DEF BuildReqSet
            <4>2. i \in 1 .. Len(this) \/ i = Len(this) + 1
                BY <2>5
            <4> QED
                BY <2>5, <4>1, <4>2 DEF BuildReqSet
        <3>2. ASSUME NEW x \in BuildReqSet(this) PROVE x \in BuildReqSet(new)
            <4>1. PICK i \in 1 .. Len(this) : x = this[i]
                BY <2>5 DEF BuildReqSet
            <4>2. i \in 1 .. (Len(this) + 1)
                BY <2>5
            <4> QED
                BY <2>5, <4>1, <4>2 DEF BuildReqSet
        <3>3. q \in BuildReqSet(new)
            <4>1. Len(this) + 1 \in 1 .. (Len(this) + 1)
                BY <2>5
            <4> QED
                BY <2>5, <4>1 DEF BuildReqSet
        <3> QED
            BY <3>1, <3>2, <3>3
    <2>9. PICK d : d = ReflectReceivedRequest(e, q)
        OBVIOUS
    <2>10. CBoundRequestSequence(new, MaxIntegerVal) = new
        BY <2>5, <2>6, DistinctCounted
    <2>11. d = [e EXCEPT !.requests_received_this_epoch = new, !.cur_req_set = BuildReqSet(new)]
        BY <1>2, <2>1, <2>2, <2>4, <2>8, <2>9, <2>10 DEF ReflectReceivedRequest
    <2>12. BuildReqSet(new) \in SUBSET CRequest
        BY <2>5 DEF BuildReqSet
    <2>13. /\ d \in ElectionState
           /\ d.requests_received_this_epoch = new /\ d.requests_received_prev_epochs = prev
           /\ d.cur_req_set = BuildReqSet(new) /\ d.prev_req_set = BuildReqSet(prev)
        BY <2>1, <2>2, <2>5, <2>11, <2>12 DEF Noted, ElectionState
    <2>14. AllRequests(d) = prev \o new /\ AllRequests(e) = prev \o this
        BY <2>1, <2>13 DEF AllRequests
    <2>15. Distinct(prev \o new) /\ BuildReqSet(prev \o this) \subseteq BuildReqSet(prev \o new)
        <3>1. BuildReqSet(prev \o this) = BuildReqSet(prev) \cup BuildReqSet(this)
            BY <2>1, ListsJoined
        <3>2. BuildReqSet(prev \o new) = BuildReqSet(prev) \cup BuildReqSet(new)
            BY <2>1, <2>5, ListsJoined
        <3>3. Distinct(prev \o new)
            BY <2>1, <2>2, <2>5, <2>6, <2>7, ListsJoined
        <3> QED
            BY <2>8, <3>1, <3>2, <3>3
    <2> QED
        BY <2>9, <2>13, <2>14, <2>15 DEF Noted, NotedOnce, RequestsOf, Distinct
<1> QED
    BY <1>1, <1>2

\* What is left of a list after a batch: the requests that the batch does not satisfy.
Remains(s, batch, t) ==
    /\ t \in Seq(CRequest) /\ Distinct(t)
    /\ \A i \in DOMAIN t : \E k \in DOMAIN s : t[i] = s[k]
    /\ \A k \in DOMAIN s : \/ \E j \in DOMAIN batch : CRequestSatisfiedBy(s[k], batch[j])
                           \/ \E i \in DOMAIN t : t[i] = s[k]

LEMMA Removed ==
    ASSUME NEW s \in Seq(CRequest), Distinct(s), NEW batch,
           NEW t, t = CRemoveExecutedRequestBatch(s, batch)
    PROVE  Remains(s, batch, t)
<1>1. PICK K : K = Unsatisfied(s, batch)
    OBVIOUS
<1>2. K \in SUBSET DOMAIN s
    BY <1>1 DEF Unsatisfied
<1>3. t = Pick(s, K)
    BY <1>1 DEF CRemoveExecutedRequestBatch
<1>4. /\ t \in Seq(CRequest)
      /\ \A i \in DOMAIN t : \E k \in K : t[i] = s[k]
      /\ \A k \in K : \E i \in DOMAIN t : t[i] = s[k]
      /\ Distinct(t)
    BY <1>2, <1>3, Picked DEF Distinct
<1>5. \A k \in DOMAIN s : k \in K \/ \E j \in DOMAIN batch : CRequestSatisfiedBy(s[k], batch[j])
    BY <1>1 DEF Unsatisfied
<1> QED
    BY <1>2, <1>4, <1>5 DEF Remains

\* A batch takes away only what it satisfies.
LEMMA ExecutedNoted ==
    ASSUME NEW e, Noted(e), NEW batch
    PROVE  /\ Noted(ReflectExecutedRequestBatch(e, batch))
           /\ \A q \in RequestsOf(e) \ RequestsOf(ReflectExecutedRequestBatch(e, batch)) :
                 \E j \in DOMAIN batch : CRequestSatisfiedBy(q, batch[j])
<1>1. PICK prev \in Seq(CRequest), this \in Seq(CRequest) :
         prev = e.requests_received_prev_epochs /\ this = e.requests_received_this_epoch
    BY NotedLists
<1>2. Distinct(prev) /\ Distinct(this) /\ Apart(prev, this)
    BY <1>1, NotedLists
<1>3. PICK p : p = CRemoveExecutedRequestBatch(prev, batch)
    OBVIOUS
<1>a. PICK t : t = CRemoveExecutedRequestBatch(this, batch)
    OBVIOUS
<1>4. /\ p \in Seq(CRequest) /\ Distinct(p)
      /\ \A i \in DOMAIN p : \E k \in DOMAIN prev : p[i] = prev[k]
      /\ \A k \in DOMAIN prev : \/ \E j \in DOMAIN batch : CRequestSatisfiedBy(prev[k], batch[j])
                                \/ \E i \in DOMAIN p : p[i] = prev[k]
    <2>1. Remains(prev, batch, p)
        BY <1>2, <1>3, Removed
    <2> QED
        BY <2>1 DEF Remains
<1>5. /\ t \in Seq(CRequest) /\ Distinct(t)
      /\ \A i \in DOMAIN t : \E k \in DOMAIN this : t[i] = this[k]
      /\ \A k \in DOMAIN this : \/ \E j \in DOMAIN batch : CRequestSatisfiedBy(this[k], batch[j])
                                \/ \E i \in DOMAIN t : t[i] = this[k]
    <2>1. Remains(this, batch, t)
        BY <1>2, <1>a, Removed
    <2> QED
        BY <2>1 DEF Remains
<1>6. Apart(p, t)
    BY <1>2, <1>4, <1>5 DEF Apart
<1>7. BuildReqSet(p) \in SUBSET CRequest /\ BuildReqSet(t) \in SUBSET CRequest
    BY <1>4, <1>5 DEF BuildReqSet
<1>8. PICK d : d = ReflectExecutedRequestBatch(e, batch)
    OBVIOUS
<1>9. /\ d \in ElectionState
      /\ d.requests_received_this_epoch = t /\ d.requests_received_prev_epochs = p
      /\ d.cur_req_set = BuildReqSet(t) /\ d.prev_req_set = BuildReqSet(p)
    <2>1. PICK A \in SUBSET CRequest, B \in SUBSET CRequest : A = BuildReqSet(t) /\ B = BuildReqSet(p)
        BY <1>7
    <2>2. d = [e EXCEPT !.requests_received_this_epoch = t,
                        !.requests_received_prev_epochs = p,
                        !.cur_req_set = A, !.prev_req_set = B]
        BY <1>1, <1>3, <1>a, <1>8, <2>1 DEF ReflectExecutedRequestBatch
    <2> QED
        BY <1>4, <1>5, <2>1, <2>2 DEF Noted, ElectionState
<1>10. AllRequests(d) = p \o t /\ AllRequests(e) = prev \o this
    BY <1>1, <1>9 DEF AllRequests
<1>11. /\ BuildReqSet(p \o t) = BuildReqSet(p) \cup BuildReqSet(t)
       /\ Distinct(p \o t)
    BY <1>4, <1>5, <1>6, ListsJoined
<1>12. Noted(d)
    BY <1>9, <1>10, <1>11 DEF Noted, NotedOnce, Distinct
<1>13. BuildReqSet(prev \o this) = BuildReqSet(prev) \cup BuildReqSet(this)
    BY <1>1, ListsJoined
<1>14. ASSUME NEW q \in BuildReqSet(prev), q \notin BuildReqSet(p)
       PROVE  \E j \in DOMAIN batch : CRequestSatisfiedBy(q, batch[j])
    BY <1>4, <1>14 DEF BuildReqSet
<1>15. ASSUME NEW q \in BuildReqSet(this), q \notin BuildReqSet(t)
       PROVE  \E j \in DOMAIN batch : CRequestSatisfiedBy(q, batch[j])
    BY <1>5, <1>15 DEF BuildReqSet
<1>16. \A q \in RequestsOf(e) \ RequestsOf(d) :
          \E j \in DOMAIN batch : CRequestSatisfiedBy(q, batch[j])
    BY <1>10, <1>11, <1>13, <1>14, <1>15 DEF RequestsOf
<1> QED
    BY <1>8, <1>12, <1>16

-----------------------------------------------------------------------------
(***************************************************************************)
(* What a step does to the election states.                                *)
(***************************************************************************)
\* Heartbeats say what they should.
LEMMA HeartbeatTyped ==
    ASSUME TypeOK, NEW p \in net, p.type = "Heartbeat"
    PROVE  p.src \in Replicas /\ p.bal \in Ballots
<1>1. p \in [type : {"Heartbeat"}, src : Replicas, bal : Ballots, suspicious : BOOLEAN]
    BY DEF TypeOK, Packets
<1> QED
    BY <1>1

\* The view that follows a view below max_integer_val is a ballot.
LEMMA SuccessorView ==
    ASSUME NEW b \in Ballots, b.seqno < MaxIntegerVal
    PROVE  CComputeSuccessorView(b) \in Ballots
BY ConfigAssumption DEF CComputeSuccessorView, Ballots, CBallot, Replicas

\* No election state loses a request but by executing a batch.
Keeps(r, d) == Noted(d) /\ RequestsOf(election[r]) \subseteq RequestsOf(d)

LEMMA HeartbeatKeeps ==
    ASSUME TypeOK, NEW r \in Replicas, Noted(election[r]), NEW p \in net,
           CProposerProcessHeartbeat(r, p)
    PROVE  \E d : Keeps(r, d) /\ election' = [election EXCEPT ![r] = d]
<1>1. PICK e : e = election[r]
    OBVIOUS
<1>2. p.src \in Replicas /\ p.bal \in Ballots
    BY HeartbeatTyped DEF CProposerProcessHeartbeat
<1>3. Noted(e) /\ e \in ElectionState
    BY <1>1 DEF Noted
<1>4. CASE election' = [election EXCEPT ![r].current_view_suspectors = @ \cup {p.src}]
    <2>1. PICK S \in SUBSET Replicas : S = e.current_view_suspectors \cup {p.src}
        BY <1>2, <1>3 DEF ElectionState
    <2>2. PICK d : d = [e EXCEPT !.current_view_suspectors = S]
        OBVIOUS
    <2>3. election' = [election EXCEPT ![r] = d]
        BY <1>1, <1>4, <2>1, <2>2
    <2>4. /\ d \in ElectionState
          /\ d.requests_received_this_epoch = e.requests_received_this_epoch
          /\ d.requests_received_prev_epochs = e.requests_received_prev_epochs
          /\ d.cur_req_set = e.cur_req_set /\ d.prev_req_set = e.prev_req_set
        BY <1>3, <2>2 DEF ElectionState
    <2>5. Keeps(r, d)
        BY <1>1, <1>3, <2>4, SameLists DEF Keeps
    <2> QED
        BY <2>3, <2>5
<1>5. CASE election' = [election EXCEPT ![r] =
                          NewView(@, p.bal, IF p.suspicious THEN {p.src} ELSE {})]
    <2>1. PICK S \in SUBSET Replicas : S = IF p.suspicious THEN {p.src} ELSE {}
        BY <1>2
    <2>2. PICK d : d = NewView(e, p.bal, S)
        OBVIOUS
    <2>3. election' = [election EXCEPT ![r] = d]
        BY <1>1, <1>5, <2>1, <2>2
    <2>4. Keeps(r, d)
        BY <1>1, <1>2, <1>3, <2>1, <2>2, NewViewNoted DEF Keeps
    <2> QED
        BY <2>3, <2>4
<1> QED
    BY <1>4, <1>5 DEF CProposerProcessHeartbeat, CElectionStateProcessHeartbeat

LEMMA TimeoutKeeps ==
    ASSUME TypeOK, NEW r \in Replicas, Noted(election[r]), CProposerCheckForViewTimeout(r)
    PROVE  \E d : Keeps(r, d) /\ election' = [election EXCEPT ![r] = d]
<1>1. PICK e : e = election[r]
    OBVIOUS
<1>2. Noted(e) /\ e \in ElectionState
    BY <1>1 DEF Noted
<1>3. CASE e.requests_received_prev_epochs = <<>>
    <2>1. PICK this \in Seq(CRequest) : this = e.requests_received_this_epoch /\ Distinct(this)
        BY <1>2, NotedLists
    <2>2. PICK d : d = NewEpoch(e, this)
        OBVIOUS
    <2>3. election' = [election EXCEPT ![r] = d]
        BY <1>1, <1>3, <2>1, <2>2
           DEF CProposerCheckForViewTimeout, CElectionStateCheckForViewTimeout
    <2>4. Noted(d) /\ RequestsOf(d) = BuildReqSet(this)
        BY <1>2, <2>1, <2>2, NewEpochNoted
    <2>5. RequestsOf(e) = BuildReqSet(this)
        <3>1. AllRequests(e) = this
            BY <1>3, <2>1 DEF AllRequests
        <3> QED
            BY <3>1 DEF RequestsOf
    <2> QED
        BY <1>1, <2>3, <2>4, <2>5 DEF Keeps
<1>4. CASE e.requests_received_prev_epochs # <<>>
    <2>1. PICK all \in Seq(CRequest) : all = AllRequests(e) /\ Distinct(all)
        BY <1>2, NotedLists
    <2>2. PICK c : c = NewEpoch(e, all)
        OBVIOUS
    <2>3. Noted(c) /\ RequestsOf(c) = BuildReqSet(all) /\ c \in ElectionState
        BY <1>2, <2>1, <2>2, NewEpochNoted DEF Noted
    <2>4. PICK S \in SUBSET Replicas : S = c.current_view_suspectors \cup {r}
        BY <2>3 DEF ElectionState
    <2>5. PICK d : d = [c EXCEPT !.current_view_suspectors = S]
        OBVIOUS
    <2>6. CBoundRequestSequence(AllRequests(e), MaxIntegerVal) = all
        BY <2>1, DistinctCounted
    <2>7. election' = [election EXCEPT ![r] = d]
        BY <1>1, <1>4, <2>2, <2>4, <2>5, <2>6
           DEF CProposerCheckForViewTimeout, CElectionStateCheckForViewTimeout
    <2>8. /\ d \in ElectionState
          /\ d.requests_received_this_epoch = c.requests_received_this_epoch
          /\ d.requests_received_prev_epochs = c.requests_received_prev_epochs
          /\ d.cur_req_set = c.cur_req_set /\ d.prev_req_set = c.prev_req_set
        BY <2>3, <2>5 DEF ElectionState
    <2>9. Noted(d) /\ RequestsOf(d) = RequestsOf(e)
        BY <2>1, <2>3, <2>8, SameLists DEF RequestsOf
    <2> QED
        BY <1>1, <2>7, <2>9 DEF Keeps
<1> QED
    BY <1>3, <1>4

LEMMA QuorumKeeps ==
    ASSUME TypeOK, NEW r \in Replicas, Noted(election[r]),
           CProposerCheckForQuorumOfViewSuspicions(r)
    PROVE  \E d : Keeps(r, d) /\ election' = [election EXCEPT ![r] = d]
<1>1. PICK e : e = election[r]
    OBVIOUS
<1>2. Noted(e) /\ e \in ElectionState
    BY <1>1 DEF Noted
<1>3. PICK b : b = CComputeSuccessorView(e.current_view)
    OBVIOUS
<1>4. /\ e.current_view.seqno < MaxIntegerVal
      /\ election' = [election EXCEPT ![r] = NewView(e, b, {})]
    BY <1>1, <1>3 DEF CProposerCheckForQuorumOfViewSuspicions,
                      CElectionStateCheckForQuorumOfViewSuspicions
<1>5. b \in Ballots /\ {} \in SUBSET Replicas
    BY <1>2, <1>3, <1>4, SuccessorView DEF ElectionState
<1>6. PICK d : d = NewView(e, b, {})
    OBVIOUS
<1>7. Noted(d) /\ RequestsOf(d) = RequestsOf(e)
    BY <1>2, <1>5, <1>6, NewViewNoted
<1> QED
    BY <1>1, <1>4, <1>6, <1>7 DEF Keeps

\* A replica that executes a batch forgets what the batch satisfies.
Done(s, q) ==
    /\ executor'[s].ops_complete = executor[s].ops_complete + 1
    /\ \E i \in DOMAIN chosen[executor'[s].ops_complete] :
          CRequestSatisfiedBy(q, chosen[executor'[s].ops_complete][i])

ElectionFacts ==
    /\ election' \in [Replicas -> ElectionState]
    /\ \A s \in Replicas : Noted(election'[s])
    /\ \A s \in Replicas :
          \A q \in RequestsOf(election[s]) \ RequestsOf(election'[s]) : Done(s, q)

LEMMA ElectionStep ==
    ASSUME RequestsInv, [Next]_vars
    PROVE  ElectionFacts
<1>1. /\ TypeOK /\ election \in [Replicas -> ElectionState]
      /\ \A s \in Replicas : Noted(election[s])
    BY DEF RequestsInv, TypeOK, Noted
<1>2. ASSUME NEW r \in Replicas, \E d : Keeps(r, d) /\ election' = [election EXCEPT ![r] = d]
      PROVE  ElectionFacts
    <2>1. PICK d : Keeps(r, d) /\ election' = [election EXCEPT ![r] = d]
        BY <1>2
    <2>2. Noted(d) /\ d \in ElectionState /\ RequestsOf(election[r]) \subseteq RequestsOf(d)
        BY <2>1 DEF Keeps, Noted
    <2>3. \A s \in Replicas : election'[s] = IF s = r THEN d ELSE election[s]
        BY <1>1, <2>1
    <2>4. election' \in [Replicas -> ElectionState]
        BY <1>1, <2>1, <2>2
    <2> QED
        BY <1>1, <2>2, <2>3, <2>4 DEF ElectionFacts
<1>3. CASE UNCHANGED election
    BY <1>1, <1>3 DEF ElectionFacts
<1>4. ASSUME NEW r \in Replicas, NEW q \in CRequest, CReplicaNextProcessRequest(r, q)
      PROVE  ElectionFacts
    <2>1. CASE AnswerFromCache(r, q)
        BY <1>3, <2>1 DEF AnswerFromCache
    <2>2. CASE CProposerProcessRequest(r, q)
        <3>1. PICK d : d = ReflectReceivedRequest(election[r], q)
            OBVIOUS
        <3>2. election' = [election EXCEPT ![r] = d]
            BY <2>2, <3>1 DEF CProposerProcessRequest
        <3>3. Keeps(r, d)
            BY <1>1, <3>1, ReceivedNoted DEF Keeps
        <3> QED
            BY <1>2, <3>2, <3>3
    <2> QED
        BY <1>4, <2>1, <2>2 DEF CReplicaNextProcessRequest
<1>5. ASSUME NEW r \in Replicas, NEW p \in net, ProcessPacket(r, p)
      PROVE  ElectionFacts
    <2>1. CASE CProposerProcessHeartbeat(r, p)
        BY <1>1, <1>2, <2>1, HeartbeatKeeps
    <2>2. CASE CExecutorProcessAppStateSupply(r, p)
        BY <1>3, <2>2 DEF CExecutorProcessAppStateSupply
    <2> QED
        BY <1>5, <2>1, <2>2 DEF ProcessPacket
<1>6. ASSUME NEW r \in Replicas, CExecutorExecute(r)
      PROVE  ElectionFacts
    <2>1. PICK n : n = executor[r].ops_complete + 1
        OBVIOUS
    <2>2. PICK batch : batch = chosen[n]
        OBVIOUS
    <2>3. PICK d : d = ReflectExecutedRequestBatch(election[r], batch)
        OBVIOUS
    <2>4. election' = [election EXCEPT ![r] = d] /\ executor'[r].ops_complete = n
        BY <1>6, <2>1, <2>2, <2>3 DEF CExecutorExecute, RequestsInv, TypeOK
    <2>5. /\ Noted(d) /\ d \in ElectionState
          /\ \A q \in RequestsOf(election[r]) \ RequestsOf(d) :
                \E j \in DOMAIN batch : CRequestSatisfiedBy(q, batch[j])
        BY <1>1, <2>3, ExecutedNoted DEF Noted
    <2>6. \A s \in Replicas : election'[s] = IF s = r THEN d ELSE election[s]
        BY <1>1, <2>4
    <2>7. \A q \in RequestsOf(election[r]) \ RequestsOf(d) : Done(r, q)
        BY <2>1, <2>2, <2>4, <2>5 DEF Done
    <2>8. election' \in [Replicas -> ElectionState]
        BY <1>1, <2>4, <2>5
    <2> QED
        BY <1>1, <2>5, <2>6, <2>7, <2>8 DEF ElectionFacts
<1>7. ASSUME NEW r \in Replicas, NoReceive(r)
      PROVE  ElectionFacts
    <2>1. CASE CExecutorExecute(r)
        BY <1>6, <2>1
    <2>2. CASE CProposerCheckForViewTimeout(r)
        BY <1>1, <1>2, <2>2, TimeoutKeeps
    <2>3. CASE CProposerCheckForQuorumOfViewSuspicions(r)
        BY <1>1, <1>2, <2>3, QuorumKeeps
    <2> QED
        BY <1>3, <1>7, <2>1, <2>2, <2>3
           DEF NoReceive, CProposerMaybeEnterNewViewAndSend1a, CProposerMaybeEnterPhase2,
               CProposerNominateNewValueAndSend2a, CExecutorProcessAppStateRequest,
               CReplicaNextReadClockMaybeSendHeartbeat
<1> QED
    BY <1>3, <1>4, <1>5, <1>7
       DEF Next, CReplicaNextSpontaneousMaybeMakeDecision, vars

-----------------------------------------------------------------------------
(***************************************************************************)
(* What a step does to queues and batches.                                 *)
(***************************************************************************)
\* A part of a sequence.
LEMMA PartOfSeq ==
    ASSUME NEW S, NEW s \in Seq(S), NEW m \in Nat \ {0}, NEW n \in Nat, n <= Len(s)
    PROVE  SubSeq(s, m, n) \in Seq(S)
<1>1. \A i \in m .. n : s[i] \in S
    OBVIOUS
<1> QED
    BY <1>1, SubSeqProperties

Grown(c) == c = chosen \/ \E b \in Seq(CRequest) : c = Append(chosen, b)

LEMMA ProposerStep ==
    ASSUME RequestsInv, [Next]_vars
    PROVE  /\ proposer' \in [Replicas -> ProposerState]
           /\ inflight' \in Seq(Seq(CRequest))
           /\ chosen' \in Seq(Seq(CRequest)) /\ Grown(chosen')
<1>1. TypeOK
    BY DEF RequestsInv
<1>2. /\ proposer \in [Replicas -> ProposerState] /\ inflight \in Seq(Seq(CRequest))
      /\ chosen \in Seq(Seq(CRequest)) /\ Grown(chosen)
    BY <1>1 DEF TypeOK, Grown
<1>3. CASE UNCHANGED <<proposer, inflight, chosen>>
    BY <1>2, <1>3
<1>4. ASSUME NEW r \in Replicas, NEW d \in ProposerState, proposer' = [proposer EXCEPT ![r] = d]
      PROVE  proposer' \in [Replicas -> ProposerState]
    BY <1>2, <1>4
<1>5. ASSUME NEW r \in Replicas, FollowView(r)
      PROVE  proposer' \in [Replicas -> ProposerState]
    <2>1. CASE proposer' = [proposer EXCEPT ![r].current_state = 0, ![r].request_queue = <<>>]
        <3>1. <<>> \in Seq(CRequest) /\ 0 \in 0 .. 2
            OBVIOUS
        <3>2. PICK l \in ProposerState : l = proposer[r]
            BY <1>2
        <3>3. PICK d : d = [l EXCEPT !.current_state = 0, !.request_queue = <<>>]
            OBVIOUS
        <3>4. d \in ProposerState
            BY <3>1, <3>2, <3>3 DEF ProposerState
        <3>5. proposer' = [proposer EXCEPT ![r] = d]
            BY <1>2, <2>1, <3>2, <3>3
        <3> QED
            BY <1>4, <3>4, <3>5
    <2> QED
        BY <1>2, <1>5, <2>1 DEF FollowView
<1>6. ASSUME NEW r \in Replicas, NEW q \in CRequest, CReplicaNextProcessRequest(r, q)
      PROVE  proposer' \in [Replicas -> ProposerState] /\ UNCHANGED <<inflight, chosen>>
    <2>1. CASE AnswerFromCache(r, q)
        BY <1>2, <2>1 DEF AnswerFromCache
    <2>2. CASE CProposerProcessRequest(r, q)
        <3>1. PICK l \in ProposerState : l = proposer[r]
            BY <1>2
        <3>2. Append(l.request_queue, q) \in Seq(CRequest)
            BY DEF ProposerState
        <3>3. q.client \in Clients /\ q.seqno \in Nat
            BY DEF CRequest
        <3>4. Enqueue(l, q) \in ProposerState
            BY <3>2, <3>3 DEF Enqueue, ProposerState
        <3>5. PICK d \in ProposerState : d = Enqueue(l, q)
            BY <3>4
        <3>6. proposer' = [proposer EXCEPT ![r] = d] /\ UNCHANGED <<inflight, chosen>>
            BY <2>2, <3>1, <3>5 DEF CProposerProcessRequest
        <3> QED
            BY <1>4, <3>6
    <2> QED
        BY <1>6, <2>1, <2>2 DEF CReplicaNextProcessRequest
<1>7. ASSUME NEW r \in Replicas, CProposerMaybeEnterNewViewAndSend1a(r)
      PROVE  proposer' \in [Replicas -> ProposerState] /\ UNCHANGED <<inflight, chosen>>
    <2>1. AllRequests(election[r]) \in Seq(CRequest) /\ election[r].current_view \in Ballots
        BY NotedLists DEF RequestsInv, TypeOK, Noted, ElectionState
    <2>2. NoSeqno \in [Clients -> Nat \cup {NoReply}]
        BY DEF NoSeqno
    <2>3. PICK d : d = [current_state |-> 1,
                        max_ballot_i_sent_1a |-> election[r].current_view,
                        request_queue |-> AllRequests(election[r]),
                        highest_seqno_requested_by_client_this_view |-> NoSeqno]
        OBVIOUS
    <2>4. d \in ProposerState
        BY <2>1, <2>2, <2>3 DEF ProposerState
    <2>5. proposer' = [proposer EXCEPT ![r] = d] /\ UNCHANGED <<inflight, chosen>>
        BY <1>7, <2>3 DEF CProposerMaybeEnterNewViewAndSend1a
    <2> QED
        BY <1>4, <2>4, <2>5
<1>8. ASSUME NEW r \in Replicas, CProposerMaybeEnterPhase2(r)
      PROVE  proposer' \in [Replicas -> ProposerState] /\ UNCHANGED <<inflight, chosen>>
    <2>1. PICK l \in ProposerState : l = proposer[r]
        BY <1>2
    <2>2. PICK d : d = [l EXCEPT !.current_state = 2]
        OBVIOUS
    <2>3. d \in ProposerState
        BY <2>1, <2>2 DEF ProposerState
    <2>4. proposer' = [proposer EXCEPT ![r] = d] /\ UNCHANGED <<inflight, chosen>>
        BY <1>8, <2>1, <2>2 DEF CProposerMaybeEnterPhase2
    <2> QED
        BY <1>4, <2>3, <2>4
<1>9. ASSUME NEW r \in Replicas, CProposerNominateNewValueAndSend2a(r)
      PROVE  /\ proposer' \in [Replicas -> ProposerState]
             /\ inflight' \in Seq(Seq(CRequest)) /\ UNCHANGED chosen
    <2>1. PICK queue \in Seq(CRequest) : queue = proposer[r].request_queue
        BY <1>2 DEF ProposerState
    <2>2. PICK size : size = IF Len(queue) <= MaxBatchSize THEN Len(queue) ELSE MaxBatchSize
        OBVIOUS
    <2>3. size \in Nat /\ size <= Len(queue) /\ Len(queue) \in Nat
        BY <2>1, <2>2, RequestsAssumption
    <2>4. SubSeq(queue, size + 1, Len(queue)) \in Seq(CRequest)
        BY <2>1, <2>3, PartOfSeq
    <2>5. SubSeq(queue, 1, size) \in Seq(CRequest)
        BY <2>1, <2>3, PartOfSeq
    <2>6. PICK rest \in Seq(CRequest), batch \in Seq(CRequest) :
             rest = SubSeq(queue, size + 1, Len(queue)) /\ batch = SubSeq(queue, 1, size)
        BY <2>4, <2>5
    <2>7. proposer' = [proposer EXCEPT ![r].request_queue = rest]
        BY <1>9, <2>1, <2>2, <2>6 DEF CProposerNominateNewValueAndSend2a
    <2>8. (inflight' = Append(inflight, batch) \/ inflight' = inflight) /\ UNCHANGED chosen
        BY <1>9, <2>1, <2>2, <2>6 DEF CProposerNominateNewValueAndSend2a
    <2>9. Append(inflight, batch) \in Seq(Seq(CRequest))
        BY <1>2, <2>6
    <2>10. proposer' \in [Replicas -> ProposerState]
        BY <1>2, <2>6, <2>7 DEF ProposerState
    <2> QED
        BY <1>2, <2>8, <2>9, <2>10
<1>10. ASSUME CReplicaNextSpontaneousMaybeMakeDecision
       PROVE  /\ UNCHANGED proposer /\ inflight' \in Seq(Seq(CRequest))
              /\ chosen' \in Seq(Seq(CRequest)) /\ Grown(chosen')
    <2>1. PICK i \in DOMAIN inflight : /\ chosen' = Append(chosen, inflight[i])
                                       /\ inflight' = RemoveAt(inflight, i)
        BY <1>10 DEF CReplicaNextSpontaneousMaybeMakeDecision
    <2>2. i \in 1 .. Len(inflight) /\ Len(inflight) \in Nat /\ inflight[i] \in Seq(CRequest)
        BY <1>2
    <2>3. SubSeq(inflight, 1, i - 1) \in Seq(Seq(CRequest))
        <3>1. i - 1 \in Nat /\ i - 1 <= Len(inflight)
            BY <2>2
        <3> QED
            BY <1>2, <3>1, PartOfSeq
    <2>4. SubSeq(inflight, i + 1, Len(inflight)) \in Seq(Seq(CRequest))
        <3>1. i + 1 \in Nat \ {0} /\ Len(inflight) <= Len(inflight)
            BY <2>2
        <3> QED
            BY <1>2, <2>2, <3>1, PartOfSeq
    <2>5. RemoveAt(inflight, i) \in Seq(Seq(CRequest))
        BY <2>3, <2>4 DEF RemoveAt
    <2>6. chosen' \in Seq(Seq(CRequest))
        BY <1>2, <2>1, <2>2
    <2> QED
        BY <1>10, <2>1, <2>2, <2>5, <2>6 DEF CReplicaNextSpontaneousMaybeMakeDecision, Grown
<1>11. ASSUME NEW r \in Replicas, NEW p \in net, ProcessPacket(r, p)
       PROVE  proposer' \in [Replicas -> ProposerState] /\ UNCHANGED <<inflight, chosen>>
    BY <1>2, <1>5, <1>11
       DEF ProcessPacket, CProposerProcessHeartbeat, CExecutorProcessAppStateSupply, FollowView
<1>12. ASSUME NEW r \in Replicas, NoReceive(r)
       PROVE  /\ proposer' \in [Replicas -> ProposerState]
              /\ inflight' \in Seq(Seq(CRequest)) /\ UNCHANGED chosen
    <2>1. CASE CProposerCheckForQuorumOfViewSuspicions(r)
        BY <1>2, <1>5, <2>1 DEF CProposerCheckForQuorumOfViewSuspicions, FollowView
    <2> QED
        BY <1>2, <1>7, <1>8, <1>9, <1>12, <2>1
           DEF NoReceive, CExecutorExecute, CExecutorProcessAppStateRequest,
               CProposerCheckForViewTimeout, CReplicaNextReadClockMaybeSendHeartbeat
<1> QED
    BY <1>2, <1>3, <1>6, <1>10, <1>11, <1>12 DEF Next, vars, Grown

-----------------------------------------------------------------------------
(***************************************************************************)
(* What was executed stays executed.                                       *)
(***************************************************************************)
\* The requests before an operation are finitely many, and with its own they are
\* those before the next.
LEMMA BeforeCounted ==
    ASSUME chosen \in Seq(Seq(CRequest)), NEW n \in DOMAIN chosen
    PROVE  /\ Cardinality(ExecutedBefore(n)) \in Nat
           /\ Cardinality(ExecutedBefore(n + 1)) = Cardinality(ExecutedBefore(n)) + Len(chosen[n])
<1>1. n \in 1 .. Len(chosen) /\ Len(chosen) \in Nat /\ n \in Nat
    OBVIOUS
<1>2. \A k \in 1 .. n : /\ chosen[k] \in Seq(CRequest) /\ Len(chosen[k]) \in Nat
                        /\ DOMAIN chosen[k] = 1 .. Len(chosen[k])
    BY <1>1
<1>3. ASSUME NEW k \in 1 .. n
      PROVE  /\ IsFiniteSet({k} \X DOMAIN chosen[k])
             /\ Cardinality({k} \X DOMAIN chosen[k]) = Len(chosen[k])
    <2>1. PICK m \in Nat : m = Len(chosen[k]) /\ DOMAIN chosen[k] = 1 .. m
        BY <1>2
    <2>2. IsFiniteSet(1 .. m) /\ Cardinality(1 .. m) = m
        BY IntervalCounted
    <2>3. IsFiniteSet({k}) /\ Cardinality({k}) = 1
        BY FS_Singleton
    <2>4. IsFiniteSet({k} \X (1 .. m)) /\ Cardinality({k} \X (1 .. m)) = 1 * m
        BY <2>2, <2>3, FS_Product
    <2> QED
        BY <2>1, <2>4
<1> DEFINE place == [k \in 1 .. (n - 1) |-> {k} \X DOMAIN chosen[k]]
           places == {{k} \X DOMAIN chosen[k] : k \in 1 .. (n - 1)}
<1>4. IsFiniteSet(places)
    <2>1. IsFiniteSet(1 .. (n - 1))
        BY <1>1, FS_Interval
    <2>2. place \in Surjection(1 .. (n - 1), places)
        BY DEF Surjection
    <2> HIDE DEF place, places
    <2> QED
        BY <2>1, <2>2, FS_Surjection
<1>5. \A T \in places : IsFiniteSet(T)
    BY <1>1, <1>3
<1>6. IsFiniteSet(ExecutedBefore(n))
    <2>1. IsFiniteSet(UNION places)
        <3> HIDE DEF places
        <3> QED
            BY <1>4, <1>5, FS_UNION
    <2> QED
        BY <2>1 DEF ExecutedBefore
<1>7. ExecutedBefore(n + 1) = ExecutedBefore(n) \cup ({n} \X DOMAIN chosen[n])
    <2>1. 1 .. ((n + 1) - 1) = (1 .. (n - 1)) \cup {n}
        BY <1>1
    <2> QED
        BY <2>1 DEF ExecutedBefore
<1>8. ExecutedBefore(n) \cap ({n} \X DOMAIN chosen[n]) = {}
    <2>1. n \notin 1 .. (n - 1)
        BY <1>1
    <2>2. \A x \in ExecutedBefore(n) : x[1] \in 1 .. (n - 1)
        BY DEF ExecutedBefore
    <2> QED
        BY <2>1, <2>2
<1>9. n \in 1 .. n
    BY <1>1
<1>10. PICK A : A = ExecutedBefore(n)
    OBVIOUS
<1>11. PICK B : B = {n} \X DOMAIN chosen[n]
    OBVIOUS
<1>12. IsFiniteSet(A) /\ IsFiniteSet(B) /\ Cardinality(B) = Len(chosen[n]) /\ A \cap B = {}
    BY <1>3, <1>6, <1>8, <1>9, <1>10, <1>11
<1>13. Cardinality(A \cup B) = Cardinality(A) + Cardinality(B)
    BY <1>12, DisjointCounted
<1>14. Cardinality(A) \in Nat
    BY <1>12, FS_CardinalityType
<1> QED
    BY <1>7, <1>10, <1>11, <1>12, <1>13, <1>14

\* A batch more at the end changes nothing of what was executed before.
LEMMA BeforeStays ==
    ASSUME chosen \in Seq(Seq(CRequest)), Grown(chosen')
    PROVE  /\ Len(chosen) <= Len(chosen') /\ Len(chosen) \in Nat /\ Len(chosen') \in Nat
           /\ DOMAIN chosen = 1 .. Len(chosen) /\ DOMAIN chosen' = 1 .. Len(chosen')
           /\ \A n \in 1 .. Len(chosen) : chosen'[n] = chosen[n]
           /\ \A n \in 1 .. (Len(chosen) + 1) : ExecutedBefore(n)' = ExecutedBefore(n)
<1>1. /\ Len(chosen) <= Len(chosen') /\ Len(chosen) \in Nat /\ Len(chosen') \in Nat
      /\ DOMAIN chosen = 1 .. Len(chosen) /\ DOMAIN chosen' = 1 .. Len(chosen')
      /\ \A n \in 1 .. Len(chosen) : chosen'[n] = chosen[n]
    BY DEF Grown
<1>2. ASSUME NEW n \in 1 .. (Len(chosen) + 1)
      PROVE  ExecutedBefore(n)' = ExecutedBefore(n)
    <2>1. \A k \in 1 .. (n - 1) : chosen'[k] = chosen[k]
        BY <1>1
    <2>2. {{k} \X DOMAIN chosen'[k] : k \in 1 .. (n - 1)}
            = {{k} \X DOMAIN chosen[k] : k \in 1 .. (n - 1)}
        BY <2>1
    <2> QED
        BY <2>2 DEF ExecutedBefore
<1> QED
    BY <1>1, <1>2

\* A true reply stays true, and so does the state of an executor.
LEMMA TrueForever ==
    ASSUME chosen \in Seq(Seq(CRequest)), Grown(chosen')
    PROVE  /\ \A q, v : ExecutedAs(q, v) => ExecutedAs(q, v)'
           /\ \A e \in ExecutorState : StateIsTrue(e) => StateIsTrue(e)'
<1>1. /\ Len(chosen) <= Len(chosen') /\ Len(chosen) \in Nat /\ Len(chosen') \in Nat
      /\ DOMAIN chosen = 1 .. Len(chosen) /\ DOMAIN chosen' = 1 .. Len(chosen')
      /\ \A n \in 1 .. Len(chosen) : chosen'[n] = chosen[n]
      /\ \A n \in 1 .. (Len(chosen) + 1) : ExecutedBefore(n)' = ExecutedBefore(n)
    BY BeforeStays
<1>2. ASSUME NEW q, NEW v, ExecutedAs(q, v) PROVE ExecutedAs(q, v)'
    <2>0. PICK n \in DOMAIN chosen : \E i \in DOMAIN chosen[n] :
             chosen[n][i] = q /\ v = Cardinality(ExecutedBefore(n)) + i
        BY <1>2 DEF ExecutedAs
    <2>1. PICK i \in DOMAIN chosen[n] :
             chosen[n][i] = q /\ v = Cardinality(ExecutedBefore(n)) + i
        BY <2>0
    <2>2. n \in 1 .. Len(chosen) /\ n \in 1 .. (Len(chosen) + 1) /\ n \in DOMAIN chosen'
        BY <1>1
    <2>3. /\ i \in DOMAIN chosen'[n] /\ chosen'[n][i] = q
          /\ v = Cardinality(ExecutedBefore(n)') + i
        BY <1>1, <2>1, <2>2
    <2> QED
        BY <2>2, <2>3 DEF ExecutedAs
<1>3. ASSUME NEW e \in ExecutorState, StateIsTrue(e) PROVE StateIsTrue(e)'
    <2>1. /\ e.ops_complete \in Nat /\ e.ops_complete <= Len(chosen)
          /\ e.app = Cardinality(ExecutedBefore(e.ops_complete + 1))
        BY <1>3 DEF StateIsTrue, ExecutorState
    <2>2. e.ops_complete + 1 \in 1 .. (Len(chosen) + 1)
        BY <1>1, <2>1
    <2>3. /\ e.ops_complete <= Len(chosen')
          /\ e.app = Cardinality(ExecutedBefore(e.ops_complete + 1)')
        BY <1>1, <2>1, <2>2
    <2>4. \A c \in Clients :
             e.reply_cache[c] # NoReply =>
                ExecutedAs([client |-> c, seqno |-> e.reply_cache[c].seqno], e.reply_cache[c].reply)'
        BY <1>2, <1>3 DEF StateIsTrue
    <2> QED
        BY <2>3, <2>4 DEF StateIsTrue
<1> QED
    BY <1>2, <1>3

-----------------------------------------------------------------------------
(***************************************************************************)
(* What a step does to executors and packets.                              *)
(***************************************************************************)
ReplyPackets == [type : {"Reply"}, req : CRequest, reply : Nat]
SupplyPackets == [type : {"AppStateSupply"}, state : ExecutorState]
HeartbeatPackets == [type : {"Heartbeat"}, src : Replicas, bal : Ballots, suspicious : BOOLEAN]

\* A packet is one of three.
LEMMA PacketKinds ==
    /\ Packets = ReplyPackets \cup HeartbeatPackets \cup SupplyPackets
    /\ \A p \in Packets : /\ p.type = "Reply" => p \in ReplyPackets
                          /\ p.type = "AppStateSupply" => p \in SupplyPackets
BY DEF Packets, ReplyPackets, SupplyPackets, HeartbeatPackets

\* Executing the next batch: the state is again true, and so are the replies.
LEMMA ExecuteTrue ==
    ASSUME RequestsInv, NEW r \in Replicas, CExecutorExecute(r)
    PROVE  \E d \in ExecutorState :
              /\ executor' = [executor EXCEPT ![r] = d] /\ StateIsTrue(d)
              /\ \A p \in net' \ net : p \in ReplyPackets /\ ExecutedAs(p.req, p.reply)
<1>1. /\ executor \in [Replicas -> ExecutorState] /\ chosen \in Seq(Seq(CRequest))
      /\ StateIsTrue(executor[r])
    BY DEF RequestsInv, TypeOK
<1>2. PICK e \in ExecutorState : e = executor[r]
    BY <1>1
<1>3. /\ StateIsTrue(e) /\ e.app \in Nat /\ e.ops_complete \in Nat
      /\ e.reply_cache \in [Clients -> CReply \cup {NoReply}]
    BY <1>1, <1>2 DEF ExecutorState
<1>4. PICK n \in Nat : n = e.ops_complete + 1
    BY <1>3
<1>5. n \in DOMAIN chosen /\ n \in 1 .. Len(chosen)
    BY <1>1, <1>2, <1>3, <1>4 DEF CExecutorExecute
<1>6. PICK batch \in Seq(CRequest) : batch = chosen[n]
    BY <1>1, <1>5
<1>7. PICK m \in Nat : m = Len(batch) /\ DOMAIN batch = 1 .. m
    BY <1>6
<1>8. PICK replies : replies = CHandleRequestBatch(e.app, batch)
    OBVIOUS
<1>9. /\ DOMAIN replies = 1 .. m
      /\ \A i \in 1 .. m : replies[i] = [client |-> batch[i].client, seqno |-> batch[i].seqno,
                                        reply |-> e.app + i]
    BY <1>7, <1>8 DEF CHandleRequestBatch
<1>10. e.app = Cardinality(ExecutedBefore(n))
    BY <1>3, <1>4 DEF StateIsTrue
<1>11. \A i \in 1 .. m : ExecutedAs(batch[i], e.app + i)
    BY <1>5, <1>6, <1>7, <1>10 DEF ExecutedAs
<1>12. \A i \in 1 .. m : /\ batch[i] \in CRequest /\ e.app + i \in Nat
                         /\ batch[i] = [client |-> batch[i].client, seqno |-> batch[i].seqno]
    <2>1. \A q \in CRequest : q = [client |-> q.client, seqno |-> q.seqno]
        BY DEF CRequest
    <2> QED
        BY <1>3, <1>6, <1>7, <2>1
<1>13. PICK cache : cache = CUpdateNewCache(e.reply_cache, replies)
    OBVIOUS
<1>14. ASSUME NEW c \in Clients
       PROVE  /\ cache[c] \in CReply \cup {NoReply}
              /\ cache[c] # NoReply =>
                    ExecutedAs([client |-> c, seqno |-> cache[c].seqno], cache[c].reply)
    <2>1. cache[c] = IF e.reply_cache[c] # NoReply THEN e.reply_cache[c]
                     ELSE CClientsInReplies(replies)[c]
        BY <1>13 DEF CUpdateNewCache
    <2>2. CASE e.reply_cache[c] # NoReply
        BY <1>3, <2>1, <2>2 DEF StateIsTrue
    <2>3. CASE e.reply_cache[c] = NoReply
        <3>1. PICK mine : mine = {i \in DOMAIN replies : replies[i].client = c}
            OBVIOUS
        <3>2. cache[c] = IF mine = {} THEN NoReply ELSE replies[Min(mine)]
            BY <2>1, <2>3, <3>1 DEF CClientsInReplies
        <3>3. CASE mine = {}
            BY <3>2, <3>3
        <3>4. CASE mine # {}
            <4>1. mine \subseteq Nat
                BY <1>9, <3>1
            <4>2. Min(mine) \in mine
                BY <3>4, <4>1, LeastExists DEF Min
            <4>3. PICK i \in 1 .. m : i = Min(mine) /\ replies[i].client = c
                BY <1>9, <3>1, <4>2
            <4>4. /\ cache[c] = [client |-> batch[i].client, seqno |-> batch[i].seqno,
                                reply |-> e.app + i]
                  /\ batch[i].client = c
                BY <1>9, <3>2, <3>4, <4>3
            <4>5. cache[c] \in CReply
                <5>1. batch[i].seqno \in 0 .. MaxSeqno /\ e.app + i \in Nat
                    BY <1>12 DEF CRequest
                <5>2. cache[c] = [client |-> c, seqno |-> batch[i].seqno, reply |-> e.app + i]
                    BY <4>4
                <5> QED
                    BY <5>1, <5>2 DEF CReply
            <4>6. [client |-> c, seqno |-> cache[c].seqno] = batch[i] /\ cache[c].reply = e.app + i
                BY <1>12, <4>4
            <4> QED
                BY <1>11, <4>5, <4>6
        <3> QED
            BY <3>3, <3>4
    <2> QED
        BY <2>2, <2>3
<1>15. cache \in [Clients -> CReply \cup {NoReply}]
    BY <1>13, <1>14 DEF CUpdateNewCache
<1>16. PICK d : d = [app |-> e.app + Len(batch), ops_complete |-> e.ops_complete + 1,
                     reply_cache |-> cache]
    OBVIOUS
<1>17. d \in ExecutorState
    BY <1>3, <1>7, <1>15, <1>16 DEF ExecutorState
<1>18. StateIsTrue(d)
    <2>1. e.app + Len(batch) = Cardinality(ExecutedBefore(n + 1))
        BY <1>1, <1>5, <1>6, <1>10, BeforeCounted
    <2>2. d.ops_complete = n /\ d.app = e.app + Len(batch) /\ d.reply_cache = cache
        BY <1>4, <1>16
    <2> QED
        BY <1>1, <1>5, <1>14, <2>1, <2>2 DEF StateIsTrue
<1>19. executor' = [executor EXCEPT ![r] = d]
    BY <1>2, <1>4, <1>6, <1>8, <1>13, <1>16 DEF CExecutorExecute
<1>20. net' = net \cup {Reply(batch[i], replies[i].reply) : i \in DOMAIN batch}
    BY <1>2, <1>4, <1>6, <1>8 DEF CExecutorExecute
<1>21. ASSUME NEW p \in net' \ net PROVE p \in ReplyPackets /\ ExecutedAs(p.req, p.reply)
    <2>1. PICK i \in 1 .. m : p = Reply(batch[i], replies[i].reply)
        BY <1>7, <1>20, <1>21
    <2>2. p = [type |-> "Reply", req |-> batch[i], reply |-> e.app + i]
        BY <1>9, <2>1 DEF Reply
    <2>3. p.req = batch[i] /\ p.reply = e.app + i /\ p \in ReplyPackets
        BY <1>12, <2>2 DEF ReplyPackets
    <2> QED
        BY <1>11, <2>3
<1> QED
    BY <1>17, <1>18, <1>19, <1>21

\* A packet of the right type that says the truth.
PacketTrue(p) ==
    /\ p \in Packets
    /\ p.type = "Reply" => ExecutedAs(p.req, p.reply)
    /\ p.type = "AppStateSupply" => StateIsTrue(p.state)

LEMMA PacketsTrue == RequestsInv => \A p \in net : PacketTrue(p)
BY DEF RequestsInv, RepliesAreTrue, Sent, TypeOK, PacketTrue

\* What executors hold and packets say after a step was true before it.
TrueNext ==
    /\ executor' \in [Replicas -> ExecutorState]
    /\ \A s \in Replicas : StateIsTrue(executor'[s])
    /\ \A p \in net' : PacketTrue(p)

LEMMA ExecutorStep ==
    ASSUME RequestsInv, [Next]_vars
    PROVE  TrueNext
<1>1. /\ executor \in [Replicas -> ExecutorState]
      /\ \A s \in Replicas : StateIsTrue(executor[s])
      /\ \A p \in net : PacketTrue(p)
    BY PacketsTrue DEF RequestsInv, TypeOK
<1>2. CASE UNCHANGED <<executor, net>>
    BY <1>1, <1>2 DEF TrueNext
<1>3. ASSUME NEW r \in Replicas, NEW d \in ExecutorState, StateIsTrue(d),
             executor' = [executor EXCEPT ![r] = d]
      PROVE  /\ executor' \in [Replicas -> ExecutorState]
             /\ \A s \in Replicas : StateIsTrue(executor'[s])
    <2>1. executor' \in [Replicas -> ExecutorState]
        BY <1>1, <1>3
    <2>2. \A s \in Replicas : executor'[s] = IF s = r THEN d ELSE executor[s]
        BY <1>1, <1>3
    <2> QED
        BY <1>1, <1>3, <2>1, <2>2
<1>4. ASSUME NEW p, PacketTrue(p), net' = net \cup {p}, UNCHANGED executor
      PROVE  TrueNext
    BY <1>1, <1>4 DEF TrueNext
<1>5. ASSUME NEW r \in Replicas, NEW q \in CRequest, CReplicaNextProcessRequest(r, q)
      PROVE  TrueNext
    <2>1. CASE AnswerFromCache(r, q)
        <3>1. PICK c \in Clients : c = q.client
            BY DEF CRequest
        <3>2. PICK cached : cached = executor[r].reply_cache[c]
            OBVIOUS
        <3>3. /\ cached # NoReply /\ cached.seqno = q.seqno
              /\ net' = net \cup {Reply(q, cached.reply)} /\ UNCHANGED executor
            BY <2>1, <3>1, <3>2 DEF AnswerFromCache, CachedAtLeast
        <3>4. executor[r].reply_cache \in [Clients -> CReply \cup {NoReply}]
            BY <1>1 DEF ExecutorState
        <3>5. cached.reply \in Nat
            BY <3>1, <3>2, <3>3, <3>4 DEF CReply
        <3>6. q = [client |-> c, seqno |-> cached.seqno]
            BY <3>1, <3>3 DEF CRequest
        <3>7. ExecutedAs(q, cached.reply)
            BY <1>1, <3>1, <3>2, <3>3, <3>6 DEF StateIsTrue
        <3>8. PICK p : p = [type |-> "Reply", req |-> q, reply |-> cached.reply]
            OBVIOUS
        <3>9. p \in ReplyPackets /\ p.type = "Reply" /\ p.req = q /\ p.reply = cached.reply
            BY <3>5, <3>8 DEF ReplyPackets
        <3>10. PacketTrue(p)
            BY <3>7, <3>9, PacketKinds DEF PacketTrue
        <3>11. net' = net \cup {p}
            BY <3>3, <3>8 DEF Reply
        <3> QED
            BY <1>4, <3>3, <3>10, <3>11
    <2>2. CASE CProposerProcessRequest(r, q)
        BY <1>2, <2>2 DEF CProposerProcessRequest
    <2> QED
        BY <1>5, <2>1, <2>2 DEF CReplicaNextProcessRequest
<1>6. ASSUME NEW r \in Replicas, NEW p \in net, ProcessPacket(r, p)
      PROVE  TrueNext
    <2>1. CASE CProposerProcessHeartbeat(r, p)
        BY <1>2, <2>1 DEF CProposerProcessHeartbeat, FollowView
    <2>2. CASE CExecutorProcessAppStateSupply(r, p)
        <3>1. p.type = "AppStateSupply" /\ executor' = [executor EXCEPT ![r] = p.state] /\ UNCHANGED net
            BY <2>2 DEF CExecutorProcessAppStateSupply
        <3>2. p \in SupplyPackets /\ StateIsTrue(p.state)
            BY <1>1, <3>1, PacketKinds DEF PacketTrue
        <3>3. PICK d \in ExecutorState : d = p.state
            BY <3>2 DEF SupplyPackets
        <3>4. StateIsTrue(d) /\ executor' = [executor EXCEPT ![r] = d]
            BY <3>1, <3>2, <3>3
        <3> QED
            BY <1>1, <1>3, <3>1, <3>4 DEF TrueNext
    <2> QED
        BY <1>6, <2>1, <2>2 DEF ProcessPacket
<1>7. ASSUME NEW r \in Replicas, CExecutorExecute(r)
      PROVE  TrueNext
    <2>1. PICK d \in ExecutorState :
             /\ executor' = [executor EXCEPT ![r] = d] /\ StateIsTrue(d)
             /\ \A p \in net' \ net : p \in ReplyPackets /\ ExecutedAs(p.req, p.reply)
        BY <1>7, ExecuteTrue
    <2>2. \A p \in ReplyPackets : p \in Packets /\ p.type = "Reply"
        BY PacketKinds DEF ReplyPackets
    <2>3. \A p \in net' \ net : PacketTrue(p)
        BY <2>1, <2>2 DEF PacketTrue
    <2> QED
        BY <1>1, <1>3, <2>1, <2>3 DEF TrueNext
<1>8. ASSUME NEW r \in Replicas, CExecutorProcessAppStateRequest(r)
      PROVE  TrueNext
    <2>1. PICK p : p = [type |-> "AppStateSupply", state |-> executor[r]]
        OBVIOUS
    <2>2. p \in SupplyPackets /\ p.type = "AppStateSupply" /\ p.state = executor[r]
        BY <1>1, <2>1 DEF SupplyPackets
    <2>3. PacketTrue(p)
        BY <1>1, <2>2, PacketKinds DEF PacketTrue
    <2>4. net' = net \cup {p} /\ UNCHANGED executor
        BY <1>8, <2>1 DEF CExecutorProcessAppStateRequest, AppStateSupply
    <2> QED
        BY <1>4, <2>3, <2>4
<1>9. ASSUME NEW r \in Replicas, CReplicaNextReadClockMaybeSendHeartbeat(r)
      PROVE  TrueNext
    <2>1. PICK p : p = Heartbeat(r)
        OBVIOUS
    <2>2. election[r].current_view \in Ballots
        BY DEF RequestsInv, TypeOK, ElectionState
    <2>3. p \in HeartbeatPackets /\ p.type = "Heartbeat"
        BY <2>1, <2>2 DEF Heartbeat, HeartbeatPackets
    <2>4. PacketTrue(p)
        BY <2>3, PacketKinds DEF PacketTrue
    <2>5. net' = net \cup {p} /\ UNCHANGED executor
        BY <1>9, <2>1 DEF CReplicaNextReadClockMaybeSendHeartbeat
    <2> QED
        BY <1>4, <2>4, <2>5
<1>10. ASSUME NEW r \in Replicas, NoReceive(r)
       PROVE  TrueNext
    BY <1>2, <1>7, <1>8, <1>9, <1>10
       DEF NoReceive, CProposerMaybeEnterNewViewAndSend1a, CProposerMaybeEnterPhase2,
           CProposerNominateNewValueAndSend2a, CProposerCheckForViewTimeout,
           CProposerCheckForQuorumOfViewSuspicions, FollowView
<1> QED
    BY <1>2, <1>5, <1>6, <1>10 DEF Next, CReplicaNextSpontaneousMaybeMakeDecision, vars

-----------------------------------------------------------------------------
(***************************************************************************)
(* The invariant and what follows from it.                                 *)
(***************************************************************************)
\* Nothing is asked, chosen or executed at first.
LEMMA RequestsStart == RequestsInit => RequestsInv
<1> SUFFICES ASSUME RequestsInit PROVE RequestsInv
    OBVIOUS
<1>1. <<>> \in Seq(CRequest) /\ <<>> \in Seq(Seq(CRequest)) /\ BuildReqSet(<<>>) = {}
    BY DEF BuildReqSet
<1>2. /\ \A r \in Replicas : CBallot(0, r) \in Ballots
      /\ CBallot(1, 0) \in Ballots
    BY ConfigAssumption DEF CBallot, Ballots, Replicas
<1>3. NoSeqno \in [Clients -> Nat \cup {NoReply}] /\ NoSeqno \in [Clients -> CReply \cup {NoReply}]
    BY DEF NoSeqno
<1>4. TypeOK
    <2>1. election \in [Replicas -> ElectionState]
        BY <1>1, <1>2 DEF RequestsInit, CElectionStateInit, ElectionState
    <2>2. proposer \in [Replicas -> ProposerState]
        BY <1>1, <1>2, <1>3 DEF RequestsInit, ProposerState
    <2>3. executor \in [Replicas -> ExecutorState]
        BY <1>3 DEF RequestsInit, ExecutorState
    <2> QED
        BY <1>1, <2>1, <2>2, <2>3 DEF RequestsInit, TypeOK
<1>5. \A r \in Replicas : NotedOnce(election[r])
    <2> SUFFICES ASSUME NEW r \in Replicas PROVE NotedOnce(election[r])
        OBVIOUS
    <2>1. /\ election[r].requests_received_this_epoch = <<>>
          /\ election[r].requests_received_prev_epochs = <<>>
          /\ election[r].cur_req_set = {} /\ election[r].prev_req_set = {}
        BY DEF RequestsInit, CElectionStateInit
    <2>2. AllRequests(election[r]) = <<>>
        BY <2>1 DEF AllRequests
    <2> QED
        BY <1>1, <2>1, <2>2 DEF NotedOnce
<1>6. \A r \in Replicas : StateIsTrue(executor[r])
    <2> SUFFICES ASSUME NEW r \in Replicas PROVE StateIsTrue(executor[r])
        OBVIOUS
    <2>1. /\ executor[r].ops_complete = 0 /\ executor[r].app = 0
          /\ executor[r].reply_cache = NoSeqno /\ Len(chosen) = 0
        BY DEF RequestsInit
    <2>2. ExecutedBefore(0 + 1) = {}
        BY DEF ExecutedBefore
    <2>3. \A c \in Clients : executor[r].reply_cache[c] = NoReply
        BY <2>1 DEF NoSeqno
    <2>4. PICK e : e = executor[r]
        OBVIOUS
    <2>5. e.ops_complete = 0 /\ e.app = 0 /\ \A c \in Clients : e.reply_cache[c] = NoReply
        BY <2>1, <2>3, <2>4
    <2>6. e.ops_complete + 1 = 0 + 1
        BY <2>5
    <2>7. Cardinality(ExecutedBefore(e.ops_complete + 1)) = 0
        BY <2>2, <2>6, FS_EmptySet
    <2>8. StateIsTrue(e)
        BY <2>1, <2>5, <2>7 DEF StateIsTrue
    <2> QED
        BY <2>4, <2>8
<1> QED
    BY <1>4, <1>5, <1>6 DEF RequestsInv, RequestsInit, RepliesAreTrue, Sent

LEMMA RequestsStep == RequestsInv /\ [Next]_vars => RequestsInv'
<1> SUFFICES ASSUME RequestsInv, [Next]_vars PROVE RequestsInv'
    OBVIOUS
<1>1. ElectionFacts
    BY ElectionStep
<1>2. /\ proposer' \in [Replicas -> ProposerState] /\ inflight' \in Seq(Seq(CRequest))
      /\ chosen' \in Seq(Seq(CRequest)) /\ Grown(chosen')
    BY ProposerStep
<1>3. TrueNext
    BY ExecutorStep
<1>4. /\ \A q, v : ExecutedAs(q, v) => ExecutedAs(q, v)'
      /\ \A e \in ExecutorState : StateIsTrue(e) => StateIsTrue(e)'
    BY <1>2, TrueForever DEF RequestsInv, TypeOK
<1>5. TypeOK'
    BY <1>1, <1>2, <1>3 DEF ElectionFacts, TrueNext, PacketTrue, TypeOK
<1>6. \A r \in Replicas : NotedOnce(election'[r])
    BY <1>1 DEF ElectionFacts, Noted
<1>7. ASSUME NEW r \in Replicas PROVE StateIsTrue(executor[r])'
    <2>1. PICK e \in ExecutorState : e = executor'[r]
        BY <1>3 DEF TrueNext
    <2>2. StateIsTrue(e)'
        BY <1>3, <1>4, <2>1 DEF TrueNext
    <2> QED
        BY <2>1, <2>2 DEF StateIsTrue, ExecutedAs
<1>8. ASSUME NEW p \in net', p.type = "AppStateSupply" PROVE StateIsTrue(p.state)'
    <2>1. PICK e \in ExecutorState : e = p.state /\ StateIsTrue(e)
        BY <1>3, <1>8, PacketKinds DEF TrueNext, PacketTrue, SupplyPackets
    <2> QED
        BY <1>4, <2>1
<1>9. ASSUME NEW p \in net', p.type = "Reply" PROVE ExecutedAs(p.req, p.reply)'
    BY <1>3, <1>4, <1>9 DEF TrueNext, PacketTrue
<1> QED
    BY <1>5, <1>6, <1>7, <1>8, <1>9 DEF RequestsInv, RepliesAreTrue, Sent

\* Request handling as a whole keeps its invariant.
THEOREM RequestsInvariant == Spec => []RequestsInv
BY RequestsStart, RequestsStep, PTL DEF Spec

\* executor_gen.rs: a reply is the counter at an execution of the request that it
\* answers, whichever replica sends it, from the execution or from a cache that may
\* have come with another replica's state.
THEOREM RepliesAreTrueHolds == Spec => []RepliesAreTrue
<1>1. RequestsInv => RepliesAreTrue
    BY DEF RequestsInv
<1> QED
    BY <1>1, RequestsInvariant, PTL

\* election_gen.rs: lists and sets of outstanding requests agree, without
\* repetitions, through receipts, executions, epochs and views.
THEOREM SetsMirrorListsHolds == Spec => []SetsMirrorLists
<1>1. RequestsInv => SetsMirrorLists
    <2> SUFFICES ASSUME RequestsInv, NEW r \in Replicas
        PROVE  /\ election[r].cur_req_set = BuildReqSet(election[r].requests_received_this_epoch)
               /\ election[r].prev_req_set = BuildReqSet(election[r].requests_received_prev_epochs)
               /\ Cardinality(Outstanding(r)) = Len(AllRequests(election[r]))
        BY DEF SetsMirrorLists
    <2>1. Noted(election[r])
        BY DEF RequestsInv, TypeOK, Noted
    <2>2. PICK all \in Seq(CRequest) : all = AllRequests(election[r]) /\ Distinct(all)
        BY <2>1, NotedLists
    <2>3. Cardinality(BuildReqSet(all)) = Len(all)
        BY <2>2, DistinctCounted
    <2> QED
        BY <2>1, <2>2, <2>3 DEF Noted, NotedOnce, Outstanding
<1> QED
    BY <1>1, RequestsInvariant, PTL

\* election_gen.rs: a request leaves the outstanding ones of a replica only when the
\* replica executes a batch that satisfies it; no epoch and no view loses one.
THEOREM OutstandingUntilExecutedHolds == Spec => OutstandingUntilExecuted
<1>1. RequestsInv /\ [Next]_vars =>
         [\A r \in Replicas :
            \A q \in Outstanding(r) \ Outstanding(r)' :
               /\ executor'[r].ops_complete = executor[r].ops_complete + 1
               /\ \E i \in DOMAIN chosen[executor'[r].ops_complete] :
                     CRequestSatisfiedBy(q, chosen[executor'[r].ops_complete][i])]_vars
    BY ElectionStep DEF ElectionFacts, Done, Outstanding, RequestsOf
<1> QED
    BY <1>1, RequestsInvariant, PTL DEF Spec, OutstandingUntilExecuted

=============================================================================

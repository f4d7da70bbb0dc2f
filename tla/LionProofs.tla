----------------------------- MODULE LionProofs -----------------------------
(***************************************************************************)
(* The Lion runtime: request numbers, UDP and TCP, for any workers, peers, *)
(* tasks and frames and every limit.  Each part proves the invariant of    *)
(* one of them from its own steps; at the end they are brought together    *)
(* for the process, which is one of them.                                  *)
(***************************************************************************)
EXTENDS LionRuntime, ListProofs

(***************************************************************************)
(* The reservation of request numbers.                                     *)
(***************************************************************************)
\* The numbers are naturals.
LEMMA NumbersAreNat == 0 .. MaxSequence \subseteq Nat /\ Invalid \notin 0 .. MaxSequence
BY ClientSequenceAssumption DEF Invalid

\* Nothing is reserved at the start.
LEMMA InitIInv == Init => IInv
BY ClientSequenceAssumption
DEF Init, IInv, ReservationInv, UseInv, TypeOK, Files, Locations, Inside

\* The calls before the range is the worker's touch no ghost and no ready worker.
LEMMA LockStep == ASSUME IInv, NEW w \in Workers, lock_sequence(w) PROVE IInv'
<1>1. ReservationInv'
    BY ClientSequenceAssumption DEF IInv, ReservationInv, TypeOK, lock_sequence, Inside, Locations
<1>2. UseInv'
    BY DEF IInv, ReservationInv, UseInv, TypeOK, lock_sequence, Apart
<1> QED
    BY <1>1, <1>2 DEF IInv

\* The range that is read starts at the checkpoint or above, so above top.
LEMMA ReadStep == ASSUME IInv, NEW w \in Workers, read_checkpoint(w) PROVE IInv'
<1> PICK floor \in Floors :
        LET first == IF checkpoint.number = 0 THEN Max2(floor, 1) ELSE Max2(checkpoint.number, floor) IN
        /\ first + SequenceRange <= MaxSequence
        /\ value' = [value EXCEPT ![w] = first]
        /\ end' = [end EXCEPT ![w] = first + SequenceRange]
    BY DEF read_checkpoint
<1> DEFINE first == IF checkpoint.number = 0 THEN Max2(floor, 1) ELSE Max2(checkpoint.number, floor)
<1>1. first \in Nat /\ checkpoint.number <= first /\ checkpoint.number \in Nat /\ top \in Nat
    BY ClientSequenceAssumption DEF IInv, ReservationInv, TypeOK, Files, Max2
<1>2. top <= first /\ first < first + SequenceRange /\ first + SequenceRange \in 0 .. MaxSequence
    BY <1>1, ClientSequenceAssumption DEF IInv, ReservationInv
<1>3. first \in 0 .. MaxSequence
    BY <1>1, <1>2, ClientSequenceAssumption
<1>4. value' = [value EXCEPT ![w] = first] /\ end' = [end EXCEPT ![w] = first + SequenceRange]
    OBVIOUS
<1> HIDE DEF first
<1>5. ReservationInv'
    BY <1>2, <1>3, <1>4 DEF IInv, ReservationInv, TypeOK, read_checkpoint, Inside, Locations
<1>6. UseInv'
    BY <1>4 DEF IInv, ReservationInv, UseInv, TypeOK, read_checkpoint, Apart
<1> QED
    BY <1>5, <1>6 DEF IInv

\* The new checkpoint is written and synced beside the old one.
LEMMA FileStep ==
    ASSUME IInv, NEW w \in Workers, write_next(w) \/ sync_next(w) \/ rename_next(w) PROVE IInv'
<1>1. CASE write_next(w)
    <2>1. ReservationInv'
        BY <1>1 DEF IInv, ReservationInv, TypeOK, Files, write_next, Inside, Locations
    <2>2. UseInv'
        BY <1>1 DEF IInv, ReservationInv, UseInv, TypeOK, write_next, Apart
    <2> QED
        BY <2>1, <2>2 DEF IInv
<1>2. CASE sync_next(w)
    <2>1. ReservationInv'
        BY <1>2 DEF IInv, ReservationInv, TypeOK, Files, sync_next, Inside, Locations
    <2>2. UseInv'
        BY <1>2 DEF IInv, ReservationInv, UseInv, TypeOK, sync_next, Apart
    <2> QED
        BY <2>1, <2>2 DEF IInv
<1>3. CASE rename_next(w)
    <2>1. next_file.number = end[w] /\ next_file.synced /\ top <= value[w] /\ value[w] < end[w]
        BY <1>3 DEF IInv, ReservationInv, rename_next, Inside
    <2>2. top <= next_file.number
        BY <2>1, NumbersAreNat DEF IInv, ReservationInv, TypeOK
    <2>3. ReservationInv'
        BY <1>3, <2>1, <2>2 DEF IInv, ReservationInv, TypeOK, rename_next, Inside, Locations
    <2>4. UseInv'
        BY <1>3 DEF IInv, ReservationInv, UseInv, TypeOK, rename_next, Apart
    <2> QED
        BY <2>3, <2>4 DEF IInv
<1> QED
    BY <1>1, <1>2, <1>3

\* The range becomes the worker's: it lies above all ranges of the others.
LEMMA HandOutStep == ASSUME IInv, NEW w \in Workers, sync_directory(w) PROVE IInv'
<1>1. /\ top \in Nat /\ value[w] \in Nat /\ end[w] \in 0 .. MaxSequence /\ end[w] \in Nat
      /\ top <= value[w] /\ value[w] < end[w] /\ checkpoint.number = end[w] /\ lock = w
    BY NumbersAreNat DEF IInv, ReservationInv, TypeOK, sync_directory, Inside
<1>2. top' = end[w]
    BY <1>1 DEF sync_directory, Max2
<1>3. ReservationInv'
    <2>1. \A v \in Workers : v # w => pc'[v] \notin Inside
        BY <1>1 DEF IInv, ReservationInv, TypeOK, sync_directory
    <2>2. pc'[w] = "ready"
        BY DEF IInv, ReservationInv, TypeOK, sync_directory
    <2>3. \A v \in Workers : pc'[v] \notin Inside
        BY <2>1, <2>2 DEF Inside
    <2>4. TypeOK'
        BY <1>1, <1>2 DEF IInv, ReservationInv, TypeOK, sync_directory, Locations
    <2> QED
        BY <1>1, <1>2, <2>3, <2>4 DEF IInv, ReservationInv, sync_directory, Inside
<1>4. UseInv'
    <2>1. \A n \in 0 .. MaxSequence : uses'[n] <= 1 /\ (top' <= n => uses'[n] = 0)
        BY <1>1, <1>2, NumbersAreNat DEF IInv, UseInv, sync_directory
    <2>2. ASSUME NEW n \in value[w] .. end[w] - 1 PROVE uses[n] = 0
        <3>1. n \in 0 .. MaxSequence /\ top <= n
            BY <1>1, ClientSequenceAssumption
        <3> QED
            BY <3>1 DEF IInv, UseInv
    <2>3. \A v \in Workers : v # w /\ pc'[v] = "ready" => pc[v] = "ready"
        BY DEF IInv, ReservationInv, TypeOK, sync_directory
    <2>4. value' = value /\ end' = end /\ uses' = uses
        BY DEF sync_directory
    <2>5. \A v \in Workers : value[v] \in Nat /\ end[v] \in Nat
        BY NumbersAreNat DEF IInv, ReservationInv, TypeOK
    <2>6. \A v \in Workers : v # w /\ pc'[v] = "ready" => end[v] <= value[w]
        BY <1>1, <2>3, <2>5 DEF IInv, UseInv
    <2>7. \A v \in Workers : pc'[v] = "ready" =>
              value[v] < end[v] /\ end[v] <= end[w] /\ \A n \in value[v] .. end[v] - 1 : uses[n] = 0
        BY <1>1, <2>2, <2>3, <2>5, <2>6 DEF IInv, UseInv
    <2>8. \A u, v \in Workers : u # v /\ pc'[u] = "ready" /\ pc'[v] = "ready" => Apart(u, v)
        BY <2>3, <2>6 DEF IInv, UseInv, Apart
    <2> QED
        BY <1>2, <2>1, <2>4, <2>7, <2>8 DEF UseInv, Apart
<1> QED
    BY <1>3, <1>4 DEF IInv

\* A number is used by the worker that has it, and then nobody has it.
LEMMA AdvanceStep == ASSUME IInv, NEW w \in Workers, advance(w) PROVE IInv'
<1>1. /\ value[w] \in Nat /\ end[w] \in Nat /\ top \in Nat /\ value[w] \in 0 .. MaxSequence
      /\ end[w] \in 0 .. MaxSequence /\ value[w] < end[w] /\ end[w] <= top /\ uses[value[w]] = 0
    BY NumbersAreNat DEF IInv, ReservationInv, UseInv, TypeOK, advance
<1>2. value[w] + 1 \in 0 .. MaxSequence
    BY <1>1, ClientSequenceAssumption
<1>3. value' = [value EXCEPT ![w] = value[w] + 1] /\ uses' = [uses EXCEPT ![value[w]] = 1]
    BY <1>1 DEF advance
<1>4. ReservationInv'
    BY <1>2, <1>3 DEF IInv, ReservationInv, TypeOK, advance, Inside, Locations
<1>5. UseInv'
    <2>1. \A v \in Workers : value[v] \in Nat /\ end[v] \in Nat /\ (pc'[v] = "ready" => pc[v] = "ready")
        BY NumbersAreNat DEF IInv, ReservationInv, TypeOK, advance
    <2>2. \A n \in 0 .. MaxSequence : uses'[n] = IF n = value[w] THEN 1 ELSE uses[n]
        BY <1>3 DEF IInv, ReservationInv, TypeOK
    <2>3. \A n \in 0 .. MaxSequence : uses'[n] <= 1 /\ (top' <= n => uses'[n] = 0)
        BY <1>1, <2>2, NumbersAreNat DEF IInv, UseInv, advance
    <2>4. end' = end /\ top' = top /\ \A v \in Workers : value'[v] = IF v = w THEN value[w] + 1 ELSE value[v]
        BY <1>3 DEF IInv, ReservationInv, TypeOK, advance
    <2>5. ASSUME NEW v \in Workers, pc'[v] = "ready"
          PROVE value'[v] < end[v] /\ end[v] <= top /\ \A n \in value'[v] .. end[v] - 1 : uses'[n] = 0
        <3>0. end[v] \in 0 .. MaxSequence /\ pc[v] = "ready"
            BY <2>1, <2>5 DEF IInv, ReservationInv, TypeOK
        <3>1. CASE v = w
            <4>1. value[w] + 1 # end[w]
                BY <2>5, <3>1 DEF advance, IInv, ReservationInv, TypeOK
            <4>2. value'[v] < end[v] /\ end[v] <= top
                BY <1>1, <2>4, <3>1, <4>1
            <4>3. ASSUME NEW n \in value'[v] .. end[v] - 1 PROVE uses'[n] = 0
                <5>1. n \in value[w] .. end[w] - 1 /\ n # value[w] /\ n \in 0 .. MaxSequence
                    BY <1>1, <2>4, <3>1, <4>3, ClientSequenceAssumption
                <5> QED
                    BY <5>1, <2>2, <3>0, <3>1 DEF IInv, UseInv
            <4> QED
                BY <4>2, <4>3
        <3>2. CASE v # w
            <4>1. Apart(v, w) /\ pc[w] = "ready"
                BY <3>0, <3>2 DEF IInv, UseInv, advance
            <4>2. value'[v] = value[v] /\ value[v] < end[v] /\ end[v] <= top
                BY <2>4, <3>0, <3>2 DEF IInv, UseInv
            <4>3. ASSUME NEW n \in value'[v] .. end[v] - 1 PROVE uses'[n] = 0
                <5>1. n \in value[v] .. end[v] - 1 /\ n # value[w] /\ n \in 0 .. MaxSequence
                    BY <1>1, <2>1, <3>0, <4>1, <4>2, <4>3, ClientSequenceAssumption DEF Apart
                <5> QED
                    BY <5>1, <2>2, <3>0 DEF IInv, UseInv
            <4> QED
                BY <4>2, <4>3
        <3> QED
            BY <3>1, <3>2
    <2>6. \A u, v \in Workers : u # v /\ pc'[u] = "ready" /\ pc'[v] = "ready" =>
              end[u] <= value'[v] \/ end[v] <= value'[u]
        BY <1>1, <2>1, <2>4 DEF IInv, UseInv, Apart
    <2> QED
        BY <2>3, <2>4, <2>5, <2>6 DEF UseInv, Apart
<1> QED
    BY <1>4, <1>5 DEF IInv

\* A crash releases the lock and forgets ranges; the files stay.
LEMMA CrashStep ==
    ASSUME IInv, (\E w \in Workers : stop(w)) \/ power_failure PROVE IInv'
<1>1. ASSUME NEW w \in Workers, stop(w) PROVE IInv'
    <2>1. ReservationInv'
        BY <1>1 DEF IInv, ReservationInv, TypeOK, stop, Inside, Locations
    <2>2. UseInv'
        BY <1>1 DEF IInv, ReservationInv, UseInv, TypeOK, stop, Apart
    <2> QED
        BY <2>1, <2>2 DEF IInv
<1>2. CASE power_failure
    <2>1. AfterFailure(disk) = disk /\ AfterFailure(checkpoint) = checkpoint
        BY DEF AfterFailure, IInv, ReservationInv
    <2>2. ReservationInv'
        BY <1>2, <2>1 DEF IInv, ReservationInv, TypeOK, power_failure, Inside, Locations
    <2>3. UseInv'
        BY <1>2 DEF IInv, ReservationInv, UseInv, TypeOK, power_failure, Apart
    <2> QED
        BY <2>2, <2>3 DEF IInv
<1> QED
    BY <1>1, <1>2

\* Every step preserves the invariant.
LEMMA StepIInv == IInv /\ [Next]_vars => IInv'
<1>1. ASSUME IInv, UNCHANGED vars PROVE IInv'
    BY <1>1 DEF IInv, ReservationInv, UseInv, TypeOK, Apart, vars
<1> QED
    BY <1>1, LockStep, ReadStep, FileStep, HandOutStep, AdvanceStep, CrashStep DEF Next

-----------------------------------------------------------------------------
(***************************************************************************)
(* TCP: the invariant of stream.rs, in terms of what the lists have.       *)
(***************************************************************************)
\* The frames that task t has not begun to write.
Line(t) == tcp_queue[t] \o tcp_waiting[t]

Held(t, f) == f = tcp_writing[t] \/ Has(Line(t), f)

Stages == {"Free", "Accepting", "Connecting", "Running", "Reporting"}
Answers == {"New", "Awaited", "Queued", "Failed", "Withdrawn", "Broken", "Ok"}

RoutesInv ==
    /\ tcp_connections \in [Tcp!Peers -> Seq(Tasks)]
    /\ tcp_stage \in [Tasks -> Stages]
    /\ \A p \in Tcp!Peers :
          /\ Distinct(tcp_connections[p])
          /\ \A t \in Tasks : Has(tcp_connections[p], t) => tcp_stage[t] \in Tcp!Open
    /\ \A t \in Tasks : tcp_stage[t] \in Tcp!Open =>
          \E p \in Tcp!Peers : Has(tcp_connections[p], t)

LinesTyped ==
    /\ tcp_queue \in [Tasks -> Seq(Frames)]
    /\ tcp_waiting \in [Tasks -> Seq(Frames)]
    /\ tcp_writing \in [Tasks -> Frames \cup {None}]

IdleInv ==
    \A t \in Tasks : tcp_stage[t] \notin Tcp!Open =>
        tcp_queue[t] = <<>> /\ tcp_waiting[t] = <<>> /\ tcp_writing[t] = None

OnceInv ==
    /\ \A t \in Tasks : Distinct(Line(t)) /\ ~Has(Line(t), tcp_writing[t])
    /\ \A t, u \in Tasks : \A f \in Frames : Held(t, f) /\ Held(u, f) => t = u

AnswersInv ==
    /\ tcp_answer \in [Frames -> Answers]
    /\ tcp_written \subseteq Frames
    /\ \A f \in Frames :
          /\ tcp_answer[f] = "Awaited" => \E t \in Tasks : Held(t, f)
          /\ tcp_answer[f] \in {"New", "Failed", "Withdrawn"} => f \notin tcp_written
          /\ tcp_answer[f] = "Ok" => f \in tcp_written
          /\ \A t \in Tasks : Held(t, f) =>
                tcp_answer[f] \in {"Awaited", "Queued"} /\ f \notin tcp_written

\* The specification's words for lists are those used here.
LEMMA SameLists ==
    ASSUME NEW S, NEW s \in Seq(S)
    PROVE  /\ \A e : Tcp!Contains(s, e) <=> Has(s, e)
           /\ Tcp!IsInjective(s) <=> Distinct(s)
           /\ \A T : Tcp!Retain(s, T) = Retain(s, T)
<1>1. DOMAIN s = 1 .. Len(s)
    OBVIOUS
<1>2. \A e : Tcp!Contains(s, e) <=> Has(s, e)
    BY <1>1 DEF Tcp!Contains, Has
<1>3. Tcp!IsInjective(s) <=> Distinct(s)
    BY DEF Tcp!IsInjective, Distinct
<1>4. \A T : Tcp!Retain(s, T) = Retain(s, T)
    BY DEF Tcp!Retain, Tcp!Pick, Tcp!Cardinality, Retain, Pick, Cardinality
<1> QED
    BY <1>2, <1>3, <1>4

\* The lines are lists of frames.
LEMMA LinesAre ==
    ASSUME LinesTyped, NEW t \in Tasks
    PROVE  /\ Line(t) \in Seq(Frames)
           /\ tcp_queue[t] \in Seq(Frames) /\ tcp_waiting[t] \in Seq(Frames)
           /\ \A f : Has(Line(t), f) <=> Has(tcp_queue[t], f) \/ Has(tcp_waiting[t], f)
           /\ \A f : Has(Line(t), f) => f \in Frames
<1>1. tcp_queue[t] \in Seq(Frames) /\ tcp_waiting[t] \in Seq(Frames)
    BY DEF LinesTyped
<1>2. \A q, w \in Seq(Frames) : q \o w \in Seq(Frames) /\ \A f : Has(q \o w, f) <=> Has(q, f) \/ Has(w, f)
    BY HasJoined
<1>3. \A q \in Seq(Frames) : \A f : Has(q, f) => f \in Frames
    BY DEF Has
<1> QED
    BY <1>1, <1>2, <1>3 DEF Line

\* The invariant of the specification, in these terms.
LEMMA TcpInTerms == Tcp!IInv <=> RoutesInv /\ LinesTyped /\ IdleInv /\ OnceInv /\ AnswersInv
<1>1. Tcp!TypeOK <=> /\ LinesTyped
                     /\ tcp_connections \in [Tcp!Peers -> Seq(Tasks)]
                     /\ tcp_stage \in [Tasks -> Stages]
                     /\ tcp_answer \in [Frames -> Answers]
                     /\ tcp_written \subseteq Frames
    BY DEF Tcp!TypeOK, LinesTyped, Stages, Answers
<1> SUFFICES ASSUME LinesTyped, tcp_connections \in [Tcp!Peers -> Seq(Tasks)],
                    tcp_stage \in [Tasks -> Stages], tcp_answer \in [Frames -> Answers],
                    tcp_written \subseteq Frames
             PROVE  Tcp!RoutesOpen /\ Tcp!HeldOnce /\ Tcp!HeldIsOpen /\ Tcp!SuccessMeansWritten
                       <=> RoutesInv /\ IdleInv /\ OnceInv /\ AnswersInv
    BY <1>1 DEF Tcp!IInv, RoutesInv, AnswersInv
<1>2. \A t \in Tasks : /\ Line(t) \in Seq(Frames)
                       /\ \A f : Tcp!Contains(tcp_queue[t] \o tcp_waiting[t], f) <=> Has(Line(t), f)
                       /\ Tcp!IsInjective(tcp_queue[t] \o tcp_waiting[t]) <=> Distinct(Line(t))
                       /\ tcp_writing[t] \in Frames \cup {None}
                       /\ ~Has(Line(t), None)
    <2> TAKE t \in Tasks
    <2>1. Line(t) \in Seq(Frames) /\ ~Has(Line(t), None)
        BY LinesAre, LionAssumption
    <2>2. PICK s \in Seq(Frames) : s = Line(t)
        BY <2>1
    <2>3. (\A f : Tcp!Contains(s, f) <=> Has(s, f)) /\ (Tcp!IsInjective(s) <=> Distinct(s))
        BY SameLists
    <2> QED
        BY <2>1, <2>2, <2>3 DEF Line, LinesTyped
<1>3. \A p \in Tcp!Peers : /\ \A t : Tcp!Contains(tcp_connections[p], t) <=> Has(tcp_connections[p], t)
                           /\ Tcp!IsInjective(tcp_connections[p]) <=> Distinct(tcp_connections[p])
                           /\ \A i \in DOMAIN tcp_connections[p] : tcp_connections[p][i] \in Tasks
    <2> TAKE p \in Tcp!Peers
    <2>1. PICK s \in Seq(Tasks) : s = tcp_connections[p]
        OBVIOUS
    <2> QED
        BY <2>1, SameLists
<1>4. (\A p \in Tcp!Peers : \A i \in DOMAIN tcp_connections[p] : tcp_stage[tcp_connections[p][i]] \in Tcp!Open)
         <=> \A p \in Tcp!Peers : \A t \in Tasks : Has(tcp_connections[p], t) => tcp_stage[t] \in Tcp!Open
    BY <1>3 DEF Has
<1>5. Tcp!HeldOnce <=> OnceInv
    <2>1. None \notin Frames
        BY LionAssumption
    <2>2. \A t \in Tasks : \A f : Has(Line(t), f) => f \in Frames
        BY LinesAre
    <2> QED
        BY <1>2, <2>1, <2>2 DEF Tcp!HeldOnce, OnceInv, Held
<1>6. Tcp!RoutesOpen <=> /\ RoutesInv /\ IdleInv
                         /\ \A f \in Frames : tcp_answer[f] = "Awaited" => \E t \in Tasks : Held(t, f)
    BY <1>2, <1>3, <1>4 DEF Tcp!RoutesOpen, RoutesInv, IdleInv, Held
<1>7. (\A f \in Frames : tcp_answer[f] = "Awaited" => \E t \in Tasks : Held(t, f))
         => (Tcp!HeldIsOpen /\ Tcp!SuccessMeansWritten <=> AnswersInv)
    BY <1>2 DEF Tcp!HeldIsOpen, Tcp!SuccessMeansWritten, AnswersInv, Held
<1>8. AnswersInv => \A f \in Frames : tcp_answer[f] = "Awaited" => \E t \in Tasks : Held(t, f)
    BY DEF AnswersInv
<1> QED
    BY <1>5, <1>6, <1>7, <1>8

-----------------------------------------------------------------------------
(***************************************************************************)
(* TCP: routes.                                                            *)
(***************************************************************************)
\* The routes that route keeps are those that were there: all are open.
LEMMA AllRetained ==
    ASSUME RoutesInv, NEW p \in Tcp!Peers
    PROVE  /\ Tcp!Retained(p) \in Seq(Tasks) /\ Distinct(Tcp!Retained(p))
           /\ \A t \in Tasks : Has(Tcp!Retained(p), t) <=> Has(tcp_connections[p], t)
           /\ Tcp!Retained(p) # <<>> =>
                 Tcp!Last(Tcp!Retained(p)) \in Tasks /\ Has(Tcp!Retained(p), Tcp!Last(Tcp!Retained(p)))
<1>1. PICK s \in Seq(Tasks) : s = tcp_connections[p]
    BY DEF RoutesInv
<1>2. PICK T : T = {t \in Tasks : tcp_stage[t] \in Tcp!Open}
    OBVIOUS
<1>3. PICK r : r = Retain(s, T)
    OBVIOUS
<1>4. r = Tcp!Retained(p)
    BY <1>1, <1>2, <1>3, SameLists DEF Tcp!Retained
<1>5. r \in Seq(Tasks) /\ (\A t : Has(r, t) <=> Has(s, t) /\ t \in T) /\ (Distinct(s) => Distinct(r))
    BY <1>3, HasRetained
<1>6. \A t \in Tasks : Has(s, t) => t \in T
    BY <1>1, <1>2 DEF RoutesInv
<1>7. r # <<>> => Tcp!Last(r) \in Tasks /\ Has(r, Tcp!Last(r))
    <2>1. Len(r) \in Nat /\ DOMAIN r = 1 .. Len(r) /\ (r # <<>> => Len(r) >= 1)
        BY <1>5
    <2> QED
        BY <1>5, <2>1 DEF Tcp!Last, Has
<1> QED
    BY <1>1, <1>4, <1>5, <1>6, <1>7 DEF RoutesInv

Routed(t) ==
    /\ RoutesInv'
    /\ tcp_stage'[t] \in Tcp!Open
    /\ \A u \in Tasks : u # t \/ tcp_stage[u] \in Tcp!Open => tcp_stage'[u] = tcp_stage[u]

\* A route is kept, or begun on a free task.
LEMMA RouteStep ==
    ASSUME RoutesInv, NEW p \in Tcp!Peers, NEW t \in Tasks, Tcp!route(p, t)
    PROVE  Routed(t)
<1>1. PICK r \in Seq(Tasks) : r = Tcp!Retained(p)
    BY AllRetained
<1>2. /\ Distinct(r)
      /\ \A u \in Tasks : Has(r, u) <=> Has(tcp_connections[p], u)
      /\ r # <<>> => Tcp!Last(r) \in Tasks /\ Has(r, Tcp!Last(r))
    BY <1>1, AllRetained
<1>3. CASE r # <<>>
    <2>1. /\ t = Tcp!Last(r) /\ tcp_stage' = tcp_stage
          /\ tcp_connections' = [tcp_connections EXCEPT ![p] = r]
        BY <1>1, <1>3 DEF Tcp!route
    <2>2. tcp_stage[t] \in Tcp!Open
        BY <1>2, <1>3, <2>1 DEF RoutesInv
    <2>3. tcp_connections' \in [Tcp!Peers -> Seq(Tasks)]
        BY <2>1 DEF RoutesInv
    <2>4. \A o \in Tcp!Peers : /\ Distinct(tcp_connections'[o])
                               /\ \A u \in Tasks : Has(tcp_connections'[o], u) <=> Has(tcp_connections[o], u)
        BY <1>2, <2>1 DEF RoutesInv
    <2>5. RoutesInv'
        BY <2>1, <2>3, <2>4 DEF RoutesInv
    <2> QED
        BY <2>1, <2>2, <2>5 DEF Routed
<1>4. CASE r = <<>>
    <2>1. /\ tcp_stage[t] = "Free" /\ tcp_stage' = [tcp_stage EXCEPT ![t] = "Connecting"]
          /\ tcp_connections' = [tcp_connections EXCEPT ![p] = <<t>>]
        BY <1>1, <1>4 DEF Tcp!route
    <2>2. \A u \in Tasks : ~Has(tcp_connections[p], u)
        BY <1>2, <1>4 DEF Has
    <2>3. <<t>> \in Seq(Tasks) /\ Distinct(<<t>>) /\ (\A u : Has(<<t>>, u) <=> u = t)
        BY DEF Distinct, Has
    <2>4. /\ tcp_connections' \in [Tcp!Peers -> Seq(Tasks)] /\ tcp_stage' \in [Tasks -> Stages]
          /\ tcp_connections'[p] = <<t>> /\ tcp_stage'[t] = "Connecting"
          /\ \A o \in Tcp!Peers : o # p => tcp_connections'[o] = tcp_connections[o]
          /\ \A u \in Tasks : u # t => tcp_stage'[u] = tcp_stage[u]
        BY <2>1, <2>3 DEF RoutesInv, Stages
    <2>5. "Free" \notin Tcp!Open /\ "Connecting" \in Tcp!Open
        BY DEF Tcp!Open
    <2>6. \A o \in Tcp!Peers : /\ Distinct(tcp_connections'[o])
                               /\ \A u \in Tasks : Has(tcp_connections'[o], u) => tcp_stage'[u] \in Tcp!Open
        BY <2>1, <2>3, <2>4, <2>5 DEF RoutesInv
    <2>7. ASSUME NEW u \in Tasks, tcp_stage'[u] \in Tcp!Open
          PROVE  \E o \in Tcp!Peers : Has(tcp_connections'[o], u)
        BY <2>2, <2>3, <2>4, <2>7 DEF RoutesInv
    <2> QED
        BY <2>1, <2>4, <2>5, <2>6, <2>7 DEF RoutesInv, Routed
<1> QED
    BY <1>3, <1>4

\* No route: there was none.
LEMMA NoRouteStep ==
    ASSUME RoutesInv, NEW p \in Tcp!Peers, Tcp!no_route(p), UNCHANGED tcp_stage
    PROVE  RoutesInv'
<1>1. \A u \in Tasks : ~Has(tcp_connections[p], u)
    <2>1. \A u \in Tasks : Has(Tcp!Retained(p), u) <=> Has(tcp_connections[p], u)
        BY AllRetained
    <2>2. \A u : ~Has(<<>>, u)
        BY DEF Has
    <2> QED
        BY <2>1, <2>2 DEF Tcp!no_route
<1>2. <<>> \in Seq(Tasks) /\ Distinct(<<>>) /\ \A u : ~Has(<<>>, u)
    BY DEF Distinct, Has
<1>3. tcp_connections' = [tcp_connections EXCEPT ![p] = <<>>]
    BY DEF Tcp!no_route
<1> QED
    BY <1>1, <1>2, <1>3 DEF RoutesInv

\* A connection that was accepted is one more route of its peer.
LEMMA AcceptedStep ==
    ASSUME RoutesInv, NEW p \in Tcp!Peers, NEW t \in Tasks, Tcp!accept_connection(t, p)
    PROVE  RoutesInv'
<1>1. PICK s \in Seq(Tasks) : s = tcp_connections[p]
    BY DEF RoutesInv
<1>2. PICK a : a = Append(s, t)
    OBVIOUS
<1>3. "Accepting" \notin Tcp!Open /\ "Running" \in Tcp!Open /\ "Running" \in Stages
    BY DEF Tcp!Open, Stages
<1>4. \A o \in Tcp!Peers : ~Has(tcp_connections[o], t)
    BY <1>3 DEF RoutesInv, Tcp!accept_connection
<1>5. a \in Seq(Tasks) /\ (\A u : Has(a, u) <=> Has(s, u) \/ u = t) /\ Distinct(a)
    BY <1>1, <1>2, <1>4, HasAppended DEF RoutesInv
<1>6. /\ tcp_connections' = [tcp_connections EXCEPT ![p] = a]
      /\ tcp_stage' = [tcp_stage EXCEPT ![t] = "Running"]
    BY <1>1, <1>2 DEF Tcp!accept_connection
<1> QED
    BY <1>1, <1>3, <1>4, <1>5, <1>6 DEF RoutesInv

\* A connection that ends is the only route that is lost.
LEMMA ClosedStep ==
    ASSUME RoutesInv, NEW t \in Tasks, Tcp!Close(t)
    PROVE  /\ RoutesInv' /\ tcp_stage'[t] \notin Tcp!Open
           /\ \A u \in Tasks : u # t => tcp_stage'[u] = tcp_stage[u]
<1>1. /\ tcp_connections' = [p \in Tcp!Peers |-> Tcp!Retain(tcp_connections[p], Tasks \ {t})]
      /\ \/ tcp_stage' = [tcp_stage EXCEPT ![t] = "Free"]
         \/ tcp_stage' = [tcp_stage EXCEPT ![t] = "Reporting"]
    BY DEF Tcp!Close, Tcp!remove_connection
<1>2. "Free" \notin Tcp!Open /\ "Reporting" \notin Tcp!Open
    BY DEF Tcp!Open
<1>3. /\ tcp_stage' \in [Tasks -> Stages] /\ tcp_stage'[t] \notin Tcp!Open
      /\ \A u \in Tasks : u # t => tcp_stage'[u] = tcp_stage[u]
    BY <1>1, <1>2 DEF RoutesInv, Stages
<1>4. ASSUME NEW p \in Tcp!Peers
      PROVE  /\ tcp_connections'[p] \in Seq(Tasks) /\ Distinct(tcp_connections'[p])
             /\ \A u \in Tasks : Has(tcp_connections'[p], u) <=> Has(tcp_connections[p], u) /\ u # t
    <2>1. PICK s \in Seq(Tasks) : s = tcp_connections[p]
        BY DEF RoutesInv
    <2>2. PICK T : T = Tasks \ {t}
        OBVIOUS
    <2>3. PICK r : r = Retain(s, T)
        OBVIOUS
    <2>4. r = tcp_connections'[p]
        BY <1>1, <2>1, <2>2, <2>3, SameLists
    <2>5. r \in Seq(Tasks) /\ (\A u : Has(r, u) <=> Has(s, u) /\ u \in T) /\ (Distinct(s) => Distinct(r))
        BY <2>3, HasRetained
    <2> QED
        BY <2>1, <2>2, <2>4, <2>5 DEF RoutesInv
<1>5. tcp_connections' \in [Tcp!Peers -> Seq(Tasks)]
    BY <1>1, <1>4
<1> QED
    BY <1>3, <1>4, <1>5 DEF RoutesInv

-----------------------------------------------------------------------------
(***************************************************************************)
(* TCP: frames.                                                            *)
(***************************************************************************)
FramesInv == LinesTyped /\ IdleInv /\ OnceInv /\ AnswersInv

\* A step that leaves the frames where they are and closes no queue.
LEMMA StayStep ==
    ASSUME FramesInv,
           UNCHANGED <<tcp_queue, tcp_waiting, tcp_writing, tcp_answer, tcp_written>>,
           \A t \in Tasks : tcp_stage[t] \in Tcp!Open => tcp_stage'[t] \in Tcp!Open
    PROVE  FramesInv'
<1>1. LinesTyped' /\ IdleInv'
    BY DEF FramesInv, LinesTyped, IdleInv
<1>2. OnceInv'
    BY DEF FramesInv, OnceInv, Held, Line
<1>3. AnswersInv'
    BY DEF FramesInv, AnswersInv, Held, Line
<1> QED
    BY <1>1, <1>2, <1>3 DEF FramesInv

\* A step that only refuses a frame.
LEMMA RefusedStep ==
    ASSUME FramesInv, NEW f \in Frames, tcp_answer[f] = "New",
           UNCHANGED <<tcp_queue, tcp_waiting, tcp_writing, tcp_written>>,
           tcp_answer' = [tcp_answer EXCEPT ![f] = "Failed"],
           \A t \in Tasks : tcp_stage[t] \in Tcp!Open => tcp_stage'[t] \in Tcp!Open
    PROVE  FramesInv'
<1>1. LinesTyped' /\ IdleInv'
    BY DEF FramesInv, LinesTyped, IdleInv
<1>2. OnceInv'
    BY DEF FramesInv, OnceInv, Held, Line
<1>3. \A t \in Tasks : \A g : Held(t, g)' <=> Held(t, g)
    BY DEF Held, Line
<1>4. /\ tcp_answer' \in [Frames -> Answers] /\ tcp_answer'[f] = "Failed"
      /\ \A g \in Frames : g # f => tcp_answer'[g] = tcp_answer[g]
    BY DEF FramesInv, AnswersInv, Answers
<1>5. AnswersInv'
    BY <1>3, <1>4 DEF FramesInv, AnswersInv
<1> QED
    BY <1>1, <1>2, <1>5 DEF FramesInv

\* One more frame in a line, in the queue or behind it.
LEMMA LineJoined ==
    ASSUME NEW q \in Seq(Frames), NEW w \in Seq(Frames), NEW f \in Frames,
           Distinct(q \o w), ~Has(q \o w, f)
    PROVE  /\ Append(q, f) \in Seq(Frames) /\ Append(w, f) \in Seq(Frames)
           /\ Distinct(Append(q, f) \o w) /\ Distinct(q \o Append(w, f))
           /\ \A g : Has(Append(q, f) \o w, g) <=> Has(q \o w, g) \/ g = f
           /\ \A g : Has(q \o Append(w, f), g) <=> Has(q \o w, g) \/ g = f
<1>1. /\ Distinct(q) /\ Distinct(w) /\ \A e : ~(Has(q, e) /\ Has(w, e))
      /\ \A e : Has(q \o w, e) <=> Has(q, e) \/ Has(w, e)
    BY HasJoined
<1>2. PICK a : a = Append(q, f)
    OBVIOUS
<1>3. a \in Seq(Frames) /\ Distinct(a) /\ \A e : Has(a, e) <=> Has(q, e) \/ e = f
    BY <1>1, <1>2, HasAppended
<1>4. PICK b : b = Append(w, f)
    OBVIOUS
<1>5. b \in Seq(Frames) /\ Distinct(b) /\ \A e : Has(b, e) <=> Has(w, e) \/ e = f
    BY <1>1, <1>4, HasAppended
<1>6. Distinct(a \o w) /\ \A e : Has(a \o w, e) <=> Has(a, e) \/ Has(w, e)
    BY <1>1, <1>3, HasJoined
<1>7. Distinct(q \o b) /\ \A e : Has(q \o b, e) <=> Has(q, e) \/ Has(b, e)
    BY <1>1, <1>5, HasJoined
<1> QED
    BY <1>1, <1>2, <1>3, <1>4, <1>5, <1>6, <1>7

\* Frame f is with t now, and the others are where they were.
Joins(f, t) ==
    /\ LinesTyped'
    /\ \A u \in Tasks : tcp_writing'[u] = tcp_writing[u]
    /\ \A u \in Tasks : u # t => /\ Line(u)' = Line(u)
                                 /\ tcp_queue'[u] = tcp_queue[u] /\ tcp_waiting'[u] = tcp_waiting[u]
    /\ Distinct(Line(t)')
    /\ \A g : Has(Line(t)', g) <=> Has(Line(t), g) \/ g = f

\* A frame that is sent is queued, or waits for a place.
LEMMA JoinsQueue ==
    ASSUME LinesTyped, OnceInv, NEW f \in Frames, NEW t \in Tasks, ~Held(t, f),
           UNCHANGED tcp_writing,
           \/ tcp_queue' = [tcp_queue EXCEPT ![t] = Append(@, f)] /\ UNCHANGED tcp_waiting
           \/ tcp_waiting' = [tcp_waiting EXCEPT ![t] = Append(@, f)] /\ UNCHANGED tcp_queue
    PROVE  Joins(f, t)
<1>1. PICK q \in Seq(Frames) : q = tcp_queue[t]
    BY DEF LinesTyped
<1>2. PICK w \in Seq(Frames) : w = tcp_waiting[t]
    BY DEF LinesTyped
<1>3. Distinct(q \o w) /\ ~Has(q \o w, f)
    BY <1>1, <1>2 DEF OnceInv, Held, Line
<1>4. PICK a : a = Append(q, f)
    OBVIOUS
<1>5. PICK b : b = Append(w, f)
    OBVIOUS
<1>6. /\ a \in Seq(Frames) /\ b \in Seq(Frames)
      /\ Distinct(a \o w) /\ Distinct(q \o b)
      /\ \A g : Has(a \o w, g) <=> Has(q \o w, g) \/ g = f
      /\ \A g : Has(q \o b, g) <=> Has(q \o w, g) \/ g = f
    BY <1>3, <1>4, <1>5, LineJoined
<1>7. CASE tcp_queue' = [tcp_queue EXCEPT ![t] = Append(@, f)] /\ UNCHANGED tcp_waiting
    <2>1. tcp_queue' = [tcp_queue EXCEPT ![t] = a]
        BY <1>1, <1>4, <1>7
    <2>2. LinesTyped' /\ tcp_queue'[t] = a /\ tcp_waiting'[t] = w
        BY <1>2, <1>6, <1>7, <2>1 DEF LinesTyped
    <2>3. \A u \in Tasks : u # t => tcp_queue'[u] = tcp_queue[u] /\ tcp_waiting'[u] = tcp_waiting[u]
        BY <1>7, <2>1 DEF LinesTyped
    <2>4. Line(t)' = a \o w /\ Line(t) = q \o w
        BY <1>1, <1>2, <2>2 DEF Line
    <2>5. \A u \in Tasks : u # t => Line(u)' = Line(u)
        BY <2>3 DEF Line
    <2> QED
        BY <1>6, <2>2, <2>3, <2>4, <2>5 DEF Joins
<1>8. CASE tcp_waiting' = [tcp_waiting EXCEPT ![t] = Append(@, f)] /\ UNCHANGED tcp_queue
    <2>1. tcp_waiting' = [tcp_waiting EXCEPT ![t] = b]
        BY <1>2, <1>5, <1>8
    <2>2. LinesTyped' /\ tcp_queue'[t] = q /\ tcp_waiting'[t] = b
        BY <1>1, <1>6, <1>8, <2>1 DEF LinesTyped
    <2>3. \A u \in Tasks : u # t => tcp_queue'[u] = tcp_queue[u] /\ tcp_waiting'[u] = tcp_waiting[u]
        BY <1>8, <2>1 DEF LinesTyped
    <2>4. Line(t)' = q \o b /\ Line(t) = q \o w
        BY <1>1, <1>2, <2>2 DEF Line
    <2>5. \A u \in Tasks : u # t => Line(u)' = Line(u)
        BY <2>3 DEF Line
    <2> QED
        BY <1>6, <2>2, <2>3, <2>4, <2>5 DEF Joins
<1> QED
    BY <1>7, <1>8

\* The frame was nowhere before.
LEMMA JoinsStep ==
    ASSUME FramesInv, NEW f \in Frames, NEW t \in Tasks, tcp_answer[f] = "New",
           Routed(t), Joins(f, t), UNCHANGED tcp_written,
           \/ tcp_answer' = [tcp_answer EXCEPT ![f] = "Awaited"]
           \/ tcp_answer' = [tcp_answer EXCEPT ![f] = "Queued"]
    PROVE  FramesInv'
<1>1. /\ tcp_answer' \in [Frames -> Answers] /\ tcp_answer'[f] \in {"Awaited", "Queued"}
      /\ \A g \in Frames : g # f => tcp_answer'[g] = tcp_answer[g]
    BY DEF FramesInv, AnswersInv, Answers
<1>2. \A u \in Tasks : ~Held(u, f)
    BY DEF FramesInv, AnswersInv
<1>3. \A u \in Tasks : \A g : Held(u, g)' <=> Held(u, g) \/ (u = t /\ g = f)
    BY DEF Joins, Held
<1>4. LinesTyped'
    BY DEF Joins
<1>5. IdleInv'
    BY DEF FramesInv, IdleInv, Joins, Routed
<1>6. \A u \in Tasks : Distinct(Line(u)') /\ ~Has(Line(u)', tcp_writing'[u])
    BY <1>2 DEF FramesInv, OnceInv, Joins, Held
<1>7. \A u, v \in Tasks : \A g \in Frames : Held(u, g)' /\ Held(v, g)' => u = v
    BY <1>2, <1>3 DEF FramesInv, OnceInv
<1>8. OnceInv'
    BY <1>6, <1>7 DEF OnceInv
<1>9. AnswersInv'
    BY <1>1, <1>2, <1>3 DEF FramesInv, AnswersInv
<1> QED
    BY <1>4, <1>5, <1>8, <1>9 DEF FramesInv

\* send_owned: the frame is with the route's task, or it is refused.
LEMMA SendStep ==
    ASSUME RoutesInv, FramesInv, NEW f \in Frames, NEW p \in Tcp!Peers, Tcp!send_owned(f, p)
    PROVE  RoutesInv' /\ FramesInv'
<1>0. tcp_answer[f] = "New" /\ UNCHANGED <<tcp_writing, tcp_written>>
    BY DEF Tcp!send_owned
<1>1. ASSUME NEW t \in Tasks, Tcp!route(p, t), tcp_answer' = [tcp_answer EXCEPT ![f] = "Awaited"],
             \/ tcp_queue' = [tcp_queue EXCEPT ![t] = Append(@, f)] /\ UNCHANGED tcp_waiting
             \/ tcp_waiting' = [tcp_waiting EXCEPT ![t] = Append(@, f)] /\ UNCHANGED tcp_queue
      PROVE  RoutesInv' /\ FramesInv'
    <2>1. Routed(t)
        BY <1>1, RouteStep
    <2>2. ~Held(t, f)
        BY <1>0 DEF FramesInv, AnswersInv
    <2>3. Joins(f, t)
        BY <1>0, <1>1, <2>2, JoinsQueue DEF FramesInv
    <2>4. FramesInv'
        BY <1>0, <1>1, <2>1, <2>3, JoinsStep
    <2> QED
        BY <2>1, <2>4 DEF Routed
<1>2. ASSUME Tcp!no_route(p), tcp_answer' = [tcp_answer EXCEPT ![f] = "Failed"],
             UNCHANGED <<tcp_stage, tcp_queue, tcp_waiting>>
      PROVE  RoutesInv' /\ FramesInv'
    BY <1>0, <1>2, NoRouteStep, RefusedStep
<1> QED
    BY <1>1, <1>2 DEF Tcp!send_owned

\* enqueue_owned: the same, without a wait.
LEMMA EnqueueStep ==
    ASSUME RoutesInv, FramesInv, NEW f \in Frames, NEW p \in Tcp!Peers, Tcp!enqueue_owned(f, p)
    PROVE  RoutesInv' /\ FramesInv'
<1>0. tcp_answer[f] = "New" /\ UNCHANGED <<tcp_waiting, tcp_writing, tcp_written>>
    BY DEF Tcp!enqueue_owned
<1>1. ASSUME NEW t \in Tasks, Tcp!route(p, t), tcp_answer' = [tcp_answer EXCEPT ![f] = "Queued"],
             tcp_queue' = [tcp_queue EXCEPT ![t] = Append(@, f)]
      PROVE  RoutesInv' /\ FramesInv'
    <2>1. Routed(t)
        BY <1>1, RouteStep
    <2>2. ~Held(t, f)
        BY <1>0 DEF FramesInv, AnswersInv
    <2>3. Joins(f, t)
        BY <1>0, <1>1, <2>2, JoinsQueue DEF FramesInv
    <2>4. FramesInv'
        BY <1>0, <1>1, <2>1, <2>3, JoinsStep
    <2> QED
        BY <2>1, <2>4 DEF Routed
<1>2. ASSUME NEW t \in Tasks, Tcp!route(p, t), tcp_answer' = [tcp_answer EXCEPT ![f] = "Failed"],
             UNCHANGED tcp_queue
      PROVE  RoutesInv' /\ FramesInv'
    <2>1. Routed(t)
        BY <1>2, RouteStep
    <2>2. RoutesInv' /\ \A u \in Tasks : tcp_stage[u] \in Tcp!Open => tcp_stage'[u] \in Tcp!Open
        BY <2>1 DEF Routed
    <2> QED
        BY <1>0, <1>2, <2>2, RefusedStep
<1>3. ASSUME Tcp!no_route(p), tcp_answer' = [tcp_answer EXCEPT ![f] = "Failed"],
             UNCHANGED <<tcp_stage, tcp_queue>>
      PROVE  RoutesInv' /\ FramesInv'
    BY <1>0, <1>3, NoRouteStep, RefusedStep
<1> QED
    BY <1>1, <1>2, <1>3 DEF Tcp!enqueue_owned

\* What is held is held still, apart from some frames; nothing is held twice.
Leaves(f) ==
    /\ LinesTyped'
    /\ \A u \in Tasks : Distinct(Line(u)') /\ ~Has(Line(u)', tcp_writing'[u])
    /\ \A u \in Tasks : \A g \in Frames : Held(u, g)' <=> Held(u, g) /\ g # f

\* cancel takes the frame out of the line before the queue.
LEMMA CancelLeaves ==
    ASSUME FramesInv, NEW f \in Frames, NEW t \in Tasks, Tcp!Contains(tcp_waiting[t], f),
           tcp_waiting' = [u \in Tasks |-> Tcp!Retain(tcp_waiting[u], Frames \ {f})],
           UNCHANGED <<tcp_queue, tcp_writing>>
    PROVE  Leaves(f)
<1>1. ASSUME NEW u \in Tasks
      PROVE  /\ tcp_waiting'[u] \in Seq(Frames)
             /\ Distinct(Line(u)')
             /\ \A g : Has(Line(u)', g) <=> Has(tcp_queue[u], g) \/ (Has(tcp_waiting[u], g) /\ g \in Frames \ {f})
    <2>1. PICK w \in Seq(Frames) : w = tcp_waiting[u]
        BY DEF FramesInv, LinesTyped
    <2>2. PICK q \in Seq(Frames) : q = tcp_queue[u]
        BY DEF FramesInv, LinesTyped
    <2>3. PICK T : T = Frames \ {f}
        OBVIOUS
    <2>4. PICK r : r = Retain(w, T)
        OBVIOUS
    <2>5. r = tcp_waiting'[u]
        BY <2>1, <2>3, <2>4, SameLists
    <2>6. r \in Seq(Frames) /\ (\A g : Has(r, g) <=> Has(w, g) /\ g \in T) /\ (Distinct(w) => Distinct(r))
        BY <2>4, HasRetained
    <2>7. Distinct(q) /\ Distinct(w) /\ \A g : ~(Has(q, g) /\ Has(w, g))
        BY <2>1, <2>2, HasJoined DEF FramesInv, OnceInv, Line
    <2>8. Distinct(q \o r) /\ \A g : Has(q \o r, g) <=> Has(q, g) \/ Has(r, g)
        BY <2>6, <2>7, HasJoined
    <2>9. Line(u)' = q \o r
        BY <2>2, <2>5 DEF Line
    <2> QED
        BY <2>1, <2>2, <2>3, <2>5, <2>6, <2>8, <2>9
<1>2. \A u \in Tasks : \A g : Has(Line(u), g) <=> Has(tcp_queue[u], g) \/ Has(tcp_waiting[u], g)
    BY LinesAre DEF FramesInv
<1>3. Has(tcp_waiting[t], f)
    <2>1. PICK w \in Seq(Frames) : w = tcp_waiting[t]
        BY DEF FramesInv, LinesTyped
    <2> QED
        BY <2>1, SameLists
<1>4. ~Has(tcp_queue[t], f)
    <2>1. PICK w \in Seq(Frames) : w = tcp_waiting[t]
        BY DEF FramesInv, LinesTyped
    <2>2. PICK q \in Seq(Frames) : q = tcp_queue[t]
        BY DEF FramesInv, LinesTyped
    <2>3. \A g : ~(Has(q, g) /\ Has(w, g))
        BY <2>1, <2>2, HasJoined DEF FramesInv, OnceInv, Line
    <2> QED
        BY <1>3, <2>1, <2>2, <2>3
<1>5. Held(t, f) /\ tcp_writing[t] # f
    BY <1>2, <1>3 DEF FramesInv, OnceInv, Held
<1>6. \A u \in Tasks : tcp_writing[u] # f /\ ~Has(tcp_queue[u], f)
    BY <1>2, <1>4, <1>5 DEF FramesInv, OnceInv, Held
<1>7. \A u \in Tasks : \A g : Has(Line(u)', g) => Has(Line(u), g)
    BY <1>1, <1>2
<1>8. \A u \in Tasks : \A g \in Frames : Has(Line(u)', g) <=> Has(Line(u), g) /\ g # f
    BY <1>1, <1>2, <1>6
<1>9. LinesTyped'
    BY <1>1 DEF FramesInv, LinesTyped
<1>10. \A u \in Tasks : Distinct(Line(u)') /\ ~Has(Line(u)', tcp_writing'[u])
    BY <1>1, <1>7 DEF FramesInv, OnceInv
<1>11. \A u \in Tasks : \A g \in Frames : Held(u, g)' <=> Held(u, g) /\ g # f
    BY <1>6, <1>8 DEF Held
<1> QED
    BY <1>9, <1>10, <1>11 DEF Leaves

\* The answer to a frame that leaves is final.
LEMMA LeavesStep ==
    ASSUME FramesInv, IdleInv', NEW f \in Frames, Leaves(f),
           tcp_answer' \in [Frames -> Answers], tcp_written' \subseteq Frames,
           \A g \in Frames : g # f => /\ tcp_answer'[g] = tcp_answer[g]
                                      /\ g \in tcp_written' <=> g \in tcp_written,
           tcp_answer'[f] \notin {"New", "Awaited", "Failed"},
           tcp_answer'[f] = "Withdrawn" => f \notin tcp_written',
           tcp_answer'[f] = "Ok" => f \in tcp_written'
    PROVE  FramesInv'
<1>1. OnceInv'
    BY DEF FramesInv, OnceInv, Leaves
<1>2. AnswersInv'
    BY DEF FramesInv, AnswersInv, Leaves
<1> QED
    BY <1>1, <1>2 DEF FramesInv, Leaves

\* cancel: the sender of a frame that is queued already learns no more.
LEMMA CancelStep ==
    ASSUME FramesInv, NEW f \in Frames, Tcp!cancel(f)
    PROVE  FramesInv'
<1>1. tcp_answer[f] = "Awaited" /\ UNCHANGED <<tcp_stage, tcp_queue, tcp_writing, tcp_written>>
    BY DEF Tcp!cancel
<1>2. CASE \E t \in Tasks : Tcp!Contains(tcp_waiting[t], f)
    <2>1. PICK t \in Tasks : Tcp!Contains(tcp_waiting[t], f)
        BY <1>2
    <2>2. /\ tcp_waiting' = [u \in Tasks |-> Tcp!Retain(tcp_waiting[u], Frames \ {f})]
          /\ tcp_answer' = [tcp_answer EXCEPT ![f] = "Withdrawn"]
        BY <1>2 DEF Tcp!cancel
    <2>3. Leaves(f)
        BY <1>1, <2>1, <2>2, CancelLeaves
    <2>4. /\ tcp_answer' \in [Frames -> Answers] /\ tcp_answer'[f] = "Withdrawn"
          /\ \A g \in Frames : g # f => tcp_answer'[g] = tcp_answer[g]
        BY <2>2 DEF FramesInv, AnswersInv, Answers
    <2>5. f \notin tcp_written
        BY <1>1 DEF FramesInv, AnswersInv
    <2>6. IdleInv'
        <3>1. \A u \in Tasks : tcp_waiting[u] = <<>> => tcp_waiting'[u] = <<>>
            <4> SUFFICES ASSUME NEW u \in Tasks, tcp_waiting[u] = <<>> PROVE tcp_waiting'[u] = <<>>
                OBVIOUS
            <4>1. PICK w \in Seq(Frames) : w = tcp_waiting[u]
                BY DEF FramesInv, LinesTyped
            <4>2. PICK T : T = Frames \ {f}
                OBVIOUS
            <4>3. PICK r : r = Retain(w, T)
                OBVIOUS
            <4>4. r = tcp_waiting'[u]
                BY <2>2, <4>1, <4>2, <4>3, SameLists
            <4>5. r \in Seq(Frames) /\ \A g : Has(r, g) => Has(w, g)
                BY <4>3, HasRetained
            <4>6. \A i \in DOMAIN r : FALSE
                BY <4>1, <4>5 DEF Has
            <4>7. r # <<>> => 1 \in DOMAIN r
                BY <4>5, EmptySeq
            <4> QED
                BY <4>4, <4>6, <4>7
        <3> QED
            BY <1>1, <3>1 DEF FramesInv, IdleInv
    <2> QED
        BY <1>1, <2>3, <2>4, <2>5, <2>6, LeavesStep DEF FramesInv, AnswersInv
<1>3. CASE ~\E t \in Tasks : Tcp!Contains(tcp_waiting[t], f)
    <2>1. tcp_answer' = [tcp_answer EXCEPT ![f] = "Queued"] /\ UNCHANGED tcp_waiting
        BY <1>3 DEF Tcp!cancel
    <2>2. /\ tcp_answer' \in [Frames -> Answers] /\ tcp_answer'[f] = "Queued"
          /\ \A g \in Frames : g # f => tcp_answer'[g] = tcp_answer[g]
        BY <2>1 DEF FramesInv, AnswersInv, Answers
    <2>3. LinesTyped' /\ IdleInv' /\ OnceInv'
        BY <1>1, <2>1 DEF FramesInv, LinesTyped, IdleInv, OnceInv, Held, Line
    <2>4. \A u \in Tasks : \A g : Held(u, g)' <=> Held(u, g)
        BY <1>1, <2>1 DEF Held, Line
    <2>5. AnswersInv'
        BY <1>1, <2>2, <2>4 DEF FramesInv, AnswersInv
    <2> QED
        BY <2>3, <2>5 DEF FramesInv
<1> QED
    BY <1>2, <1>3

\* The first in the line leaves it, and the first that waits moves up.
LEMMA LineMoved ==
    ASSUME NEW q \in Seq(Frames), NEW w \in Seq(Frames), q # <<>>, Distinct(q \o w)
    PROVE  /\ Head(q) \in Frames
           /\ Tail(q) \o Tcp!First(w) \in Seq(Frames) /\ SubSeq(w, 2, Len(w)) \in Seq(Frames)
           /\ Distinct((Tail(q) \o Tcp!First(w)) \o SubSeq(w, 2, Len(w)))
           /\ ~Has((Tail(q) \o Tcp!First(w)) \o SubSeq(w, 2, Len(w)), Head(q))
           /\ \A g : Has(q \o w, g) <=>
                  g = Head(q) \/ Has((Tail(q) \o Tcp!First(w)) \o SubSeq(w, 2, Len(w)), g)
<1>1. /\ Distinct(q) /\ Distinct(w) /\ \A e : ~(Has(q, e) /\ Has(w, e))
      /\ \A e : Has(q \o w, e) <=> Has(q, e) \/ Has(w, e)
    BY HasJoined
<1>2. PICK h : h = Head(q)
    OBVIOUS
<1>3. PICK a : a = Tail(q)
    OBVIOUS
<1>4. /\ h \in Frames /\ a \in Seq(Frames) /\ Distinct(a) /\ ~Has(a, h)
      /\ \A e : Has(q, e) <=> e = h \/ Has(a, e)
    BY <1>1, <1>2, <1>3, HasTail
<1>5. PICK b : b = Tcp!First(w)
    OBVIOUS
<1>6. PICK c : c = SubSeq(w, 2, Len(w))
    OBVIOUS
<1>7. /\ b \in Seq(Frames) /\ c \in Seq(Frames) /\ Distinct(b) /\ Distinct(c)
      /\ \A e : Has(w, e) <=> Has(b, e) \/ Has(c, e)
      /\ \A e : ~(Has(b, e) /\ Has(c, e))
    <2>1. CASE w = <<>>
        <3>1. b = <<>> /\ c = <<>>
            BY <1>5, <1>6, <2>1 DEF Tcp!First
        <3> QED
            BY <2>1, <3>1 DEF Has, Distinct
    <2>2. CASE w # <<>>
        <3>1. PICK v : v = Tail(w)
            OBVIOUS
        <3>2. PICK x : x = Head(w)
            OBVIOUS
        <3>3. /\ x \in Frames /\ v \in Seq(Frames) /\ Distinct(v) /\ ~Has(v, x)
              /\ \A e : Has(w, e) <=> e = x \/ Has(v, e)
            BY <1>1, <2>2, <3>1, <3>2, HasTail
        <3>4. b = <<x>>
            BY <1>5, <2>2, <3>2 DEF Tcp!First
        <3>5. c = v
            BY <1>6, <2>2, <3>1
        <3>6. b \in Seq(Frames) /\ Distinct(b) /\ \A e : Has(b, e) <=> e = x
            BY <3>3, <3>4 DEF Has, Distinct
        <3> QED
            BY <3>3, <3>5, <3>6
    <2> QED
        BY <2>1, <2>2
<1>8. PICK d : d = a \o b
    OBVIOUS
<1>9. d \in Seq(Frames) /\ Distinct(d) /\ \A e : Has(d, e) <=> Has(a, e) \/ Has(b, e)
    BY <1>1, <1>4, <1>7, <1>8, HasJoined
<1>10. Distinct(d \o c) /\ \A e : Has(d \o c, e) <=> Has(d, e) \/ Has(c, e)
    BY <1>1, <1>4, <1>7, <1>9, HasJoined
<1>11. PICK l : l = d \o c
    OBVIOUS
<1>12. Distinct(l) /\ ~Has(l, h) /\ \A e : Has(q \o w, e) <=> e = h \/ Has(l, e)
    BY <1>1, <1>4, <1>7, <1>9, <1>10, <1>11
<1> QED
    BY <1>2, <1>3, <1>4, <1>5, <1>6, <1>7, <1>8, <1>9, <1>11, <1>12

\* take: the frame that is written next was the first in the line.
LEMMA TakeStep ==
    ASSUME FramesInv, NEW t \in Tasks, Tcp!take(t)
    PROVE  FramesInv'
<1>1. /\ tcp_stage[t] = "Running" /\ tcp_writing[t] = None /\ tcp_queue[t] # <<>>
      /\ UNCHANGED <<tcp_stage, tcp_answer, tcp_written>>
    BY DEF Tcp!take
<1>2. PICK q \in Seq(Frames) : q = tcp_queue[t]
    BY DEF FramesInv, LinesTyped
<1>3. PICK w \in Seq(Frames) : w = tcp_waiting[t]
    BY DEF FramesInv, LinesTyped
<1>4. PICK h : h = Head(q)
    OBVIOUS
<1>5. PICK a : a = Tail(q) \o Tcp!First(w)
    OBVIOUS
<1>6. PICK b : b = SubSeq(w, 2, Len(w))
    OBVIOUS
<1>7. Distinct(q \o w)
    BY <1>2, <1>3 DEF FramesInv, OnceInv, Line
<1>8. /\ h \in Frames /\ a \in Seq(Frames) /\ b \in Seq(Frames)
      /\ Distinct(a \o b) /\ ~Has(a \o b, h)
      /\ \A g : Has(q \o w, g) <=> g = h \/ Has(a \o b, g)
    BY <1>1, <1>2, <1>4, <1>5, <1>6, <1>7, LineMoved
<1>9. /\ tcp_writing' = [tcp_writing EXCEPT ![t] = h]
      /\ tcp_queue' = [tcp_queue EXCEPT ![t] = a]
      /\ tcp_waiting' = [tcp_waiting EXCEPT ![t] = b]
    BY <1>2, <1>3, <1>4, <1>5, <1>6 DEF Tcp!take
<1>10. /\ LinesTyped' /\ tcp_writing'[t] = h /\ tcp_queue'[t] = a /\ tcp_waiting'[t] = b
       /\ \A u \in Tasks : u # t => /\ tcp_writing'[u] = tcp_writing[u]
                                    /\ tcp_queue'[u] = tcp_queue[u]
                                    /\ tcp_waiting'[u] = tcp_waiting[u]
    BY <1>8, <1>9 DEF FramesInv, LinesTyped
<1>11. /\ Line(t) = q \o w /\ Line(t)' = a \o b
       /\ \A u \in Tasks : u # t => Line(u)' = Line(u)
    BY <1>2, <1>3, <1>10 DEF Line
<1>12. \A u \in Tasks : \A g \in Frames : Held(u, g)' <=> Held(u, g)
    <2>1. None \notin Frames
        BY LionAssumption
    <2> QED
        BY <1>1, <1>8, <1>10, <1>11, <2>1 DEF Held
<1>13. \A u \in Tasks : Distinct(Line(u)') /\ ~Has(Line(u)', tcp_writing'[u])
    BY <1>8, <1>10, <1>11 DEF FramesInv, OnceInv
<1>14. OnceInv'
    BY <1>12, <1>13 DEF FramesInv, OnceInv
<1>15. AnswersInv'
    BY <1>1, <1>12 DEF FramesInv, AnswersInv
<1>16. IdleInv'
    BY <1>1, <1>10 DEF FramesInv, IdleInv, Tcp!Open
<1> QED
    BY <1>10, <1>14, <1>15, <1>16 DEF FramesInv

\* write_frame: the frame leaves its task when it is written.
LEMMA WriteStep ==
    ASSUME FramesInv, NEW t \in Tasks, Tcp!write_frame(t)
    PROVE  FramesInv'
<1>1. PICK f : f = tcp_writing[t]
    OBVIOUS
<1>2. f \in Frames /\ Held(t, f) /\ tcp_stage[t] = "Running"
    BY <1>1 DEF FramesInv, LinesTyped, Tcp!write_frame, Held
<1>3. tcp_answer[f] \in {"Awaited", "Queued"}
    BY <1>2 DEF FramesInv, AnswersInv
<1>4. /\ tcp_written' = tcp_written \cup {f}
      /\ tcp_answer' = [tcp_answer EXCEPT ![f] = IF @ = "Awaited" THEN "Ok" ELSE @]
      /\ tcp_writing' = [tcp_writing EXCEPT ![t] = None]
      /\ UNCHANGED <<tcp_stage, tcp_queue, tcp_waiting>>
    BY <1>1 DEF Tcp!write_frame
<1>5. /\ LinesTyped' /\ tcp_writing'[t] = None
      /\ \A u \in Tasks : u # t => tcp_writing'[u] = tcp_writing[u]
    BY <1>4 DEF FramesInv, LinesTyped
<1>6. \A u \in Tasks : Line(u)' = Line(u)
    BY <1>4 DEF Line
<1>7. Leaves(f)
    <2>1. None \notin Frames
        BY LionAssumption
    <2>2. \A u \in Tasks : \A g : Has(Line(u), g) => g \in Frames
        BY LinesAre DEF FramesInv
    <2>3. \A u \in Tasks : Distinct(Line(u)') /\ ~Has(Line(u)', tcp_writing'[u])
        BY <1>5, <1>6, <2>1, <2>2 DEF FramesInv, OnceInv
    <2>4. \A u \in Tasks : Held(u, f) => u = t
        BY <1>2 DEF FramesInv, OnceInv
    <2>5. ~Has(Line(t), f)
        BY <1>1 DEF FramesInv, OnceInv
    <2>6. \A u \in Tasks : \A g \in Frames : Held(u, g)' <=> Held(u, g) /\ g # f
        BY <1>1, <1>5, <1>6, <2>1, <2>4, <2>5 DEF Held
    <2> QED
        BY <1>5, <2>3, <2>6 DEF Leaves
<1>8. IdleInv'
    BY <1>2, <1>4, <1>5 DEF FramesInv, IdleInv, Tcp!Open
<1>9. /\ tcp_answer' \in [Frames -> Answers] /\ tcp_answer'[f] \in {"Ok", "Queued"}
      /\ \A g \in Frames : g # f => tcp_answer'[g] = tcp_answer[g]
    BY <1>2, <1>3, <1>4 DEF FramesInv, AnswersInv, Answers
<1>10. /\ tcp_written' \subseteq Frames /\ f \in tcp_written'
       /\ \A g \in Frames : g # f => (g \in tcp_written' <=> g \in tcp_written)
    BY <1>2, <1>4 DEF FramesInv, AnswersInv
<1> QED
    BY <1>2, <1>7, <1>8, <1>9, <1>10, LeavesStep

\* Close: what the task held is lost or broken, and who waits for it is told.
LEMMA CloseStep ==
    ASSUME RoutesInv, FramesInv, NEW t \in Tasks, Tcp!Close(t)
    PROVE  RoutesInv' /\ FramesInv'
<1>1. /\ RoutesInv' /\ tcp_stage'[t] \notin Tcp!Open
      /\ \A u \in Tasks : u # t => tcp_stage'[u] = tcp_stage[u]
    BY ClosedStep
<1>2. /\ tcp_queue' = [tcp_queue EXCEPT ![t] = <<>>]
      /\ tcp_waiting' = [tcp_waiting EXCEPT ![t] = <<>>]
      /\ tcp_writing' = [tcp_writing EXCEPT ![t] = None]
    BY DEF Tcp!Close, Tcp!fail_queued
<1>3. /\ LinesTyped'
      /\ tcp_queue'[t] = <<>> /\ tcp_waiting'[t] = <<>> /\ tcp_writing'[t] = None
      /\ \A u \in Tasks : u # t => /\ tcp_writing'[u] = tcp_writing[u]
                                   /\ tcp_queue'[u] = tcp_queue[u]
                                   /\ tcp_waiting'[u] = tcp_waiting[u]
    BY <1>2 DEF FramesInv, LinesTyped
<1>4. Line(t)' = <<>> /\ \A u \in Tasks : u # t => Line(u)' = Line(u)
    <2>1. <<>> \o <<>> = <<>>
        BY EmptySeq, ConcatEmptySeq
    <2> QED
        BY <1>3, <2>1 DEF Line
<1>5. Distinct(<<>>) /\ \A g : ~Has(<<>>, g)
    BY DEF Distinct, Has
<1>6. None \notin Frames
    BY LionAssumption
<1>7. \A u \in Tasks : \A g \in Frames : Held(u, g)' <=> Held(u, g) /\ u # t
    BY <1>3, <1>4, <1>5, <1>6 DEF Held
<1>8. OnceInv'
    <2>1. \A u \in Tasks : Distinct(Line(u)') /\ ~Has(Line(u)', tcp_writing'[u])
        BY <1>3, <1>4, <1>5 DEF FramesInv, OnceInv
    <2> QED
        BY <1>7, <2>1 DEF FramesInv, OnceInv
<1>9. IdleInv'
    BY <1>1, <1>3 DEF FramesInv, IdleInv
<1>10. \A g : Tcp!Contains(tcp_queue[t] \o tcp_waiting[t], g) <=> Has(Line(t), g)
    <2>1. PICK s \in Seq(Frames) : s = Line(t)
        BY LinesAre DEF FramesInv
    <2> QED
        BY <2>1, SameLists DEF Line
<1>11. tcp_answer' = [g \in Frames |->
                        IF tcp_answer[g] # "Awaited" THEN tcp_answer[g]
                        ELSE IF g = tcp_writing[t] THEN "Broken"
                        ELSE IF Has(Line(t), g) THEN "Failed"
                        ELSE tcp_answer[g]]
    BY <1>10 DEF Tcp!Close, Tcp!fail_queued
<1>12. tcp_written' \subseteq Frames
    BY DEF Tcp!Close, FramesInv, LinesTyped, AnswersInv
<1>13. \A g \in Frames : /\ g \in tcp_written => g \in tcp_written'
                         /\ g \in tcp_written' => g \in tcp_written \/ g = tcp_writing[t]
    BY DEF Tcp!Close
<1>14. tcp_answer' \in [Frames -> Answers]
    BY <1>11 DEF FramesInv, AnswersInv, Answers
<1>15. ASSUME NEW g \in Frames
       PROVE  /\ tcp_answer'[g] = "Awaited" => \E u \in Tasks : Held(u, g)'
              /\ tcp_answer'[g] \in {"New", "Failed", "Withdrawn"} => g \notin tcp_written'
              /\ tcp_answer'[g] = "Ok" => g \in tcp_written'
              /\ \A u \in Tasks : Held(u, g)' =>
                    tcp_answer'[g] \in {"Awaited", "Queued"} /\ g \notin tcp_written'
    <2>1. CASE Held(t, g)
        <3>1. tcp_answer[g] \in {"Awaited", "Queued"} /\ g \notin tcp_written
            BY <2>1 DEF FramesInv, AnswersInv
        <3>2. \A u \in Tasks : ~(Held(u, g)')
            BY <1>7, <2>1 DEF FramesInv, OnceInv
        <3>3. \/ tcp_answer'[g] \in {"Queued", "Broken"}
              \/ tcp_answer'[g] = "Failed" /\ g # tcp_writing[t]
            BY <1>11, <2>1, <3>1 DEF Held
        <3> QED
            BY <1>13, <3>1, <3>2, <3>3
    <2>2. CASE ~Held(t, g)
        <3>1. tcp_answer'[g] = tcp_answer[g]
            BY <1>11, <2>2 DEF Held
        <3>2. g \in tcp_written' <=> g \in tcp_written
            BY <1>13, <2>2 DEF Held
        <3>3. \A u \in Tasks : Held(u, g)' <=> Held(u, g)
            BY <1>7, <2>2
        <3> QED
            BY <3>1, <3>2, <3>3 DEF FramesInv, AnswersInv
    <2> QED
        BY <2>1, <2>2
<1>16. AnswersInv'
    BY <1>12, <1>14, <1>15 DEF AnswersInv
<1> QED
    BY <1>1, <1>3, <1>8, <1>9, <1>16 DEF FramesInv

\* The other steps of the tasks, the accept loop and the owner.
LEMMA TaskStep ==
    ASSUME RoutesInv, FramesInv, NEW t \in Tasks, Tcp!Task(t)
    PROVE  RoutesInv' /\ FramesInv'
<1>1. ASSUME NEW p \in Tcp!Peers, Tcp!accept_connection(t, p) PROVE RoutesInv' /\ FramesInv'
    <2>1. \A u \in Tasks : tcp_stage[u] \in Tcp!Open => tcp_stage'[u] \in Tcp!Open
        BY <1>1 DEF Tcp!accept_connection, Tcp!Open, RoutesInv
    <2> QED
        BY <1>1, <2>1, AcceptedStep, StayStep DEF Tcp!accept_connection
<1>2. ASSUME Tcp!accept_failed(t) \/ Tcp!report(t) PROVE RoutesInv' /\ FramesInv'
    <2>1. /\ tcp_stage[t] \notin Tcp!Open /\ tcp_stage'[t] \notin Tcp!Open
          /\ tcp_stage' \in [Tasks -> Stages]
          /\ \A u \in Tasks : u # t => tcp_stage'[u] = tcp_stage[u]
          /\ UNCHANGED <<tcp_connections, tcp_queue, tcp_waiting, tcp_writing, tcp_answer, tcp_written>>
        BY <1>2 DEF Tcp!accept_failed, Tcp!report, Tcp!Open, RoutesInv, Stages
    <2>2. \A u \in Tasks : tcp_stage[u] \in Tcp!Open <=> tcp_stage'[u] \in Tcp!Open
        BY <2>1
    <2>3. RoutesInv'
        BY <2>1, <2>2 DEF RoutesInv
    <2> QED
        BY <2>1, <2>2, <2>3, StayStep
<1>3. ASSUME Tcp!connected(t) PROVE RoutesInv' /\ FramesInv'
    <2>1. /\ tcp_stage[t] \in Tcp!Open /\ tcp_stage'[t] \in Tcp!Open
          /\ tcp_stage' \in [Tasks -> Stages]
          /\ \A u \in Tasks : u # t => tcp_stage'[u] = tcp_stage[u]
          /\ UNCHANGED <<tcp_connections, tcp_queue, tcp_waiting, tcp_writing, tcp_answer, tcp_written>>
        BY <1>3 DEF Tcp!connected, Tcp!Open, RoutesInv, Stages
    <2>2. \A u \in Tasks : tcp_stage[u] \in Tcp!Open <=> tcp_stage'[u] \in Tcp!Open
        BY <2>1
    <2>3. RoutesInv'
        BY <2>1, <2>2 DEF RoutesInv
    <2> QED
        BY <2>1, <2>2, <2>3, StayStep
<1>4. ASSUME Tcp!connect_failed(t) \/ Tcp!write_failed(t) \/ Tcp!read_failed(t) \/ Tcp!run_stop(t)
      PROVE  RoutesInv' /\ FramesInv'
    <2>1. Tcp!Close(t)
        BY <1>4 DEF Tcp!connect_failed, Tcp!write_failed, Tcp!read_failed, Tcp!run_stop
    <2> QED
        BY <2>1, CloseStep
<1>5. ASSUME Tcp!take(t) \/ Tcp!write_frame(t) PROVE RoutesInv' /\ FramesInv'
    <2>1. RoutesInv'
        BY <1>5 DEF RoutesInv, Tcp!take, Tcp!write_frame
    <2> QED
        BY <1>5, <2>1, TakeStep, WriteStep
<1>6. ASSUME Tcp!read_frame(t) \/ Tcp!deliver(t) PROVE RoutesInv' /\ FramesInv'
    <2>1. UNCHANGED <<tcp_connections, tcp_stage, tcp_queue, tcp_waiting, tcp_writing, tcp_answer, tcp_written>>
        BY <1>6 DEF Tcp!read_frame, Tcp!deliver
    <2>2. RoutesInv'
        BY <2>1 DEF RoutesInv
    <2> QED
        BY <2>1, <2>2, StayStep
<1> QED
    BY <1>1, <1>2, <1>3, <1>4, <1>5, <1>6 DEF Tcp!Task

\* connect_members and accept begin connections.
LEMMA BeginStep ==
    ASSUME RoutesInv, FramesInv, (\E p \in Tcp!Peers : Tcp!connect_members(p)) \/ Tcp!accept
    PROVE  RoutesInv' /\ FramesInv'
<1>1. ASSUME NEW p \in Tcp!Peers, Tcp!connect_members(p) PROVE RoutesInv' /\ FramesInv'
    <2>1. PICK t \in Tasks : Tcp!route(p, t)
        BY <1>1 DEF Tcp!connect_members
    <2>2. Routed(t)
        BY <2>1, RouteStep
    <2>3. RoutesInv' /\ \A u \in Tasks : tcp_stage[u] \in Tcp!Open => tcp_stage'[u] \in Tcp!Open
        BY <2>2 DEF Routed
    <2> QED
        BY <1>1, <2>3, StayStep DEF Tcp!connect_members
<1>2. ASSUME Tcp!accept PROVE RoutesInv' /\ FramesInv'
    <2>1. /\ tcp_stage' \in [Tasks -> Stages]
          /\ \A u \in Tasks : tcp_stage[u] \in Tcp!Open <=> tcp_stage'[u] \in Tcp!Open
          /\ UNCHANGED <<tcp_connections, tcp_queue, tcp_waiting, tcp_writing, tcp_answer, tcp_written>>
        BY <1>2 DEF Tcp!accept, Tcp!Open, RoutesInv, Stages
    <2>2. RoutesInv'
        BY <2>1 DEF RoutesInv
    <2> QED
        BY <2>1, <2>2, StayStep
<1> QED
    BY <1>1, <1>2

\* Every step preserves the invariant of the connections.
LEMMA TcpStep == Tcp!IInv /\ [Tcp!Next]_(Tcp!vars) => Tcp!IInv'
<1> SUFFICES ASSUME RoutesInv, FramesInv, [Tcp!Next]_(Tcp!vars)
             PROVE  RoutesInv' /\ FramesInv'
    <2>1. Tcp!IInv <=> RoutesInv /\ FramesInv
        BY TcpInTerms DEF FramesInv
    <2>2. (Tcp!IInv <=> RoutesInv /\ FramesInv)'
        BY TcpInTerms, PTL DEF FramesInv
    <2> QED
        BY <2>1, <2>2
<1>1. ASSUME UNCHANGED <<tcp_connections, tcp_stage, tcp_queue, tcp_waiting, tcp_writing, tcp_answer, tcp_written>>
      PROVE  RoutesInv' /\ FramesInv'
    <2>1. RoutesInv'
        BY <1>1 DEF RoutesInv
    <2> QED
        BY <1>1, <2>1, StayStep
<1>2. ASSUME NEW f \in Frames, Tcp!cancel(f) PROVE RoutesInv' /\ FramesInv'
    <2>1. RoutesInv'
        BY <1>2 DEF RoutesInv, Tcp!cancel
    <2> QED
        BY <1>2, <2>1, CancelStep
<1>3. CASE UNCHANGED Tcp!vars
    BY <1>1, <1>3 DEF Tcp!vars
<1>4. CASE Tcp!recv \/ Tcp!drop \/ Tcp!accept_report \/ Tcp!accept_stop
    BY <1>1, <1>4 DEF Tcp!recv, Tcp!drop, Tcp!accept_report, Tcp!accept_stop
<1>5. CASE (\E p \in Tcp!Peers : Tcp!connect_members(p)) \/ Tcp!accept
    BY <1>5, BeginStep
<1>6. CASE \E f \in Frames : Tcp!cancel(f) \/ \E p \in Tcp!Peers : Tcp!send_owned(f, p) \/ Tcp!enqueue_owned(f, p)
    BY <1>2, <1>6, SendStep, EnqueueStep
<1>7. CASE \E t \in Tasks : Tcp!Task(t)
    BY <1>7, TaskStep
<1> QED
    BY <1>3, <1>4, <1>5, <1>6, <1>7 DEF Tcp!Next, Tcp!Owner

\* Nothing is connected at the start.
LEMMA TcpInit == Tcp!Init => Tcp!IInv
<1> SUFFICES ASSUME Tcp!Init PROVE RoutesInv /\ LinesTyped /\ IdleInv /\ OnceInv /\ AnswersInv
    BY TcpInTerms
<1>1. Distinct(<<>>) /\ (\A g : ~Has(<<>>, g)) /\ <<>> \in Seq(Tasks) /\ <<>> \in Seq(Frames)
    BY DEF Distinct, Has
<1>2. RoutesInv
    BY <1>1 DEF Tcp!Init, RoutesInv, Stages, Tcp!Open
<1>3. LinesTyped /\ IdleInv
    BY <1>1 DEF Tcp!Init, LinesTyped, IdleInv
<1>4. \A t \in Tasks : Line(t) = <<>> /\ tcp_writing[t] = None
    BY DEF Tcp!Init, Line
<1>5. None \notin Frames
    BY LionAssumption
<1>6. \A t \in Tasks : \A f \in Frames : ~Held(t, f)
    BY <1>1, <1>4, <1>5 DEF Held
<1>7. OnceInv
    BY <1>1, <1>4, <1>6 DEF OnceInv
<1>8. AnswersInv
    BY <1>6 DEF Tcp!Init, AnswersInv, Answers
<1> QED
    BY <1>2, <1>3, <1>7, <1>8

-----------------------------------------------------------------------------
(***************************************************************************)
(* UDP: the receiver's table, given the datagrams N that were sent.        *)
(***************************************************************************)
\* The specification's words for sizes are those used here.
LEMMA SameSizes ==
    /\ \A S : Udp!Cardinality(S) = Cardinality(S)
    /\ \A S : Udp!IsFiniteSet(S) <=> IsFiniteSet(S)
<1>1. \A S : Udp!Cardinality(S) = Cardinality(S)
    BY DEF Udp!Cardinality, Cardinality
<1>2. \A S : Udp!IsFiniteSet(S) <=> IsFiniteSet(S)
    BY DEF Udp!IsFiniteSet, IsFiniteSet
<1> QED
    BY <1>1, <1>2

Came(N, k, i, part, total) ==
    \E f \in N : /\ f.peer = k[1] /\ f.id = k[2]
                 /\ f.total = total /\ total > 1 /\ f.index = i /\ f.part = part

Shape(m) ==
    /\ m = [k \in DOMAIN m |-> [total |-> m[k].total, bytes |-> m[k].bytes, expires |-> m[k].expires]]
    /\ \A k \in DOMAIN m : m[k].expires \in Nat

Account(m, r) ==
    /\ IsFiniteSet(Udp!Places(m))
    /\ r = Cardinality(Udp!Places(m)) /\ r <= MaxReassemblyBytes

OfPeer(m, p) == {k \in DOMAIN m : k[1] = p}

Shares(m) ==
    \A p \in UdpPeers : IsFiniteSet(OfPeer(m, p)) /\ Cardinality(OfPeer(m, p)) <= MaxPeerReassemblies

Deadline(m, n) ==
    /\ n \in Nat \cup {-1}
    /\ DOMAIN m # {} => n # -1
    /\ \A k \in DOMAIN m : n <= m[k].expires

Contents(N, m) ==
    \A k \in DOMAIN m : \A i \in DOMAIN m[k].bytes : Came(N, k, i, m[k].bytes[i], m[k].total)

Table(N, m, r, n) == Shape(m) /\ Account(m, r) /\ Shares(m) /\ Deadline(m, n) /\ Contents(N, m)

\* The places of an assembly, and of all.
LEMMA PlacesAre ==
    ASSUME NEW m, NEW x
    PROVE  x \in Udp!Places(m) <=> \E k \in DOMAIN m : x \in {k} \X (1 .. m[k].total)
BY Zenon DEF Udp!Places

LEMMA PlacesOfOne ==
    ASSUME NEW k, NEW n \in Nat
    PROVE  IsFiniteSet({k} \X (1 .. n)) /\ Cardinality({k} \X (1 .. n)) = n
<1>1. IsFiniteSet({k}) /\ Cardinality({k}) = 1
    BY FS_Singleton
<1>2. IsFiniteSet(1 .. n) /\ Cardinality(1 .. n) = n
    BY IntervalCounted
<1>3. PICK A : A = {k}
    OBVIOUS
<1>4. PICK B : B = 1 .. n
    OBVIOUS
<1>5. IsFiniteSet(A \X B) /\ Cardinality(A \X B) = Cardinality(A) * Cardinality(B)
    BY <1>1, <1>2, <1>3, <1>4, FS_Product
<1>6. Cardinality(A) * Cardinality(B) = n
    BY <1>1, <1>2, <1>3, <1>4
<1> QED
    BY <1>3, <1>4, <1>5, <1>6

\* A part of a table has its share of the account, and keeps the rest.
LEMMA PartOfTable ==
    ASSUME NEW N, NEW m, NEW r, NEW l, NEW g,
           Shape(m), Account(m, r), Shares(m), Contents(N, m),
           DOMAIN l \subseteq DOMAIN m, DOMAIN g = DOMAIN m \ DOMAIN l,
           l = [k \in DOMAIN l |-> m[k]], g = [k \in DOMAIN g |-> m[k]]
    PROVE  Shape(l) /\ Account(l, r - Cardinality(Udp!Places(g))) /\ Shares(l) /\ Contents(N, l)
<1>1. (\A k \in DOMAIN l : l[k] = m[k] /\ k \in DOMAIN m) /\ (\A k \in DOMAIN g : g[k] = m[k])
    OBVIOUS
<1>2. Shape(l)
    <2>1. \A k \in DOMAIN m :
              m[k] = [total |-> m[k].total, bytes |-> m[k].bytes, expires |-> m[k].expires]
        BY Zenon DEF Shape
    <2>2. \A k \in DOMAIN l :
              l[k] = [total |-> l[k].total, bytes |-> l[k].bytes, expires |-> l[k].expires]
        BY <1>1, <2>1, Zenon
    <2>3. \A k \in DOMAIN l : l[k].expires \in Nat
        BY <1>1 DEF Shape
    <2>4. l = [k \in DOMAIN l |-> l[k]]
        BY <1>1
    <2>5. l = [k \in DOMAIN l |-> [total |-> l[k].total, bytes |-> l[k].bytes, expires |-> l[k].expires]]
        BY <2>2, <2>4
    <2> QED
        BY <2>3, <2>5 DEF Shape
<1>3. Contents(N, l)
    BY <1>1 DEF Contents
<1>4. Shares(l)
    <2> SUFFICES ASSUME NEW p \in UdpPeers
        PROVE  IsFiniteSet(OfPeer(l, p)) /\ Cardinality(OfPeer(l, p)) <= MaxPeerReassemblies
        BY DEF Shares
    <2>1. PICK A : A = OfPeer(m, p)
        OBVIOUS
    <2>2. PICK B \in SUBSET A : B = OfPeer(l, p)
        BY <1>1, <2>1 DEF OfPeer
    <2>3. IsFiniteSet(A) /\ Cardinality(A) <= MaxPeerReassemblies /\ MaxPeerReassemblies \in Nat
        BY <2>1, LionAssumption DEF Shares
    <2>4. IsFiniteSet(B) /\ Cardinality(B) <= Cardinality(A)
        BY <2>3, FS_Subset
    <2>5. Cardinality(A) \in Nat /\ Cardinality(B) \in Nat
        BY <2>3, <2>4, FS_CardinalityType
    <2> QED
        BY <2>2, <2>3, <2>4, <2>5
<1>5. Account(l, r - Cardinality(Udp!Places(g)))
    <2>1. PICK A : A = Udp!Places(m)
        OBVIOUS
    <2>2. \A k \in DOMAIN m : k \in DOMAIN l \/ k \in DOMAIN g
        BY Zenon
    <2>3. PICK B \in SUBSET A : B = Udp!Places(l)
        BY <1>1, <2>1, PlacesAre
    <2>4. PICK C \in SUBSET A : C = Udp!Places(g)
        BY <1>1, <2>1, PlacesAre
    <2>5. A = B \cup C
        BY <1>1, <2>1, <2>2, <2>3, <2>4, PlacesAre
    <2>6. B \cap C = {}
        <3> SUFFICES ASSUME NEW x, x \in B, x \in C PROVE FALSE
            OBVIOUS
        <3>1. PICK k \in DOMAIN l : x \in {k} \X (1 .. l[k].total)
            BY <2>3, PlacesAre
        <3>2. PICK j \in DOMAIN g : x \in {j} \X (1 .. g[j].total)
            BY <2>4, PlacesAre
        <3>3. k = x[1] /\ j = x[1]
            BY <3>1, <3>2
        <3> QED
            BY <3>3
    <2>7. IsFiniteSet(A) /\ r = Cardinality(A) /\ r <= MaxReassemblyBytes
        BY <2>1 DEF Account
    <2>8. IsFiniteSet(B) /\ IsFiniteSet(C)
        BY <2>7, FS_Subset
    <2>9. Cardinality(A) = Cardinality(B) + Cardinality(C)
        BY <2>5, <2>6, <2>8, DisjointCounted
    <2>10. Cardinality(B) \in Nat /\ Cardinality(C) \in Nat /\ MaxReassemblyBytes \in Nat
        BY <2>8, FS_CardinalityType, LionAssumption
    <2>11. r - Cardinality(C) = Cardinality(B) /\ Cardinality(B) <= MaxReassemblyBytes
        BY <2>7, <2>9, <2>10
    <2> QED
        BY <2>3, <2>4, <2>8, <2>11 DEF Account
<1> QED
    BY <1>2, <1>3, <1>4, <1>5

LEMMA LeastOf ==
    ASSUME NEW T, T \subseteq Nat, T # {}
    PROVE  Udp!Min(T) \in T /\ \A y \in T : Udp!Min(T) <= y
BY LeastExists DEF Udp!Min

\* What is due goes, with its part of the account.
LEMMA ExpiredTable ==
    ASSUME NEW N, Table(N, udp_messages, udp_retained_bytes, udp_next_expiry)
    PROVE  \E m, r, n : /\ Udp!Expired = [messages |-> m, retained |-> r, next |-> n]
                        /\ Table(N, m, r, n)
<1>1. CASE udp_next_expiry # 0
    BY <1>1 DEF Udp!Expired
<1>2. CASE udp_next_expiry = 0
    <2>1. PICK m : m = udp_messages
        OBVIOUS
    <2>2. PICK D \in SUBSET DOMAIN m : D = {k \in DOMAIN m : m[k].expires > 0}
        OBVIOUS
    <2>3. PICK l : l = [k \in D |-> m[k]]
        OBVIOUS
    <2>4. PICK g : g = [k \in DOMAIN m \ D |-> m[k]]
        OBVIOUS
    <2>5. PICK n : n = Udp!EarliestExpiry(l)
        OBVIOUS
    <2>6. DOMAIN l = D /\ DOMAIN g = DOMAIN m \ D
        BY <2>3, <2>4
    <2>7. /\ Udp!Restrict(udp_messages, {k \in DOMAIN udp_messages : udp_messages[k].expires > 0}) = l
          /\ Udp!Restrict(udp_messages, DOMAIN udp_messages \ DOMAIN l) = g
        BY <2>1, <2>2, <2>3, <2>4, <2>6 DEF Udp!Restrict
    <2>8. Udp!Expired = [messages |-> l, retained |-> udp_retained_bytes - Udp!BytesOf(g), next |-> n]
        BY <1>2, <2>5, <2>7 DEF Udp!Expired
    <2>9. Udp!BytesOf(g) = Cardinality(Udp!Places(g))
        BY SameSizes DEF Udp!BytesOf
    <2>10. /\ Shape(l) /\ Shares(l) /\ Contents(N, l)
           /\ Account(l, udp_retained_bytes - Cardinality(Udp!Places(g)))
        <3>1. Shape(m) /\ Account(m, udp_retained_bytes) /\ Shares(m) /\ Contents(N, m)
            BY <2>1 DEF Table
        <3>2. PICK r : r = udp_retained_bytes
            OBVIOUS
        <3>3. Shape(l) /\ Account(l, r - Cardinality(Udp!Places(g))) /\ Shares(l) /\ Contents(N, l)
            BY <2>3, <2>4, <2>6, <3>1, <3>2, PartOfTable
        <3> QED
            BY <3>2, <3>3
    <2>11. Deadline(l, n)
        <3>1. PICK T : T = {l[k].expires : k \in DOMAIN l}
            OBVIOUS
        <3>2. T \subseteq Nat
            BY <2>10, <3>1 DEF Shape
        <3>3. CASE DOMAIN l = {}
            BY <2>5, <3>3 DEF Udp!EarliestExpiry, Udp!NoDeadline, Deadline
        <3>4. CASE DOMAIN l # {}
            <4>1. T # {} /\ n = Udp!Min(T)
                BY <2>5, <3>1, <3>4 DEF Udp!EarliestExpiry
            <4>2. n \in T /\ \A y \in T : n <= y
                BY <3>2, <4>1, LeastOf
            <4>3. n \in Nat /\ \A k \in DOMAIN l : n <= l[k].expires
                BY <3>1, <3>2, <4>2
            <4> QED
                BY <4>3 DEF Deadline
        <3> QED
            BY <3>3, <3>4
    <2> QED
        BY <2>8, <2>9, <2>10, <2>11 DEF Table
<1> QED
    BY <1>1, <1>2

NextDeadline(n) == IF n = -1 THEN ReassemblyTimeout ELSE Udp!Min({n, ReassemblyTimeout})

\* A new assembly has its bytes reserved.
LEMMA OpenedTable ==
    ASSUME NEW N, NEW m, NEW r, NEW n, Table(N, m, r, n),
           NEW p \in UdpPeers, NEW id, NEW total \in Nat,
           <<p, id>> \notin DOMAIN m,
           r + total <= MaxReassemblyBytes, Cardinality(OfPeer(m, p)) < MaxPeerReassemblies,
           NEW a, a = [total |-> total, bytes |-> <<>>, expires |-> ReassemblyTimeout],
           NEW next, next = NextDeadline(n),
           NEW o, o = Udp!Insert(m, <<p, id>>, a)
    PROVE  /\ Table(N, o, r + total, next)
           /\ <<p, id>> \in DOMAIN o /\ o[<<p, id>>] = a
<1>1. PICK key : key = <<p, id>>
    OBVIOUS
<1>2. key \notin DOMAIN m /\ key[1] = p
    BY <1>1
<1>3. /\ DOMAIN o = DOMAIN m \cup {key} /\ o[key] = a
      /\ \A k \in DOMAIN m : o[k] = m[k]
      /\ o = [k \in DOMAIN o |-> o[k]]
    BY <1>1, <1>2 DEF Udp!Insert
<1>4. ReassemblyTimeout \in Nat /\ MaxReassemblyBytes \in Nat /\ MaxPeerReassemblies \in Nat
    BY LionAssumption
<1>5. Shape(o)
    <2>1. \A k \in DOMAIN m :
              m[k] = [total |-> m[k].total, bytes |-> m[k].bytes, expires |-> m[k].expires]
        BY Zenon DEF Table, Shape
    <2>2. a = [total |-> a.total, bytes |-> a.bytes, expires |-> a.expires] /\ a.expires \in Nat
        BY <1>4
    <2>3. \A k \in DOMAIN o :
              o[k] = [total |-> o[k].total, bytes |-> o[k].bytes, expires |-> o[k].expires]
        BY <1>3, <2>1, <2>2, Zenon
    <2>4. \A k \in DOMAIN o : o[k].expires \in Nat
        BY <1>3, <2>2 DEF Table, Shape
    <2>5. o = [k \in DOMAIN o |-> [total |-> o[k].total, bytes |-> o[k].bytes, expires |-> o[k].expires]]
        BY <1>3, <2>3
    <2> QED
        BY <2>4, <2>5 DEF Shape
<1>6. Account(o, r + total)
    <2>1. PICK A : A = Udp!Places(m)
        OBVIOUS
    <2>2. PICK B : B = {key} \X (1 .. total)
        OBVIOUS
    <2>3. PICK C : C = Udp!Places(o)
        OBVIOUS
    <2>4. C = A \cup B
        <3>1. \A x : x \in A <=> \E k \in DOMAIN m : x \in {k} \X (1 .. m[k].total)
            BY <2>1, PlacesAre
        <3>2. \A x : x \in C <=> \E k \in DOMAIN o : x \in {k} \X (1 .. o[k].total)
            BY <2>3, PlacesAre
        <3>3. o[key].total = total
            BY <1>3
        <3>4. \A x : x \in C <=> x \in A \/ x \in B
            BY <1>2, <1>3, <2>2, <3>1, <3>2, <3>3, Zenon
        <3> QED
            BY <3>4
    <2>5. A \cap B = {}
        <3> SUFFICES ASSUME NEW x, x \in A, x \in B PROVE FALSE
            OBVIOUS
        <3>1. PICK k \in DOMAIN m : x \in {k} \X (1 .. m[k].total)
            BY <2>1, PlacesAre
        <3>2. k = x[1] /\ key = x[1]
            BY <2>2, <3>1
        <3> QED
            BY <1>2, <3>2
    <2>6. IsFiniteSet(A) /\ r = Cardinality(A)
        BY <2>1 DEF Table, Account
    <2>7. IsFiniteSet(B) /\ Cardinality(B) = total
        BY <2>2, PlacesOfOne
    <2>8. IsFiniteSet(C) /\ Cardinality(C) = r + total
        BY <2>4, <2>5, <2>6, <2>7, DisjointCounted, FS_Union
    <2> QED
        BY <2>3, <2>8 DEF Account
<1>7. Shares(o)
    <2> SUFFICES ASSUME NEW q \in UdpPeers
        PROVE  IsFiniteSet(OfPeer(o, q)) /\ Cardinality(OfPeer(o, q)) <= MaxPeerReassemblies
        BY DEF Shares
    <2>1. PICK A : A = OfPeer(m, q)
        OBVIOUS
    <2>2. IsFiniteSet(A) /\ Cardinality(A) <= MaxPeerReassemblies /\ Cardinality(A) \in Nat
        BY <2>1, FS_CardinalityType DEF Table, Shares
    <2>3. CASE q = p
        <3>1. OfPeer(o, q) = A \cup {key} /\ key \notin A
            BY <1>2, <1>3, <2>1, <2>3 DEF OfPeer
        <3>2. PICK B : B = A \cup {key}
            OBVIOUS
        <3>3. IsFiniteSet(B) /\ Cardinality(B) = Cardinality(A) + 1
            BY <2>2, <3>1, <3>2, FS_AddElement
        <3>4. Cardinality(A) < MaxPeerReassemblies
            BY <2>1, <2>3
        <3>5. Cardinality(B) <= MaxPeerReassemblies
            BY <1>4, <2>2, <3>3, <3>4
        <3> QED
            BY <3>1, <3>2, <3>3, <3>5
    <2>4. CASE q # p
        <3>1. OfPeer(o, q) = A
            BY <1>2, <1>3, <2>1, <2>4 DEF OfPeer
        <3> QED
            BY <2>2, <3>1
    <2> QED
        BY <2>3, <2>4
<1>8. Deadline(o, next)
    <2>1. n \in Nat \cup {-1} /\ \A k \in DOMAIN m : n # -1 /\ n <= m[k].expires /\ m[k].expires \in Nat
        BY DEF Table, Deadline, Shape
    <2>2. next \in Nat /\ next <= ReassemblyTimeout /\ (n # -1 => next <= n)
        <3>1. CASE n = -1
            BY <1>4, <3>1 DEF NextDeadline
        <3>2. CASE n # -1
            <4>1. PICK T : T = {n, ReassemblyTimeout}
                OBVIOUS
            <4>2. T \subseteq Nat /\ T # {} /\ n \in T /\ ReassemblyTimeout \in T
                BY <1>4, <2>1, <3>2, <4>1
            <4>3. next = Udp!Min(T)
                BY <3>2, <4>1 DEF NextDeadline
            <4> QED
                BY <4>2, <4>3, LeastOf
        <3> QED
            BY <3>1, <3>2
    <2>3. \A k \in DOMAIN m : next <= m[k].expires
        BY <2>1, <2>2
    <2>4. o[key].expires = ReassemblyTimeout
        BY <1>3
    <2>5. \A k \in DOMAIN o : next <= o[k].expires
        BY <1>3, <2>2, <2>3, <2>4
    <2>6. next # -1
        BY <2>2
    <2> QED
        BY <2>2, <2>5, <2>6, Zenon DEF Deadline
<1>9. Contents(N, o)
    <2>1. \A i \in DOMAIN o[key].bytes : FALSE
        BY <1>3
    <2> QED
        BY <1>3, <2>1 DEF Table, Contents
<1> QED
    BY <1>1, <1>3, <1>5, <1>6, <1>7, <1>8, <1>9 DEF Table

\* A fragment in its place.
LEMMA CopiedTable ==
    ASSUME NEW N, NEW m, NEW r, NEW n, Table(N, m, r, n), NEW key \in DOMAIN m,
           NEW f \in N, f.peer = key[1], f.id = key[2], f.total = m[key].total, f.total > 1,
           NEW b, b = Udp!Insert(m[key].bytes, f.index, f.part),
           NEW o, o = [m EXCEPT ![key].bytes = b]
    PROVE  Table(N, o, r, n) /\ \A i \in DOMAIN b : Came(N, key, i, b[i], f.total)
<1>1. /\ DOMAIN b = DOMAIN m[key].bytes \cup {f.index} /\ b[f.index] = f.part
      /\ \A i \in DOMAIN m[key].bytes : i = f.index \/ b[i] = m[key].bytes[i]
    BY DEF Udp!Insert
<1>2. \A k \in DOMAIN m :
          m[k] = [total |-> m[k].total, bytes |-> m[k].bytes, expires |-> m[k].expires]
    BY Zenon DEF Table, Shape
<1>3. /\ DOMAIN o = DOMAIN m
      /\ o[key] = [total |-> m[key].total, bytes |-> b, expires |-> m[key].expires]
      /\ \A k \in DOMAIN m : k # key => o[k] = m[k]
      /\ o = [k \in DOMAIN o |-> o[k]]
    <2>1. PICK a : a = m[key]
        OBVIOUS
    <2>2. PICK e : e = [a EXCEPT !.bytes = b]
        OBVIOUS
    <2>5. a = [total |-> a.total, bytes |-> a.bytes, expires |-> a.expires]
        BY <1>2, <2>1, Zenon
    <2>6. PICK t : t = a.total
        OBVIOUS
    <2>7. PICK x : x = a.expires
        OBVIOUS
    <2>8. e = [total |-> t, bytes |-> b, expires |-> x]
        BY <2>2, <2>5, <2>6, <2>7
    <2>3. e = [total |-> m[key].total, bytes |-> b, expires |-> m[key].expires]
        BY <2>1, <2>6, <2>7, <2>8
    <2>4. o = [m EXCEPT ![key] = e]
        BY <2>1, <2>2
    <2> QED
        BY <2>3, <2>4
<1>4. \A k \in DOMAIN m : o[k].total = m[k].total /\ o[k].expires = m[k].expires
    <2>1. o[key].total = m[key].total /\ o[key].expires = m[key].expires
        BY <1>3
    <2> QED
        BY <1>3, <2>1, Zenon
<1>5. \A i \in DOMAIN b : Came(N, key, i, b[i], f.total)
    BY <1>1 DEF Table, Contents, Came
<1>6. Contents(N, o)
    BY <1>3, <1>5 DEF Table, Contents
<1>7. Shape(o)
    <2>1. o[key] = [total |-> o[key].total, bytes |-> o[key].bytes, expires |-> o[key].expires]
        BY <1>3
    <2>2. \A k \in DOMAIN o :
              o[k] = [total |-> o[k].total, bytes |-> o[k].bytes, expires |-> o[k].expires]
        BY <1>2, <1>3, <2>1, Zenon
    <2>3. o = [k \in DOMAIN o |-> [total |-> o[k].total, bytes |-> o[k].bytes, expires |-> o[k].expires]]
        BY <1>3, <2>2
    <2> QED
        BY <1>3, <1>4, <2>3 DEF Table, Shape
<1>8. Udp!Places(o) = Udp!Places(m)
    <2>1. \A x : x \in Udp!Places(o) <=> x \in Udp!Places(m)
        BY <1>3, <1>4, PlacesAre
    <2> QED
        BY <2>1, Zenon
<1>9. \A q : OfPeer(o, q) = OfPeer(m, q)
    BY <1>3 DEF OfPeer
<1>10. Account(o, r) /\ Shares(o)
    BY <1>8, <1>9 DEF Table, Account, Shares
<1>11. Deadline(o, n)
    BY <1>3, <1>4 DEF Table, Deadline
<1> QED
    BY <1>5, <1>6, <1>7, <1>10, <1>11 DEF Table

\* A complete message leaves the table.
LEMMA ClosedTable ==
    ASSUME NEW N, NEW m, NEW r, NEW n, Table(N, m, r, n), NEW key \in DOMAIN m,
           m[key].total \in Nat,
           NEW o, o = Udp!Restrict(m, DOMAIN m \ {key})
    PROVE  Table(N, o, r - m[key].total, n)
<1>1. DOMAIN o = DOMAIN m \ {key} /\ o = [k \in DOMAIN o |-> m[k]] /\ \A k \in DOMAIN o : o[k] = m[k]
    BY DEF Udp!Restrict
<1>2. PICK g : g = [k \in {key} |-> m[k]]
    OBVIOUS
<1>3. DOMAIN g = DOMAIN m \ DOMAIN o /\ g = [k \in DOMAIN g |-> m[k]] /\ DOMAIN g = {key} /\ g[key] = m[key]
    BY <1>1, <1>2
<1>4. /\ Shape(o) /\ Shares(o) /\ Contents(N, o)
      /\ Account(o, r - Cardinality(Udp!Places(g)))
    <2>1. PICK l : l = o
        OBVIOUS
    <2>2. /\ DOMAIN l \subseteq DOMAIN m /\ l = [k \in DOMAIN l |-> m[k]]
          /\ DOMAIN g = DOMAIN m \ DOMAIN l /\ g = [k \in DOMAIN g |-> m[k]]
        BY <1>1, <1>3, <2>1
    <2>3. Shape(m) /\ Account(m, r) /\ Shares(m) /\ Contents(N, m)
        BY DEF Table
    <2>4. Shape(l) /\ Account(l, r - Cardinality(Udp!Places(g))) /\ Shares(l) /\ Contents(N, l)
        BY <2>2, <2>3, PartOfTable
    <2> QED
        BY <2>1, <2>4, Zenon
<1>5. Cardinality(Udp!Places(g)) = m[key].total
    <2>1. PICK A : A = Udp!Places(g)
        OBVIOUS
    <2>2. PICK t \in Nat : t = m[key].total
        OBVIOUS
    <2>3. A = {key} \X (1 .. t)
        <3>1. \A x : x \in A <=> \E k \in DOMAIN g : x \in {k} \X (1 .. g[k].total)
            BY <2>1, PlacesAre
        <3>2. \A x : x \in A <=> x \in {key} \X (1 .. t)
            BY <1>3, <2>2, <3>1, Zenon
        <3> QED
            BY <3>2, Zenon
    <2>4. Cardinality({key} \X (1 .. t)) = t
        BY PlacesOfOne
    <2> QED
        BY <2>1, <2>2, <2>3, <2>4
<1>6. Deadline(o, n)
    <2>1. DOMAIN o # {} => DOMAIN m # {}
        BY <1>1
    <2> QED
        BY <1>1, <2>1 DEF Table, Deadline
<1> QED
    BY <1>4, <1>5, <1>6 DEF Table

-----------------------------------------------------------------------------
(***************************************************************************)
(* UDP: what the senders sent, and what was delivered.                     *)
(***************************************************************************)
SendersTyped ==
    /\ udp_pending \in [UdpPeers -> Seq(Udp!Datagram)]
    /\ udp_frames \in [UdpPeers -> Seq(Udp!Datagram)]
    /\ udp_session \in [UdpPeers -> Nat]
    /\ udp_sequence \in [UdpPeers -> Nat]
    /\ udp_enqueued \in [UdpPeers -> Seq(Nat)]
    /\ udp_net \subseteq Udp!Datagram

SentInv ==
    /\ SendersTyped
    /\ \A p \in UdpPeers : \A f \in Udp!Traffic(p) : Udp!Genuine(f, p)
    /\ Udp!Identified

WholeOf(d) ==
    \E n \in DOMAIN udp_enqueued[d.peer] : d.bytes = [i \in 1 .. udp_enqueued[d.peer][n] |-> <<n, i>>]

WholeInv == \A d \in udp_delivered : d.peer \in UdpPeers /\ WholeOf(d)

TableInv == Table(udp_net, udp_messages, udp_retained_bytes, udp_next_expiry)

\* The invariant of the specification, in these terms.
LEMMA UdpInTerms == Udp!IInv <=> SentInv /\ WholeInv /\ TableInv
<1>1. Udp!TypeOK <=> /\ SendersTyped /\ Shape(udp_messages)
                     /\ udp_next_expiry \in Nat \cup {-1}
                     /\ IsFiniteSet(Udp!Places(udp_messages))
                     /\ \A p \in UdpPeers : IsFiniteSet(OfPeer(udp_messages, p))
                     /\ \A d \in udp_delivered : d.peer \in UdpPeers
    BY SameSizes, Zenon DEF Udp!TypeOK, Udp!NoDeadline, SendersTyped, Shape, OfPeer
<1>2. Udp!DeliveredWhole <=> \A d \in udp_delivered : WholeOf(d)
    BY Zenon DEF Udp!DeliveredWhole, WholeOf
<1>3. Udp!AccountsKept <=>
         /\ udp_retained_bytes = Cardinality(Udp!Places(udp_messages))
         /\ udp_retained_bytes <= MaxReassemblyBytes
         /\ \A p \in UdpPeers : Cardinality(OfPeer(udp_messages, p)) <= MaxPeerReassemblies
         /\ DOMAIN udp_messages # {} => udp_next_expiry # -1
         /\ \A k \in DOMAIN udp_messages : udp_next_expiry <= udp_messages[k].expires
    BY SameSizes, Zenon DEF Udp!AccountsKept, Udp!BytesOf, Udp!NoDeadline, OfPeer
<1>4. (\A k \in DOMAIN udp_messages : \A i \in DOMAIN udp_messages[k].bytes :
          Udp!Arrived(k, i, udp_messages[k].bytes[i], udp_messages[k].total))
         <=> Contents(udp_net, udp_messages)
    BY Zenon DEF Udp!Arrived, Contents, Came
<1> QED
    BY <1>1, <1>2, <1>3, <1>4, Zenon
    DEF Udp!IInv, SentInv, WholeInv, TableInv, Table, Account, Shares, Deadline

LEMMA DatagramFields ==
    ASSUME NEW f \in Udp!Datagram
    PROVE  /\ f.peer \in UdpPeers /\ f.total \in Nat /\ f.index \in Nat
           /\ f.id \in Nat \X Nat /\ f.part \in Nat \X Nat
BY DEF Udp!Datagram

\* All parts that came under one identity are those of one message.
LEMMA WholeMessage ==
    ASSUME SentInv, NEW f \in udp_net, f.total > 1,
           NEW b, b = [i \in DOMAIN b |-> b[i]], DOMAIN b = 1 .. f.total,
           \A i \in DOMAIN b : Came(udp_net, <<f.peer, f.id>>, i, b[i], f.total),
           NEW d, d.peer = f.peer, d.bytes = b
    PROVE  d.peer \in UdpPeers /\ WholeOf(d)
<1>1. PICK p : p = f.peer
    OBVIOUS
<1>2. p \in UdpPeers /\ f \in Udp!Datagram
    BY <1>1, DatagramFields DEF SentInv, SendersTyped
<1>3. \A g \in udp_net : g.peer = p => g \in Udp!Traffic(p)
    BY DEF Udp!Traffic
<1>4. PICK n : n = f.part[1]
    OBVIOUS
<1>5. Udp!Genuine(f, p)
    BY <1>1, <1>2, <1>3 DEF SentInv
<1>6. n \in DOMAIN udp_enqueued[p] /\ f.total = udp_enqueued[p][n]
    BY <1>4, <1>5 DEF Udp!Genuine
<1>7. ASSUME NEW i \in DOMAIN b PROVE b[i] = <<n, i>>
    <2>1. PICK g \in udp_net : /\ g.peer = p /\ g.id = f.id
                               /\ g.total = f.total /\ g.index = i /\ g.part = b[i]
        BY <1>1 DEF Came
    <2>2. g \in Udp!Traffic(p) /\ f \in Udp!Traffic(p)
        BY <1>1, <1>3, <2>1
    <2>3. g.part[1] = n
        BY <1>2, <1>4, <2>1, <2>2 DEF SentInv, Udp!Identified
    <2>4. g.part = <<g.part[1], g.index>>
        BY <1>2, <2>2 DEF SentInv, Udp!Genuine
    <2> QED
        BY <2>1, <2>3, <2>4
<1>8. b = [i \in 1 .. udp_enqueued[p][n] |-> <<n, i>>]
    BY <1>6, <1>7
<1> QED
    BY <1>1, <1>2, <1>6, <1>8 DEF WholeOf

\* A fragment that finds its assembly.
LEMMA PutStep ==
    ASSUME SentInv, NEW f \in udp_net, f.total > 1,
           NEW m, NEW r, NEW n, Table(udp_net, m, r, n),
           <<f.peer, f.id>> \in DOMAIN m, m[<<f.peer, f.id>>].total = f.total,
           NEW s, s = [messages |-> m, retained |-> r, next |-> n], Udp!Put(s, f)
    PROVE  /\ Table(udp_net, udp_messages', udp_retained_bytes', udp_next_expiry')
           /\ \A d \in udp_delivered' : d \in udp_delivered \/ (d.peer \in UdpPeers /\ WholeOf(d))
<1>1. PICK key : key = <<f.peer, f.id>>
    OBVIOUS
<1>2. key \in DOMAIN m /\ m[key].total = f.total /\ f.peer = key[1] /\ f.id = key[2]
    BY <1>1
<1>3. PICK b : b = Udp!Insert(m[key].bytes, f.index, f.part)
    OBVIOUS
<1>4. PICK o : o = [m EXCEPT ![key].bytes = b]
    OBVIOUS
<1>5. s.messages = m /\ s.retained = r /\ s.next = n
    OBVIOUS
<1>6. Table(udp_net, o, r, n) /\ \A i \in DOMAIN b : Came(udp_net, key, i, b[i], f.total)
    BY <1>2, <1>3, <1>4, CopiedTable
<1>7. CASE DOMAIN b # 1 .. f.total
    <2>1. /\ udp_messages' = o /\ udp_retained_bytes' = r /\ udp_next_expiry' = n
          /\ udp_delivered' = udp_delivered
        BY <1>1, <1>3, <1>4, <1>5, <1>7 DEF Udp!Put
    <2> QED
        BY <1>6, <2>1
<1>8. CASE DOMAIN b = 1 .. f.total
    <2>1. PICK c : c = Udp!Restrict(m, DOMAIN m \ {key})
        OBVIOUS
    <2>2. PICK d : d = [peer |-> f.peer, bytes |-> b]
        OBVIOUS
    <2>3. /\ udp_messages' = c /\ udp_retained_bytes' = r - f.total /\ udp_next_expiry' = n
          /\ udp_delivered' = udp_delivered \cup {d}
        BY <1>1, <1>3, <1>5, <1>8, <2>1, <2>2 DEF Udp!Put
    <2>4. Table(udp_net, c, r - f.total, n)
        <3>1. f.total \in Nat
            BY DatagramFields DEF SentInv, SendersTyped
        <3> QED
            BY <1>2, <2>1, <3>1, ClosedTable
    <2>5. b = [i \in DOMAIN b |-> b[i]]
        BY <1>3 DEF Udp!Insert
    <2>6. d.peer = f.peer /\ d.bytes = b
        BY <2>2
    <2>7. \A i \in DOMAIN b : Came(udp_net, <<f.peer, f.id>>, i, b[i], f.total)
        BY <1>1, <1>6
    <2>8. d.peer \in UdpPeers /\ WholeOf(d)
        BY <1>8, <2>5, <2>6, <2>7, WholeMessage
    <2> QED
        BY <2>3, <2>4, <2>8
<1> QED
    BY <1>7, <1>8

\* receive_fragment: the fragment is put to its message's others, or it is rejected.
LEMMA FragmentStep ==
    ASSUME SentInv, TableInv, NEW f \in udp_net, Udp!receive_fragment(f)
    PROVE  /\ Table(udp_net, udp_messages', udp_retained_bytes', udp_next_expiry')
           /\ \A d \in udp_delivered' : d \in udp_delivered \/ (d.peer \in UdpPeers /\ WholeOf(d))
<1>1. \E m, r, n : /\ Udp!Expired = [messages |-> m, retained |-> r, next |-> n]
                   /\ Table(udp_net, m, r, n)
    BY ExpiredTable DEF TableInv
<1>2. PICK m, r, n : /\ Udp!Expired = [messages |-> m, retained |-> r, next |-> n]
                     /\ Table(udp_net, m, r, n)
    BY <1>1
<1>3. PICK s : s = [messages |-> m, retained |-> r, next |-> n]
    OBVIOUS
<1>4. s = Udp!Expired /\ s.messages = m /\ s.retained = r /\ s.next = n
    BY <1>2, <1>3
<1>5. PICK key : key = <<f.peer, f.id>>
    OBVIOUS
<1>6. /\ f.total > 1
      /\ \/ key \notin DOMAIN m /\ ~Udp!Full(s, f) /\ Udp!Put(Udp!Opened(s, f), f)
         \/ Udp!Rejected(s)
         \/ key \in DOMAIN m /\ m[key].total = f.total /\ Udp!Put(s, f)
    BY <1>4, <1>5 DEF Udp!receive_fragment
<1>7. f.total \in Nat /\ f.peer \in UdpPeers
    BY DatagramFields DEF SentInv, SendersTyped
<1>8. CASE Udp!Rejected(s)
    BY <1>2, <1>4, <1>8 DEF Udp!Rejected
<1>9. CASE key \in DOMAIN m /\ m[key].total = f.total /\ Udp!Put(s, f)
    BY <1>2, <1>3, <1>5, <1>6, <1>9, PutStep
<1>10. CASE key \notin DOMAIN m /\ ~Udp!Full(s, f) /\ Udp!Put(Udp!Opened(s, f), f)
    <2>1. PICK a : a = [total |-> f.total, bytes |-> <<>>, expires |-> ReassemblyTimeout]
        OBVIOUS
    <2>2. PICK next : next = NextDeadline(n)
        OBVIOUS
    <2>3. PICK o : o = Udp!Insert(m, <<f.peer, f.id>>, a)
        OBVIOUS
    <2>4. PICK t : t = [messages |-> o, retained |-> r + f.total, next |-> next]
        OBVIOUS
    <2>5. t = Udp!Opened(s, f)
        BY <1>4, <2>1, <2>2, <2>3, <2>4 DEF Udp!Opened, Udp!NewAssembly, Udp!NoDeadline, NextDeadline
    <2>6. r + f.total <= MaxReassemblyBytes /\ Cardinality(OfPeer(m, f.peer)) < MaxPeerReassemblies
        <3>1. ~(r + f.total > MaxReassemblyBytes)
              /\ ~(Cardinality(OfPeer(m, f.peer)) >= MaxPeerReassemblies)
            BY <1>4, <1>10, SameSizes, Zenon DEF Udp!Full, OfPeer
        <3>2. r \in Nat /\ Cardinality(OfPeer(m, f.peer)) \in Nat
            BY <1>2, <1>7, FS_CardinalityType DEF Table, Account, Shares
        <3>3. MaxReassemblyBytes \in Nat /\ MaxPeerReassemblies \in Nat
            BY LionAssumption
        <3> QED
            BY <1>7, <3>1, <3>2, <3>3
    <2>7. <<f.peer, f.id>> \notin DOMAIN m
        BY <1>5, <1>10
    <2>8. /\ Table(udp_net, o, r + f.total, next)
          /\ <<f.peer, f.id>> \in DOMAIN o /\ o[<<f.peer, f.id>>] = a
        <3>1. PICK p \in UdpPeers : p = f.peer
            BY <1>7
        <3>2. PICK id : id = f.id
            OBVIOUS
        <3>3. PICK total \in Nat : total = f.total
            BY <1>7
        <3>4. /\ <<p, id>> \notin DOMAIN m /\ r + total <= MaxReassemblyBytes
              /\ Cardinality(OfPeer(m, p)) < MaxPeerReassemblies
              /\ a = [total |-> total, bytes |-> <<>>, expires |-> ReassemblyTimeout]
              /\ o = Udp!Insert(m, <<p, id>>, a)
            BY <2>1, <2>3, <2>6, <2>7, <3>1, <3>2, <3>3
        <3>5. /\ Table(udp_net, o, r + total, next)
              /\ <<p, id>> \in DOMAIN o /\ o[<<p, id>>] = a
            BY <1>2, <2>2, <3>4, OpenedTable
        <3> QED
            BY <3>1, <3>2, <3>3, <3>5
    <2>9. o[<<f.peer, f.id>>].total = f.total
        BY <2>1, <2>8
    <2>10. Udp!Put(t, f)
        BY <1>10, <2>5
    <2> QED
        BY <1>6, <2>4, <2>8, <2>9, <2>10, PutStep
<1> QED
    BY <1>6, <1>8, <1>9, <1>10

-----------------------------------------------------------------------------
(***************************************************************************)
(* UDP: the senders.                                                       *)
(***************************************************************************)
LEMMA TrafficHas ==
    ASSUME NEW p, NEW f
    PROVE  f \in Udp!Traffic(p) <=>
               Has(udp_pending[p], f) \/ Has(udp_frames[p], f) \/ (f \in udp_net /\ f.peer = p)
BY DEF Udp!Traffic, Has

\* What has come stays known when more is sent.
LEMMA MoreSent ==
    ASSUME NEW N, NEW M, N \subseteq M, NEW m, NEW r, NEW n, Table(N, m, r, n)
    PROVE  Table(M, m, r, n)
<1>1. \A k, i, part, total : Came(N, k, i, part, total) => Came(M, k, i, part, total)
    BY DEF Came
<1> QED
    BY <1>1 DEF Table, Contents

LEMMA TrafficTyped ==
    ASSUME SendersTyped, NEW p \in UdpPeers, NEW f \in Udp!Traffic(p)
    PROVE  f \in Udp!Datagram
<1>1. \A s \in Seq(Udp!Datagram) : Has(s, f) => f \in Udp!Datagram
    BY DEF Has
<1>2. udp_pending[p] \in Seq(Udp!Datagram) /\ udp_frames[p] \in Seq(Udp!Datagram)
    BY DEF SendersTyped
<1> QED
    BY <1>1, <1>2, TrafficHas DEF SendersTyped

\* Datagrams are sent or lost, and none is new.
LEMMA QuietStep ==
    ASSUME SentInv, SendersTyped', UNCHANGED udp_enqueued,
           \A p \in UdpPeers : \A f \in Udp!Traffic(p)' : f \in Udp!Traffic(p),
           \A p \in UdpPeers : \/ /\ udp_session'[p] = udp_session[p]
                                  /\ udp_sequence'[p] = udp_sequence[p]
                               \/ udp_session'[p] > udp_session[p]
    PROVE  SentInv'
<1>1. \A p \in UdpPeers : udp_session[p] \in Nat /\ udp_session'[p] \in Nat
    BY DEF SentInv, SendersTyped
<1>2. ASSUME NEW p \in UdpPeers, NEW f \in Udp!Traffic(p)' PROVE Udp!Genuine(f, p)'
    <2>1. f \in Udp!Traffic(p) /\ Udp!Genuine(f, p)
        BY DEF SentInv
    <2>2. f.id[1] \in Nat /\ f.id[2] \in Nat
        BY <2>1, TrafficTyped, DatagramFields DEF SentInv
    <2>3. f.total > 1 => \/ f.id[1] < udp_session'[p]
                         \/ f.id[1] = udp_session'[p] /\ f.id[2] <= udp_sequence'[p]
        BY <1>1, <2>1, <2>2 DEF Udp!Genuine
    <2> QED
        BY <2>1, <2>3 DEF Udp!Genuine
<1>3. Udp!Identified'
    BY DEF SentInv, Udp!Identified
<1> QED
    BY <1>2, <1>3 DEF SentInv

\* A part of a sequence has nothing else.
LEMMA HasPart ==
    ASSUME NEW S, NEW s \in Seq(S), NEW a \in Nat, a >= 1, NEW b \in Nat, b <= Len(s)
    PROVE  SubSeq(s, a, b) \in Seq(S) /\ \A e : Has(SubSeq(s, a, b), e) => Has(s, e)
<1>1. PICK t : t = SubSeq(s, a, b)
    OBVIOUS
<1>2. Len(s) \in Nat /\ DOMAIN s = 1 .. Len(s)
    OBVIOUS
<1>3. CASE a <= b
    <2>1. /\ t \in Seq(S) /\ DOMAIN t = 1 .. b - a + 1
          /\ \A i \in 1 .. b - a + 1 : t[i] = s[a + i - 1] /\ a + i - 1 \in DOMAIN s
        BY <1>1, <1>2, <1>3
    <2> QED
        BY <1>1, <2>1 DEF Has
<1>4. CASE ~(a <= b)
    <2>1. t = <<>>
        BY <1>1, <1>2, <1>4
    <2>2. \A e : ~Has(<<>>, e)
        BY DEF Has
    <2> QED
        BY <1>1, <2>1, <2>2, EmptySeq
<1> QED
    BY <1>3, <1>4

\* A step of one peer's queue, batch and socket.
LEMMA OnePeerStep ==
    ASSUME SentInv, NEW p \in UdpPeers,
           NEW a \in Seq(Udp!Datagram), NEW b \in Seq(Udp!Datagram), NEW N, N \subseteq Udp!Datagram,
           \A f : Has(a, f) => Has(udp_pending[p], f) \/ Has(udp_frames[p], f),
           \A f : Has(b, f) => Has(udp_pending[p], f) \/ Has(udp_frames[p], f),
           \A f \in N : f \in udp_net \/ Has(udp_frames[p], f),
           udp_pending' = [udp_pending EXCEPT ![p] = a],
           udp_frames' = [udp_frames EXCEPT ![p] = b],
           udp_net' = N, UNCHANGED udp_enqueued,
           \/ UNCHANGED <<udp_session, udp_sequence>>
           \/ /\ udp_session' = [udp_session EXCEPT ![p] = @ + 1]
              /\ udp_sequence' = [udp_sequence EXCEPT ![p] = 0]
    PROVE  SentInv'
<1>1. /\ SendersTyped' /\ udp_pending'[p] = a /\ udp_frames'[p] = b
      /\ \A q \in UdpPeers : q # p => /\ udp_pending'[q] = udp_pending[q]
                                      /\ udp_frames'[q] = udp_frames[q]
    <2>1. udp_pending \in [UdpPeers -> Seq(Udp!Datagram)] /\ udp_frames \in [UdpPeers -> Seq(Udp!Datagram)]
        BY DEF SentInv, SendersTyped
    <2>2. /\ udp_pending' \in [UdpPeers -> Seq(Udp!Datagram)] /\ udp_frames' \in [UdpPeers -> Seq(Udp!Datagram)]
          /\ udp_pending'[p] = a /\ udp_frames'[p] = b
          /\ \A q \in UdpPeers : q # p => /\ udp_pending'[q] = udp_pending[q]
                                          /\ udp_frames'[q] = udp_frames[q]
        BY <2>1
    <2>3. udp_session' \in [UdpPeers -> Nat] /\ udp_sequence' \in [UdpPeers -> Nat]
        BY DEF SentInv, SendersTyped
    <2>4. udp_enqueued' \in [UdpPeers -> Seq(Nat)] /\ udp_net' \subseteq Udp!Datagram
        BY DEF SentInv, SendersTyped
    <2> QED
        BY <2>2, <2>3, <2>4 DEF SendersTyped
<1>2. \A q \in UdpPeers : \/ /\ udp_session'[q] = udp_session[q]
                             /\ udp_sequence'[q] = udp_sequence[q]
                          \/ udp_session'[q] > udp_session[q]
    BY DEF SentInv, SendersTyped
<1>3. \A f : Has(udp_frames[p], f) => f.peer = p
    BY TrafficHas DEF SentInv, Udp!Genuine
<1>4. ASSUME NEW q \in UdpPeers, NEW f \in Udp!Traffic(q)' PROVE f \in Udp!Traffic(q)
    <2>2. Has(udp_pending'[q], f) \/ Has(udp_frames'[q], f) \/ (f \in N /\ f.peer = q)
        BY DEF Udp!Traffic, Has
    <2>3. Has(udp_pending[q], f) \/ Has(udp_frames[q], f) \/ (f \in udp_net /\ f.peer = q)
        BY <1>1, <1>3, <2>2
    <2> QED
        BY <2>3, TrafficHas
<1> QED
    BY <1>1, <1>2, <1>4, QuietStep

\* The steps of a peer that queue no message.
LEMMA PeerStep ==
    ASSUME SentInv, NEW p \in UdpPeers,
           \/ Udp!fill_batch(p) \/ Udp!drop_first(p) \/ Udp!bind(p)
           \/ \E count \in 1 .. Len(udp_frames[p]) : Udp!poll_send(p, count)
    PROVE  /\ SentInv' /\ udp_net \subseteq udp_net'
           /\ UNCHANGED <<udp_enqueued, udp_messages, udp_retained_bytes, udp_next_expiry, udp_delivered>>
<1>1. PICK q \in Seq(Udp!Datagram) : q = udp_pending[p]
    BY DEF SentInv, SendersTyped
<1>2. PICK s \in Seq(Udp!Datagram) : s = udp_frames[p]
    BY DEF SentInv, SendersTyped
<1>3. udp_net \subseteq Udp!Datagram /\ udp_pending = [udp_pending EXCEPT ![p] = q]
      /\ udp_frames = [udp_frames EXCEPT ![p] = s]
    BY <1>1, <1>2 DEF SentInv, SendersTyped
<1>4. Len(q) \in Nat /\ Len(s) \in Nat
    OBVIOUS
<1>5. PICK N : N = udp_net
    OBVIOUS
<1>6. CASE Udp!fill_batch(p)
    <2>1. PICK n : n = Udp!Min({MaxBatchSize, Len(q)})
        OBVIOUS
    <2>2. n \in Nat /\ n <= Len(q)
        <3>1. PICK T : T = {MaxBatchSize, Len(q)}
            OBVIOUS
        <3>2. T \subseteq Nat /\ T # {} /\ Len(q) \in T
            BY <1>4, <3>1, LionAssumption
        <3>3. n \in T /\ \A y \in T : n <= y
            BY <2>1, <3>1, <3>2, LeastOf
        <3> QED
            BY <3>2, <3>3
    <2>3. PICK a : a = SubSeq(q, n + 1, Len(q))
        OBVIOUS
    <2>4. PICK b : b = SubSeq(q, 1, n)
        OBVIOUS
    <2>5. n + 1 \in Nat /\ n + 1 >= 1 /\ Len(q) <= Len(q)
        BY <1>4, <2>2
    <2>6. a \in Seq(Udp!Datagram) /\ \A f : Has(a, f) => Has(q, f)
        BY <1>4, <2>3, <2>5, HasPart
    <2>7. b \in Seq(Udp!Datagram) /\ \A f : Has(b, f) => Has(q, f)
        BY <2>2, <2>4, HasPart
    <2>8. /\ udp_pending' = [udp_pending EXCEPT ![p] = a]
          /\ udp_frames' = [udp_frames EXCEPT ![p] = b]
          /\ udp_net' = N
          /\ UNCHANGED <<udp_session, udp_sequence, udp_enqueued, udp_messages, udp_retained_bytes,
                         udp_next_expiry, udp_delivered>>
        BY <1>1, <1>5, <1>6, <2>1, <2>3, <2>4 DEF Udp!fill_batch
    <2>9. SentInv'
        BY <1>1, <1>3, <1>5, <2>6, <2>7, <2>8, OnePeerStep
    <2> QED
        BY <1>5, <2>8, <2>9
<1>7. CASE Udp!drop_first(p)
    <2>1. PICK b : b = Tail(s)
        OBVIOUS
    <2>2. b \in Seq(Udp!Datagram) /\ \A f : Has(b, f) => Has(s, f)
        BY <1>2, <1>7, <2>1, HasTail DEF Udp!drop_first
    <2>3. /\ udp_pending' = [udp_pending EXCEPT ![p] = q]
          /\ udp_frames' = [udp_frames EXCEPT ![p] = b]
          /\ udp_net' = N
          /\ UNCHANGED <<udp_session, udp_sequence, udp_enqueued, udp_messages, udp_retained_bytes,
                         udp_next_expiry, udp_delivered>>
        BY <1>2, <1>3, <1>5, <1>7, <2>1 DEF Udp!drop_first
    <2>4. SentInv'
        BY <1>1, <1>2, <1>3, <1>5, <2>2, <2>3, OnePeerStep
    <2> QED
        BY <1>5, <2>3, <2>4
<1>8. CASE Udp!bind(p)
    <2>1. PICK e \in Seq(Udp!Datagram) : e = <<>>
        BY EmptySeq
    <2>2. \A f : ~Has(e, f)
        BY <2>1 DEF Has
    <2>3. /\ udp_pending' = [udp_pending EXCEPT ![p] = e]
          /\ udp_frames' = [udp_frames EXCEPT ![p] = e]
          /\ udp_net' = N
          /\ udp_session' = [udp_session EXCEPT ![p] = @ + 1]
          /\ udp_sequence' = [udp_sequence EXCEPT ![p] = 0]
          /\ UNCHANGED <<udp_enqueued, udp_messages, udp_retained_bytes, udp_next_expiry, udp_delivered>>
        BY <1>5, <1>8, <2>1 DEF Udp!bind
    <2>4. SentInv'
        BY <1>3, <1>5, <2>2, <2>3, OnePeerStep
    <2> QED
        BY <1>5, <2>3, <2>4
<1>9. CASE \E count \in 1 .. Len(udp_frames[p]) : Udp!poll_send(p, count)
    <2>1. PICK count \in 1 .. Len(s) : Udp!poll_send(p, count)
        BY <1>2, <1>9
    <2>2. PICK b : b = SubSeq(s, count + 1, Len(s))
        OBVIOUS
    <2>3. PICK M : M = udp_net \cup {s[i] : i \in 1 .. count}
        OBVIOUS
    <2>4. count + 1 \in Nat /\ count + 1 >= 1 /\ Len(s) <= Len(s) /\ 1 .. count \subseteq DOMAIN s
        BY <1>4
    <2>5. b \in Seq(Udp!Datagram) /\ \A f : Has(b, f) => Has(s, f)
        BY <1>4, <2>2, <2>4, HasPart
    <2>6. M \subseteq Udp!Datagram /\ \A f \in M : f \in udp_net \/ Has(s, f)
        BY <1>3, <2>3, <2>4 DEF Has
    <2>7. /\ udp_pending' = [udp_pending EXCEPT ![p] = q]
          /\ udp_frames' = [udp_frames EXCEPT ![p] = b]
          /\ udp_net' = M
          /\ UNCHANGED <<udp_session, udp_sequence, udp_enqueued, udp_messages, udp_retained_bytes,
                         udp_next_expiry, udp_delivered>>
        BY <1>2, <1>3, <2>1, <2>2, <2>3 DEF Udp!poll_send
    <2>8. SentInv'
        BY <1>1, <1>2, <2>5, <2>6, <2>7, OnePeerStep
    <2> QED
        BY <2>3, <2>7, <2>8
<1> QED
    BY <1>6, <1>7, <1>8, <1>9

\* The datagrams of a message.
LEMMA DatagramsAre ==
    ASSUME SendersTyped, NEW p \in UdpPeers, NEW total \in UdpSizes, NEW id \in Nat \X Nat,
           NEW n, n = Len(udp_enqueued[p]) + 1
    PROVE  /\ Udp!Datagrams(p, id, total) \in Seq(Udp!Datagram)
           /\ \A f : Has(Udp!Datagrams(p, id, total), f) =>
                  /\ f.peer = p /\ f.id = id /\ f.total = total /\ f.index \in 1 .. total
                  /\ f.part = <<n, f.index>> /\ f.part[1] = n
<1>1. total \in Nat /\ total > 0 /\ n \in Nat
    BY LionAssumption DEF SendersTyped
<1>2. PICK D : D = Udp!Datagrams(p, id, total)
    OBVIOUS
<1>3. D = [i \in 1 .. total |-> [peer |-> p, id |-> id, total |-> total, index |-> i, part |-> <<n, i>>]]
    BY <1>2 DEF Udp!Datagrams
<1>4. \A i \in 1 .. total :
          [peer |-> p, id |-> id, total |-> total, index |-> i, part |-> <<n, i>>] \in Udp!Datagram
    BY <1>1 DEF Udp!Datagram
<1>5. D \in Seq(Udp!Datagram) /\ DOMAIN D = 1 .. total
    BY <1>1, <1>3, <1>4
<1>6. ASSUME NEW f, Has(D, f)
      PROVE  /\ f.peer = p /\ f.id = id /\ f.total = total /\ f.index \in 1 .. total
             /\ f.part = <<n, f.index>> /\ f.part[1] = n
    <2>1. PICK i \in 1 .. total : f = [peer |-> p, id |-> id, total |-> total, index |-> i, part |-> <<n, i>>]
        BY <1>3, <1>5, <1>6 DEF Has
    <2> QED
        BY <2>1
<1> QED
    BY <1>2, <1>5, <1>6

\* enqueue: the new message's identity is above all that were given.
LEMMA EnqueuedStep ==
    ASSUME SentInv, WholeInv, NEW p \in UdpPeers, NEW total \in UdpSizes, Udp!enqueue(p, total)
    PROVE  SentInv' /\ WholeInv'
<1>1. PICK s \in Nat : s = udp_session[p]
    BY DEF SentInv, SendersTyped
<1>2. PICK c \in Nat : c = udp_sequence[p]
    BY DEF SentInv, SendersTyped
<1>3. PICK e \in Seq(Nat) : e = udp_enqueued[p]
    BY DEF SentInv, SendersTyped
<1>4. PICK q \in Seq(Udp!Datagram) : q = udp_pending[p]
    BY DEF SentInv, SendersTyped
<1>5. PICK n \in Nat : n = Len(udp_enqueued[p]) + 1 /\ n = Len(e) + 1
    BY <1>3
<1>6. PICK id : id = Udp!message_id(p, total)
    OBVIOUS
<1>7. id \in Nat \X Nat /\ (total > 1 => id = <<s, c + 1>>) /\ total \in Nat /\ total >= 1
    BY <1>1, <1>2, <1>6, LionAssumption DEF Udp!message_id
<1>8. PICK D : D = Udp!Datagrams(p, id, total)
    OBVIOUS
<1>9. /\ D \in Seq(Udp!Datagram)
      /\ \A f : Has(D, f) => /\ f.peer = p /\ f.id = id /\ f.total = total /\ f.index \in 1 .. total
                             /\ f.part = <<n, f.index>> /\ f.part[1] = n
    BY <1>5, <1>7, <1>8, DatagramsAre DEF SentInv
<1>10. PICK a : a = q \o D
    OBVIOUS
<1>11. a \in Seq(Udp!Datagram) /\ \A f : Has(a, f) <=> Has(q, f) \/ Has(D, f)
    BY <1>9, <1>10, HasJoined
<1>12. PICK b : b = Append(e, total)
    OBVIOUS
<1>13. /\ b \in Seq(Nat) /\ n \in DOMAIN b /\ b[n] = total
       /\ \A i \in DOMAIN e : i \in DOMAIN b /\ b[i] = e[i]
    BY <1>5, <1>7, <1>12
<1>14. /\ udp_pending' = [udp_pending EXCEPT ![p] = a]
       /\ udp_enqueued' = [udp_enqueued EXCEPT ![p] = b]
       /\ udp_sequence' = [udp_sequence EXCEPT ![p] = IF total = 1 THEN @ ELSE @ + 1]
       /\ UNCHANGED <<udp_frames, udp_session, udp_net, udp_delivered>>
    BY <1>3, <1>4, <1>6, <1>8, <1>10, <1>12 DEF Udp!enqueue
<1>15. /\ SendersTyped'
       /\ udp_pending'[p] = a /\ \A o \in UdpPeers : o # p => udp_pending'[o] = udp_pending[o]
    <2>1. /\ udp_pending \in [UdpPeers -> Seq(Udp!Datagram)] /\ udp_sequence \in [UdpPeers -> Nat]
          /\ udp_enqueued \in [UdpPeers -> Seq(Nat)]
        BY DEF SentInv, SendersTyped
    <2>2. /\ udp_pending' \in [UdpPeers -> Seq(Udp!Datagram)]
          /\ udp_pending'[p] = a /\ \A o \in UdpPeers : o # p => udp_pending'[o] = udp_pending[o]
        BY <1>11, <1>14, <2>1
    <2>3. udp_enqueued' \in [UdpPeers -> Seq(Nat)]
        BY <1>13, <1>14, <2>1
    <2>4. udp_sequence' \in [UdpPeers -> Nat]
        BY <1>14, <2>1
    <2> QED
        BY <1>14, <2>2, <2>3, <2>4 DEF SentInv, SendersTyped
<1>16. /\ udp_enqueued'[p] = b
       /\ \A o \in UdpPeers : o # p => udp_enqueued'[o] = udp_enqueued[o]
    BY <1>14 DEF SentInv, SendersTyped
<1>17. \A o \in UdpPeers : \A i \in DOMAIN udp_enqueued[o] :
           i \in DOMAIN udp_enqueued'[o] /\ udp_enqueued'[o][i] = udp_enqueued[o][i]
    BY <1>3, <1>13, <1>16
<1>18. /\ \A o \in UdpPeers : /\ udp_session'[o] = udp_session[o] /\ udp_sequence[o] \in Nat
                              /\ udp_sequence'[o] \in Nat /\ udp_sequence[o] <= udp_sequence'[o]
       /\ total > 1 => udp_sequence'[p] = c + 1
    BY <1>2, <1>14 DEF SentInv, SendersTyped
<1>19. ASSUME NEW o \in UdpPeers, NEW f \in Udp!Traffic(o)'
       PROVE  f \in Udp!Traffic(o) \/ (o = p /\ Has(D, f))
    <2>1. Has(udp_pending'[o], f) \/ Has(udp_frames[o], f) \/ (f \in udp_net /\ f.peer = o)
        BY <1>14 DEF Udp!Traffic, Has
    <2> QED
        BY <1>4, <1>11, <1>15, <2>1, TrafficHas
<1>20. ASSUME NEW o \in UdpPeers, NEW f \in Udp!Traffic(o) PROVE Udp!Genuine(f, o)'
    <2>1. Udp!Genuine(f, o)
        BY DEF SentInv
    <2>2. f.id[2] \in Nat
        BY TrafficTyped, DatagramFields DEF SentInv
    <2>3. f.total > 1 => \/ f.id[1] < udp_session'[o]
                         \/ f.id[1] = udp_session'[o] /\ f.id[2] <= udp_sequence'[o]
        BY <1>18, <2>1, <2>2 DEF Udp!Genuine
    <2> QED
        BY <1>17, <2>1, <2>3 DEF Udp!Genuine
<1>21. ASSUME NEW f, Has(D, f) PROVE Udp!Genuine(f, p)'
    <2>1. f.total > 1 => f.id[1] = udp_session'[p] /\ f.id[2] <= udp_sequence'[p]
        BY <1>1, <1>7, <1>9, <1>18, <1>21
    <2> QED
        BY <1>9, <1>13, <1>16, <1>21, <2>1 DEF Udp!Genuine
<1>22. ASSUME NEW f \in Udp!Traffic(p), f.total > 1, total > 1 PROVE f.id # id
    <2>1. f.id[1] \in Nat /\ f.id[2] \in Nat
        BY TrafficTyped, DatagramFields DEF SentInv
    <2>2. f.id[1] < s \/ (f.id[1] = s /\ f.id[2] <= c)
        BY <1>1, <1>2, <1>22 DEF SentInv, Udp!Genuine
    <2> QED
        BY <1>7, <1>22, <2>1, <2>2
<1>23. Udp!Identified'
    <2> SUFFICES ASSUME NEW o \in UdpPeers, NEW f \in Udp!Traffic(o)', NEW g \in Udp!Traffic(o)',
                        f.total > 1, g.total > 1, f.id = g.id
                 PROVE  f.part[1] = g.part[1]
        BY DEF Udp!Identified
    <2>1. CASE f \in Udp!Traffic(o) /\ g \in Udp!Traffic(o)
        BY <2>1 DEF SentInv, Udp!Identified
    <2>2. CASE ~(f \in Udp!Traffic(o) /\ g \in Udp!Traffic(o))
        <3>1. o = p /\ (f \in Udp!Traffic(p) \/ Has(D, f)) /\ (g \in Udp!Traffic(p) \/ Has(D, g))
              /\ (Has(D, f) \/ Has(D, g))
            BY <1>19, <2>2
        <3>2. total > 1
            BY <1>9, <3>1
        <3>3. ~(f \in Udp!Traffic(p) /\ Has(D, g)) /\ ~(g \in Udp!Traffic(p) /\ Has(D, f))
            BY <1>9, <1>22, <3>2
        <3> QED
            BY <1>9, <3>1, <3>3
    <2> QED
        BY <2>1, <2>2
<1>24. WholeInv'
    <2> SUFFICES ASSUME NEW d \in udp_delivered PROVE d.peer \in UdpPeers /\ WholeOf(d)'
        BY <1>14 DEF WholeInv
    <2>1. d.peer \in UdpPeers /\ WholeOf(d)
        BY DEF WholeInv
    <2>2. PICK k \in DOMAIN udp_enqueued[d.peer] :
              d.bytes = [i \in 1 .. udp_enqueued[d.peer][k] |-> <<k, i>>]
        BY <2>1 DEF WholeOf
    <2>3. k \in DOMAIN udp_enqueued'[d.peer] /\ udp_enqueued'[d.peer][k] = udp_enqueued[d.peer][k]
        BY <1>17, <2>1
    <2> QED
        BY <2>1, <2>2, <2>3 DEF WholeOf
<1> QED
    BY <1>15, <1>19, <1>20, <1>21, <1>23, <1>24 DEF SentInv

\* Time passes for the assemblies and for the next deadline alike.
LEMMA TickStep ==
    ASSUME TableInv, Udp!Tick
    PROVE  TableInv'
<1>1. PICK m : m = udp_messages
    OBVIOUS
<1>2. PICK o : o = [k \in DOMAIN m |-> [m[k] EXCEPT !.expires = IF @ = 0 THEN 0 ELSE @ - 1]]
    OBVIOUS
<1>3. PICK n : n = udp_next_expiry
    OBVIOUS
<1>4. PICK x : x = IF n > 0 THEN n - 1 ELSE n
    OBVIOUS
<1>5. udp_messages' = o /\ udp_next_expiry' = x /\ UNCHANGED <<udp_net, udp_retained_bytes>>
    BY <1>1, <1>2, <1>3, <1>4 DEF Udp!Tick
<1>6. Shape(m) /\ Account(m, udp_retained_bytes) /\ Shares(m) /\ Deadline(m, n) /\ Contents(udp_net, m)
    BY <1>1, <1>3 DEF TableInv, Table
<1>7. ASSUME NEW k \in DOMAIN m
      PROVE  /\ o[k] = [total |-> m[k].total, bytes |-> m[k].bytes, expires |-> o[k].expires]
             /\ o[k].total = m[k].total /\ o[k].bytes = m[k].bytes
             /\ o[k].expires = IF m[k].expires = 0 THEN 0 ELSE m[k].expires - 1
    <2>1. PICK a : a = m[k]
        OBVIOUS
    <2>2. a = [total |-> a.total, bytes |-> a.bytes, expires |-> a.expires]
        <3>1. m[k] = [total |-> m[k].total, bytes |-> m[k].bytes, expires |-> m[k].expires]
            BY <1>6, Zenon DEF Shape
        <3> QED
            BY <2>1, <3>1
    <2>3. PICK y : y = IF a.expires = 0 THEN 0 ELSE a.expires - 1
        OBVIOUS
    <2>4. o[k] = [a EXCEPT !.expires = y]
        BY <1>2, <2>1, <2>3
    <2>5. PICK t : t = a.total
        OBVIOUS
    <2>6. PICK b : b = a.bytes
        OBVIOUS
    <2>7. o[k] = [total |-> t, bytes |-> b, expires |-> y]
        BY <2>2, <2>4, <2>5, <2>6
    <2>8. o[k].total = t /\ o[k].bytes = b /\ o[k].expires = y
        BY <2>7
    <2> QED
        BY <2>1, <2>3, <2>5, <2>6, <2>7, <2>8
<1>8. DOMAIN o = DOMAIN m /\ o = [k \in DOMAIN o |-> o[k]]
    BY <1>2
<1>9. Shape(o)
    <2>1. \A k \in DOMAIN m : o[k].expires \in Nat
        <3>1. \A k \in DOMAIN m : m[k].expires \in Nat
            BY <1>6, Zenon DEF Shape
        <3>2. \A k \in DOMAIN m : o[k].expires = IF m[k].expires = 0 THEN 0 ELSE m[k].expires - 1
            BY <1>7, Zenon
        <3> QED
            BY <3>1, <3>2
    <2>2. \A k \in DOMAIN o :
              o[k] = [total |-> o[k].total, bytes |-> o[k].bytes, expires |-> o[k].expires]
        BY <1>7, <1>8, Zenon
    <2>3. o = [k \in DOMAIN o |-> [total |-> o[k].total, bytes |-> o[k].bytes, expires |-> o[k].expires]]
        BY <1>8, <2>2
    <2> QED
        BY <1>8, <2>1, <2>3 DEF Shape
<1>10. Udp!Places(o) = Udp!Places(m)
    <2>1. \A y : y \in Udp!Places(o) <=> y \in Udp!Places(m)
        BY <1>7, <1>8, PlacesAre
    <2> QED
        BY <2>1, Zenon
<1>11. \A p : OfPeer(o, p) = OfPeer(m, p)
    BY <1>8 DEF OfPeer
<1>12. Account(o, udp_retained_bytes) /\ Shares(o)
    BY <1>6, <1>10, <1>11 DEF Account, Shares
<1>13. Contents(udp_net, o)
    BY <1>6, <1>7, <1>8 DEF Contents
<1>14. Deadline(o, x)
    <2>1. n \in Nat \cup {-1} /\ \A k \in DOMAIN m : n # -1 /\ n <= m[k].expires /\ m[k].expires \in Nat
        BY <1>6 DEF Deadline, Shape
    <2>2. x \in Nat \cup {-1} /\ (n # -1 => x # -1)
        BY <1>4, <2>1
    <2>3. ASSUME NEW k \in DOMAIN o PROVE x # -1 /\ x <= o[k].expires
        <3>1. n \in Nat /\ n <= m[k].expires /\ m[k].expires \in Nat
            BY <1>8, <2>1
        <3>2. o[k].expires = IF m[k].expires = 0 THEN 0 ELSE m[k].expires - 1
            BY <1>7, <1>8
        <3> QED
            BY <1>4, <3>1, <3>2
    <2> QED
        BY <2>2, <2>3 DEF Deadline
<1> QED
    BY <1>5, <1>9, <1>12, <1>13, <1>14 DEF TableInv, Table

\* Every step preserves the invariant of the datagrams.
LEMMA UdpStep == Udp!IInv /\ [Udp!Next]_(Udp!vars) => Udp!IInv'
<1> SUFFICES ASSUME SentInv, WholeInv, TableInv, [Udp!Next]_(Udp!vars)
             PROVE  SentInv' /\ WholeInv' /\ TableInv'
    <2>1. Udp!IInv <=> SentInv /\ WholeInv /\ TableInv
        BY UdpInTerms
    <2>2. (Udp!IInv <=> SentInv /\ WholeInv /\ TableInv)'
        BY UdpInTerms, PTL
    <2> QED
        BY <2>1, <2>2
<1>1. ASSUME UNCHANGED <<udp_pending, udp_frames, udp_session, udp_sequence, udp_enqueued, udp_net>>
      PROVE  SentInv'
    <2>1. SendersTyped' /\ \A p \in UdpPeers : \A f \in Udp!Traffic(p)' : f \in Udp!Traffic(p)
        BY <1>1 DEF SentInv, SendersTyped, Udp!Traffic
    <2> QED
        BY <1>1, <2>1, QuietStep
<1>2. ASSUME NEW p \in UdpPeers, NEW total \in UdpSizes, Udp!enqueue(p, total)
      PROVE  SentInv' /\ WholeInv' /\ TableInv'
    <2>1. TableInv'
        BY <1>2 DEF TableInv, Udp!enqueue
    <2> QED
        BY <1>2, <2>1, EnqueuedStep
<1>3. ASSUME NEW p \in UdpPeers,
             \/ Udp!fill_batch(p) \/ Udp!drop_first(p) \/ Udp!bind(p)
             \/ \E count \in 1 .. Len(udp_frames[p]) : Udp!poll_send(p, count)
      PROVE  SentInv' /\ WholeInv' /\ TableInv'
    <2>1. /\ SentInv' /\ udp_net \subseteq udp_net'
          /\ UNCHANGED <<udp_enqueued, udp_messages, udp_retained_bytes, udp_next_expiry, udp_delivered>>
        BY <1>3, PeerStep
    <2>2. WholeInv'
        BY <2>1 DEF WholeInv, WholeOf
    <2>3. Table(udp_net', udp_messages, udp_retained_bytes, udp_next_expiry)
        <3>1. PICK N : N = udp_net'
            OBVIOUS
        <3>2. Table(N, udp_messages, udp_retained_bytes, udp_next_expiry)
            BY <2>1, <3>1, MoreSent DEF TableInv
        <3> QED
            BY <3>1, <3>2
    <2> QED
        BY <2>1, <2>2, <2>3 DEF TableInv
<1>4. ASSUME Udp!expire \/ \E f \in udp_net : Udp!receive_plain(f)
      PROVE  SentInv' /\ WholeInv' /\ TableInv'
    <2>1. \E m, r, n : /\ Udp!Expired = [messages |-> m, retained |-> r, next |-> n]
                       /\ Table(udp_net, m, r, n)
        BY ExpiredTable DEF TableInv
    <2>2. PICK m, r, n : /\ Udp!Expired = [messages |-> m, retained |-> r, next |-> n]
                         /\ Table(udp_net, m, r, n)
        BY <2>1
    <2>3. /\ udp_messages' = m /\ udp_retained_bytes' = r /\ udp_next_expiry' = n
          /\ UNCHANGED <<udp_pending, udp_frames, udp_session, udp_sequence, udp_enqueued, udp_net>>
        BY <1>4, <2>2 DEF Udp!expire, Udp!receive_plain, Udp!sender_vars
    <2>4. SentInv' /\ TableInv'
        BY <1>1, <2>2, <2>3 DEF TableInv
    <2>5. ASSUME NEW f \in udp_net, f.total = 1, NEW d, d = [peer |-> f.peer, bytes |-> <<f.part>>]
          PROVE  d.peer \in UdpPeers /\ WholeOf(d)
        <3>1. f.peer \in UdpPeers /\ f \in Udp!Traffic(f.peer)
            BY DatagramFields, TrafficHas DEF SentInv, SendersTyped
        <3>2. Udp!Genuine(f, f.peer)
            BY <3>1 DEF SentInv
        <3>3. PICK k : k = f.part[1]
            OBVIOUS
        <3>4. /\ k \in DOMAIN udp_enqueued[f.peer] /\ udp_enqueued[f.peer][k] = 1
              /\ f.part = <<k, f.index>> /\ f.index \in 1 .. 1
            BY <2>5, <3>2, <3>3 DEF Udp!Genuine
        <3>5. f.index = 1
            BY <3>4
        <3>6. <<f.part>> = [i \in 1 .. 1 |-> <<k, i>>]
            BY <3>4, <3>5
        <3> QED
            BY <2>5, <3>1, <3>4, <3>6 DEF WholeOf
    <2>6. \A d \in udp_delivered' : d \in udp_delivered \/ (d.peer \in UdpPeers /\ WholeOf(d))
        BY <1>4, <2>5 DEF Udp!expire, Udp!receive_plain
    <2>7. WholeInv'
        BY <2>3, <2>6 DEF WholeInv, WholeOf
    <2> QED
        BY <2>4, <2>7
<1>5. ASSUME NEW f \in udp_net, Udp!receive_fragment(f) PROVE SentInv' /\ WholeInv' /\ TableInv'
    <2>1. UNCHANGED <<udp_pending, udp_frames, udp_session, udp_sequence, udp_enqueued, udp_net>>
        BY <1>5 DEF Udp!receive_fragment, Udp!sender_vars
    <2>2. /\ Table(udp_net, udp_messages', udp_retained_bytes', udp_next_expiry')
          /\ \A d \in udp_delivered' : d \in udp_delivered \/ (d.peer \in UdpPeers /\ WholeOf(d))
        BY <1>5, FragmentStep
    <2>3. WholeInv'
        BY <2>1, <2>2 DEF WholeInv, WholeOf
    <2> QED
        BY <1>1, <2>1, <2>2, <2>3 DEF TableInv
<1>6. ASSUME Udp!Tick PROVE SentInv' /\ WholeInv' /\ TableInv'
    <2>1. UNCHANGED <<udp_pending, udp_frames, udp_session, udp_sequence, udp_enqueued, udp_net, udp_delivered>>
        BY <1>6 DEF Udp!Tick, Udp!sender_vars
    <2>2. WholeInv'
        BY <2>1 DEF WholeInv, WholeOf
    <2> QED
        BY <1>1, <1>6, <2>1, <2>2, TickStep
<1>7. ASSUME UNCHANGED Udp!vars PROVE SentInv' /\ WholeInv' /\ TableInv'
    <2>1. WholeInv' /\ TableInv'
        BY <1>7 DEF Udp!vars, WholeInv, WholeOf, TableInv
    <2> QED
        BY <1>1, <1>7, <2>1 DEF Udp!vars
<1> QED
    BY <1>2, <1>3, <1>4, <1>5, <1>6, <1>7 DEF Udp!Next

\* Nothing is sent at the start.
LEMMA UdpInit == Udp!Init => Udp!IInv
<1> SUFFICES ASSUME Udp!Init PROVE SentInv /\ WholeInv /\ TableInv
    BY UdpInTerms
<1>1. <<>> \in Seq(Udp!Datagram) /\ <<>> \in Seq(Nat) /\ \A f : ~Has(<<>>, f)
    BY EmptySeq DEF Has
<1>2. SendersTyped
    BY <1>1 DEF Udp!Init, SendersTyped
<1>3. \A p \in UdpPeers : \A f : f \notin Udp!Traffic(p)
    BY <1>1, TrafficHas DEF Udp!Init
<1>4. SentInv /\ WholeInv
    BY <1>2, <1>3 DEF SentInv, Udp!Identified, WholeInv, Udp!Init
<1>5. TableInv
    <2>1. PICK m : m = udp_messages
        OBVIOUS
    <2>2. m = <<>> /\ DOMAIN m = {}
        BY <2>1 DEF Udp!Init
    <2>3. Udp!Places(m) = {}
        <3>1. \A x : x \notin Udp!Places(m)
            BY <2>2, PlacesAre
        <3> QED
            BY <3>1
    <2>4. \A p : OfPeer(m, p) = {}
        BY <2>2 DEF OfPeer
    <2>5. IsFiniteSet({}) /\ Cardinality({}) = 0
        BY FS_EmptySet
    <2>6. MaxReassemblyBytes \in Nat /\ MaxPeerReassemblies \in Nat
        BY LionAssumption
    <2>7. Account(m, 0) /\ Shares(m)
        BY <2>3, <2>4, <2>5, <2>6 DEF Account, Shares
    <2>8. Shape(m) /\ Deadline(m, -1) /\ Contents(udp_net, m)
        BY <2>2 DEF Shape, Deadline, Contents
    <2>9. udp_retained_bytes = 0 /\ udp_next_expiry = -1
        BY DEF Udp!Init, Udp!NoDeadline
    <2> QED
        BY <2>1, <2>7, <2>8, <2>9 DEF TableInv, Table
<1> QED
    BY <1>4, <1>5

-----------------------------------------------------------------------------
(***************************************************************************)
(* The process.                                                            *)
(***************************************************************************)
\* The process is a client, or it runs one transport; the others stay.
LEMMA OneProcessRuns ==
    ASSUME [RuntimeNext]_<<process, vars, udp_vars, tcp_vars>>
    PROVE  [Next]_vars /\ [Udp!Next]_(Udp!vars) /\ [Tcp!Next]_(Tcp!vars)
<1>1. [Next]_vars
    BY DEF RuntimeNext
<1>2. [Udp!Next]_(Udp!vars)
    BY DEF RuntimeNext, udp_vars, Udp!vars
<1>3. [Tcp!Next]_(Tcp!vars)
    BY DEF RuntimeNext, tcp_vars, Tcp!vars
<1> QED
    BY <1>1, <1>2, <1>3

\* reserve_sequence_range and advance (client.rs): no request number is used
\* twice, whatever crashes and clock settings happen.
THEOREM RequestNumbersUsedOnce == RuntimeSpec => []NumbersUsedOnce
<1>1. run => IInv
    BY InitIInv DEF run
<1>2. IInv /\ [RuntimeNext]_<<process, vars, udp_vars, tcp_vars>> => IInv'
    BY StepIInv, OneProcessRuns
<1>3. IInv => NumbersUsedOnce
    BY DEF IInv, UseInv, NumbersUsedOnce
<1> QED
    BY <1>1, <1>2, <1>3, PTL DEF RuntimeSpec

\* The order of the file-system calls in reserve_sequence_range: no crash leaves
\* an unreadable checkpoint.
THEOREM CheckpointStaysReadable == RuntimeSpec => []CheckpointReadable
<1>1. run => IInv
    BY InitIInv DEF run
<1>2. IInv /\ [RuntimeNext]_<<process, vars, udp_vars, tcp_vars>> => IInv'
    BY StepIInv, OneProcessRuns
<1>3. IInv => CheckpointReadable
    BY NumbersAreNat DEF IInv, ReservationInv, TypeOK, Files, CheckpointReadable
<1> QED
    BY <1>1, <1>2, <1>3, PTL DEF RuntimeSpec

\* reserve_sequence_range (client.rs): ranges are handed out in increasing order,
\* over restarts of processes and of the machine.
THEOREM HandedOutRangesIncrease == RuntimeSpec => RangesIncrease
<1>1. run => IInv
    BY InitIInv DEF run
<1>2. IInv /\ [RuntimeNext]_<<process, vars, udp_vars, tcp_vars>> => IInv'
    BY StepIInv, OneProcessRuns
<1>3. IInv /\ [RuntimeNext]_<<process, vars, udp_vars, tcp_vars>> =>
          [\A w \in Workers : pc[w] = "renamed" /\ pc'[w] = "ready" => top <= value[w]]_vars
    BY OneProcessRuns DEF IInv, ReservationInv, Inside
<1> QED
    BY <1>1, <1>2, <1>3, PTL DEF RuntimeSpec, RangesIncrease

\* udp.rs: reassembly joins the fragments of one message only, whatever is lost,
\* repeated, late or left from an earlier session.
THEOREM MessagesDeliveredWhole == RuntimeSpec => []DeliveredWhole
<1>1. run => Udp!IInv
    BY UdpInit DEF run
<1>2. Udp!IInv /\ [RuntimeNext]_<<process, vars, udp_vars, tcp_vars>> => Udp!IInv'
    BY UdpStep, OneProcessRuns
<1>3. Udp!IInv => DeliveredWhole
    BY DEF Udp!IInv, DeliveredWhole
<1> QED
    BY <1>1, <1>2, <1>3, PTL DEF RuntimeSpec

\* udp.rs: the reassembly's account, its budget, the peers' shares and the cached
\* deadline are right after any sequence of fragments, losses and timers.
THEOREM ReassemblyAccountsKept == RuntimeSpec => []AccountsKept
<1>1. run => Udp!IInv
    BY UdpInit DEF run
<1>2. Udp!IInv /\ [RuntimeNext]_<<process, vars, udp_vars, tcp_vars>> => Udp!IInv'
    BY UdpStep, OneProcessRuns
<1>3. Udp!IInv => AccountsKept
    BY DEF Udp!IInv, AccountsKept
<1> QED
    BY <1>1, <1>2, <1>3, PTL DEF RuntimeSpec

\* stream.rs: every route leads to an open connection and every open connection is
\* a route, and a frame somebody waits for is with one of them.
THEOREM RoutesStayOpen == RuntimeSpec => []RoutesOpen
<1>1. run => Tcp!IInv
    BY TcpInit DEF run
<1>2. Tcp!IInv /\ [RuntimeNext]_<<process, vars, udp_vars, tcp_vars>> => Tcp!IInv'
    BY TcpStep, OneProcessRuns
<1>3. Tcp!IInv => RoutesOpen
    BY DEF Tcp!IInv, RoutesOpen
<1> QED
    BY <1>1, <1>2, <1>3, PTL DEF RuntimeSpec

\* stream.rs: a sender that is told of success has its frame written, and one that
\* is told of a failure to queue it or withdrew it in time never has.
THEOREM SuccessIsWritten == RuntimeSpec => []SuccessMeansWritten
<1>1. run => Tcp!IInv
    BY TcpInit DEF run
<1>2. Tcp!IInv /\ [RuntimeNext]_<<process, vars, udp_vars, tcp_vars>> => Tcp!IInv'
    BY TcpStep, OneProcessRuns
<1>3. Tcp!IInv => SuccessMeansWritten
    BY DEF Tcp!IInv, SuccessMeansWritten
<1> QED
    BY <1>1, <1>2, <1>3, PTL DEF RuntimeSpec
=============================================================================

------------------------- MODULE ExchangeLink_proofs -------------------------
(***************************************************************************)
(* What the FakeWire exchange keeps for all constants, over any number of  *)
(* lost cycles and reboots: the types and counts that both programs        *)
(* assert, that no packet starts in another, and that packets arrive whole *)
(* and in order.  The argument follows the two streams of symbols.  On its *)
(* way up a packet is always written to its end.  On its way down it may   *)
(* be torn where a transmit buffer was full or the flight side reset; then *)
(* an ERROR_PACKET or a handshake goes out before the next START_PACKET.   *)
(***************************************************************************)
EXTENDS ExchangeLink, WellFoundedInduction, NaturalsInduction, SequenceTheorems, TLAPS

IsData(s)  == s.c = "DATA"
IsStart(s) == s.c = "START_PACKET"
IsEnd(s)   == s.c = "END_PACKET"

(* The packets of a stream are among the first n, and in order; and they   *)
(* come after those that were handed up.                                   *)
Ordered(S, n) ==
    /\ \A i \in 1..Len(S) : IsData(S[i]) => S[i].p \in 1..n
    /\ \A i, j \in 1..Len(S) : i < j /\ IsData(S[i]) /\ IsData(S[j]) => S[i].p < S[j].p
Below(p, S) == \A i \in 1..Len(S) : IsData(S[i]) => p < S[i].p
After(packets, S) == \A k \in 1..Len(packets) : Below(packets[k][1], S)
Above(p, packets) == \A k \in 1..Len(packets) : packets[k][1] < p

(* The way up: what is in flight, and what is still to be written.         *)
Up == uplink \o writing
Triples(S) ==
    \A i \in 1..Len(S) :
        /\ IsStart(S[i]) => i < Len(S) /\ IsData(S[i + 1])
        /\ IsData(S[i]) => i < Len(S) /\ IsEnd(S[i + 1]) /\ (i > 1 => IsStart(S[i - 1]))
        /\ IsEnd(S[i]) /\ i > 1 => IsData(S[i - 1])

(* While the flight side receives a packet its rest comes next.            *)
Collecting(e, packets, n, S) ==
    e.recv_state # "LISTENING" =>
        /\ e.recv_state = "RECEIVING" /\ S # <<>>
        /\ \/ IsData(S[1]) /\ e.read_buffer = <<>>
           \/ /\ IsEnd(S[1]) /\ Len(e.read_buffer) = 1 /\ e.read_buffer[1] \in 1..n
              /\ Above(e.read_buffer[1], packets) /\ Below(e.read_buffer[1], S)

(* Tokens are sent for the room of the read duct, of which k packets of    *)
(* this cycle and the one being received are taken.                        *)
Window(e, k) ==
    /\ e.pkts_rcvd <= e.fcts_sent
    /\ k + e.fcts_sent <= e.pkts_rcvd + not_yet_received(e)

FwOK(e) ==
    /\ InvariantsHold(e)
    /\ e.resend_fcts \/ e.resend_pkts => e.exc_state = "OPERATING"
    /\ e.send_secondary_handshake => e.exc_state = "CONNECTING"
    /\ e.send_primary_handshake => e.exc_state # "OPERATING"
    /\ e.recv_state # "LISTENING" => e.exc_state = "OPERATING"

(* The way down: no packet starts in another that is open, and if the last *)
(* one is open when all has arrived, the flight side is going to close it. *)
Closing == {"END_PACKET", "ERROR_PACKET", "HANDSHAKE_1", "HANDSHAKE_2"}
Closed(D, i, j) == \E k \in i..j : D[k].c \in Closing
Separate(open, D) ==
    \A j \in 1..Len(D) : IsStart(D[j]) =>
        /\ open => Closed(D, 1, j - 1)
        /\ \A i \in 1..j - 1 : IsStart(D[i]) => Closed(D, i + 1, j - 1)
OpenEnd(open, D) ==
    \/ open /\ ~Closed(D, 1, Len(D))
    \/ \E i \in 1..Len(D) : IsStart(D[i]) /\ ~Closed(D, i + 1, Len(D))
Warned(e, open, D) ==
    OpenEnd(open, D) =>
        e.exc_state # "HANDSHAKING" /\ (e.exc_state = "OPERATING" => e.write_needs_error)
Torn(D) ==
    \A i \in 2..Len(D) :
        /\ IsData(D[i]) => IsStart(D[i - 1])
        /\ IsEnd(D[i]) => IsData(D[i - 1])

(* What the simulator has collected of a packet comes before what is still *)
(* in flight and after what it handed up, or is about to.                  *)
Gathering(x, got, n, D) ==
    x.RecvInProgress =>
        /\ D # <<>> /\ IsData(D[1]) => x.InboundBuffer = <<>>
        /\ D # <<>> /\ IsEnd(D[1]) => Len(x.InboundBuffer) = 1
        /\ \A b \in 1..Len(x.InboundBuffer) :
              /\ x.InboundBuffer[b] \in 1..n
              /\ Above(x.InboundBuffer[b], got) /\ Above(x.InboundBuffer[b], x.InboundPending)
              /\ Below(x.InboundBuffer[b], D)
SimState(x) ==
    /\ Sim!CheckInvariants(x)
    /\ x.SendSecondaryHandshake => x.State = "CONNECTING"
    /\ x.RecvInProgress => x.State = "OPERATING"
HandedUp(x, got, n) ==
    /\ Whole(got, n) /\ Whole(x.InboundPending, n)
    /\ \A k \in 1..Len(x.InboundPending) : Above(x.InboundPending[k][1], got)
Down(open, n, D) == Ordered(D, n) /\ Separate(open, D) /\ Torn(D)
SimOK(x, got, n, D) ==
    /\ SimState(x) /\ HandedUp(x, got, n) /\ Gathering(x, got, n, D)
    /\ After(got, D) /\ After(x.InboundPending, D) /\ Down(x.RecvInProgress, n, D)

LinkInv ==
    /\ TypeOK /\ FwOK(exc) /\ Window(exc, 0)
    /\ Triples(Up) /\ Ordered(Up, given.sim)
    /\ losses = 0 =>
          /\ Whole(delivered.fw, given.sim) /\ After(delivered.fw, Up)
          /\ Collecting(exc, delivered.fw, given.sim, Up)
    /\ SimOK(ex, delivered.sim, given.fw, downlink)
    /\ Warned(exc, ex.RecvInProgress, downlink)
    /\ failed = "none" \/ (failed = "not listening" /\ losses > 0)

-----------------------------------------------------------------------------
(* Sequences.                                                              *)

LEMMA Appended ==
    ASSUME NEW T, NEW D \in Seq(T), NEW s \in T
    PROVE  /\ Append(D, s) \in Seq(T) /\ Len(D) \in Nat /\ Len(Append(D, s)) = Len(D) + 1
           /\ \A i \in 1..Len(D) : Append(D, s)[i] = D[i]
           /\ Append(D, s)[Len(D) + 1] = s
  BY AppendProperties, LenProperties

LEMMA Dropped ==
    ASSUME NEW T, NEW D \in Seq(T), D # <<>>
    PROVE  /\ Tail(D) \in Seq(T) /\ Len(D) \in Nat /\ Len(D) >= 1 /\ Len(Tail(D)) = Len(D) - 1
           /\ \A i \in 1..Len(Tail(D)) : Tail(D)[i] = D[i + 1]
           /\ D[1] \in T /\ Head(D) = D[1]
<1>1. Len(D) \in Nat /\ Len(D) >= 1
  BY LenProperties, EmptySeq
<1>2. Tail(D) \in Seq(T) /\ Len(Tail(D)) = Len(D) - 1 /\ \A i \in 1..Len(Tail(D)) : Tail(D)[i] = D[i + 1]
  BY HeadTailProperties
<1>3. D[1] \in T /\ Head(D) = D[1]
  BY <1>1, ElementOfSeq, HeadTailProperties
<1> QED
  BY <1>1, <1>2, <1>3

LEMMA Joined ==
    ASSUME NEW T, NEW D \in Seq(T), NEW E \in Seq(T)
    PROVE  /\ D \o E \in Seq(T) /\ Len(D) \in Nat /\ Len(E) \in Nat /\ Len(D \o E) = Len(D) + Len(E)
           /\ \A i \in 1..Len(D) : (D \o E)[i] = D[i]
           /\ \A i \in Len(D) + 1..Len(D) + Len(E) : (D \o E)[i] = E[i - Len(D)]
  BY ConcatProperties, LenProperties

LEMMA Same ==
    ASSUME NEW T, NEW D \in Seq(T), NEW E \in Seq(T), Len(D) = Len(E),
           \A i \in 1..Len(D) : D[i] = E[i]
    PROVE  D = E
  BY SeqEqual

-----------------------------------------------------------------------------
(* The stream down: one symbol less at its head, or one more at its end.   *)

LEMMA ClosedShift ==
    ASSUME NEW D \in Seq(Symbols), D # <<>>, NEW i \in Nat, NEW j \in Nat, 1 <= i, j < Len(D)
    PROVE  Closed(Tail(D), i, j) <=> Closed(D, i + 1, j + 1)
<1>1. \A k \in 1..Len(D) - 1 : Tail(D)[k] = D[k + 1]
  BY Dropped
<1>2. Len(D) \in Nat
  BY LenProperties
<1>3. ASSUME NEW k \in i..j PROVE k \in 1..Len(D) - 1 /\ k + 1 \in i + 1..j + 1 /\ Tail(D)[k] = D[k + 1]
  BY <1>1, <1>2
<1>4. ASSUME NEW k \in i + 1..j + 1 PROVE k - 1 \in i..j /\ Tail(D)[k - 1] = D[k]
  BY <1>1, <1>2
<1> QED
  BY <1>3, <1>4 DEF Closed

LEMMA ClosedStep ==
    ASSUME NEW D, NEW j \in Nat, Closed(D, 1, j), D[1].c \notin Closing
    PROVE  j >= 1 /\ Closed(D, 2, j)
<1>1. PICK k \in 1..j : D[k].c \in Closing
  BY DEF Closed
<1>2. k # 1
  BY <1>1
<1>3. k \in 2..j /\ j >= 1
  BY <1>1, <1>2
<1> QED
  BY <1>1, <1>3 DEF Closed

LEMMA DownTail ==
    ASSUME NEW D \in Seq(Symbols), D # <<>>, NEW n, NEW open \in BOOLEAN, NEW left \in BOOLEAN,
           Down(open, n, D), left => (open \/ IsStart(D[1])) /\ D[1].c \notin Closing
    PROVE  /\ Down(left, n, Tail(D))
           /\ OpenEnd(left, Tail(D)) => OpenEnd(open, D)
           /\ \A p : Below(p, D) => Below(p, Tail(D))
           /\ IsData(D[1]) => Below(D[1].p, Tail(D)) /\ D[1].p \in 1..n
           /\ Tail(D) # <<>> /\ IsData(Tail(D)[1]) => IsStart(D[1])
           /\ Tail(D) # <<>> /\ IsEnd(Tail(D)[1]) => IsData(D[1])
<1> DEFINE L == Len(Tail(D))
<1>1. /\ Len(D) \in Nat /\ Len(D) >= 1 /\ L = Len(D) - 1 /\ Tail(D) \in Seq(Symbols)
      /\ \A i \in 1..L : Tail(D)[i] = D[i + 1] /\ i + 1 \in 2..Len(D)
  BY Dropped
<1> HIDE DEF L
<1>2. Ordered(Tail(D), n)
  <2>1. \A i \in 1..L : i + 1 \in 1..Len(D) /\ Tail(D)[i] = D[i + 1]
    BY <1>1
  <2>2. \A i, j \in 1..L : i < j => i + 1 < j + 1
    BY <1>1
  <2> QED
    BY <2>1, <2>2 DEF Ordered, Down, L
<1>3. Torn(Tail(D))
  <2>1. \A i \in 2..L : /\ i + 1 \in 2..Len(D) /\ Tail(D)[i] = D[i + 1] /\ (i + 1) - 1 = i
                        /\ Tail(D)[i - 1] = D[i]
    BY <1>1
  <2> QED
    BY <2>1 DEF Torn, Down, L
<1>4. Separate(left, Tail(D))
  <2> SUFFICES ASSUME NEW j \in 1..L, IsStart(Tail(D)[j])
               PROVE  /\ left => Closed(Tail(D), 1, j - 1)
                      /\ \A i \in 1..j - 1 : IsStart(Tail(D)[i]) => Closed(Tail(D), i + 1, j - 1)
    BY DEF Separate, L
  <2>1. j + 1 \in 1..Len(D) /\ IsStart(D[j + 1]) /\ (j + 1) - 1 = j /\ j \in Nat
    BY <1>1
  <2>2. (open => Closed(D, 1, j)) /\ \A i \in 1..j : IsStart(D[i]) => Closed(D, i + 1, j)
    BY <2>1 DEF Separate, Down
  <2>3. \A i \in Nat : 1 <= i => (Closed(Tail(D), i, j - 1) <=> Closed(D, i + 1, j))
    <3>1. j - 1 \in Nat /\ j - 1 < Len(D) /\ (j - 1) + 1 = j
      BY <1>1
    <3> QED
      BY <3>1, ClosedShift
  <2>4. left => Closed(D, 2, j)
    <3>1. CASE left /\ open
      <4>1. D[1].c \notin Closing /\ Closed(D, 1, j)
        BY <2>2, <3>1
      <4> QED
        BY <2>1, <4>1, ClosedStep
    <3>2. CASE left /\ IsStart(D[1])
      <4>1. 1 \in 1..j /\ 1 + 1 = 2
        BY <2>1
      <4> QED
        BY <2>2, <3>2, <4>1
    <3> QED
      BY <3>1, <3>2
  <2>5. left => Closed(Tail(D), 1, j - 1)
    <3>1. 1 \in Nat /\ 1 <= 1 /\ 1 + 1 = 2
      OBVIOUS
    <3> QED
      BY <2>3, <2>4, <3>1
  <2>6. ASSUME NEW i \in 1..j - 1, IsStart(Tail(D)[i]) PROVE Closed(Tail(D), i + 1, j - 1)
    <3>1. i + 1 \in 1..j /\ IsStart(D[i + 1]) /\ i + 1 \in Nat /\ 1 <= i + 1
      BY <1>1, <2>6
    <3> QED
      BY <2>2, <2>3, <3>1
  <2> QED
    BY <2>5, <2>6
<1>5. OpenEnd(left, Tail(D)) => OpenEnd(open, D)
  <2>1. \A i \in Nat : 1 <= i => (Closed(Tail(D), i, L) <=> Closed(D, i + 1, Len(D)))
    <3>1. L \in Nat /\ L < Len(D) /\ L + 1 = Len(D)
      BY <1>1
    <3> QED
      BY <3>1, ClosedShift
  <2>2. ASSUME left, ~Closed(Tail(D), 1, L) PROVE OpenEnd(open, D)
    <3>1. ~Closed(D, 1 + 1, Len(D)) /\ 1 + 1 = 2
      BY <2>1, <2>2
    <3>2. ~Closed(D, 2, Len(D))
      BY <3>1
    <3>3. CASE open
      <4>1. ~Closed(D, 1, Len(D))
        BY <1>1, <2>2, <3>2, ClosedStep
      <4> QED
        BY <3>3, <4>1 DEF OpenEnd
    <3>4. CASE IsStart(D[1])
      <4>1. 1 \in 1..Len(D)
        BY <1>1
      <4> QED
        BY <3>1, <3>4, <4>1 DEF OpenEnd
    <3> QED
      BY <2>2, <3>3, <3>4
  <2>3. ASSUME NEW i \in 1..L, IsStart(Tail(D)[i]), ~Closed(Tail(D), i + 1, L) PROVE OpenEnd(open, D)
    <3>1. i + 1 \in 1..Len(D) /\ IsStart(D[i + 1]) /\ i + 1 \in Nat /\ 1 <= i + 1
      BY <1>1, <2>3
    <3>2. ~Closed(D, (i + 1) + 1, Len(D))
      BY <2>1, <2>3, <3>1
    <3> QED
      BY <3>1, <3>2 DEF OpenEnd
  <2> QED
    BY <2>2, <2>3 DEF OpenEnd, L
<1>6. ASSUME NEW p, Below(p, D) PROVE Below(p, Tail(D))
  <2>1. \A i \in 1..L : i + 1 \in 1..Len(D) /\ Tail(D)[i] = D[i + 1]
    BY <1>1
  <2> QED
    BY <1>6, <2>1 DEF Below, L
<1>7. IsData(D[1]) => Below(D[1].p, Tail(D)) /\ D[1].p \in 1..n
  <2>1. 1 \in 1..Len(D) /\ \A i \in 1..L : i + 1 \in 1..Len(D) /\ 1 < i + 1 /\ Tail(D)[i] = D[i + 1]
    BY <1>1
  <2> QED
    BY <2>1 DEF Below, Ordered, Down, L
<1>8. /\ Tail(D) # <<>> /\ IsData(Tail(D)[1]) => IsStart(D[1])
      /\ Tail(D) # <<>> /\ IsEnd(Tail(D)[1]) => IsData(D[1])
  <2>1. ASSUME Tail(D) # <<>> PROVE 2 \in 2..Len(D) /\ Tail(D)[1] = D[2] /\ 2 - 1 = 1
    <3>1. L \in Nat /\ L >= 1
      BY <1>1, <2>1, Dropped DEF L
    <3> QED
      BY <1>1, <3>1
  <2> QED
    BY <2>1 DEF Torn, Down
<1> QED
  BY <1>2, <1>3, <1>4, <1>5, <1>6, <1>7, <1>8 DEF Down

LEMMA ClosedAppend ==
    ASSUME NEW D \in Seq(Symbols), NEW s \in Symbols, NEW i \in Nat, NEW j \in Nat, 1 <= i
    PROVE  /\ j <= Len(D) => (Closed(Append(D, s), i, j) <=> Closed(D, i, j))
           /\ i <= Len(D) + 1 =>
                (Closed(Append(D, s), i, Len(D) + 1) <=> Closed(D, i, Len(D)) \/ s.c \in Closing)
<1> DEFINE A == Append(D, s)
<1>1. Len(D) \in Nat /\ A[Len(D) + 1] = s /\ \A k \in 1..Len(D) : A[k] = D[k]
  BY Appended
<1> HIDE DEF A
<1>2. ASSUME j <= Len(D) PROVE Closed(A, i, j) <=> Closed(D, i, j)
  <2>1. \A k \in i..j : k \in 1..Len(D)
    BY <1>1, <1>2
  <2> QED
    BY <1>1, <2>1 DEF Closed
<1>3. ASSUME i <= Len(D) + 1
      PROVE  Closed(A, i, Len(D) + 1) <=> Closed(D, i, Len(D)) \/ s.c \in Closing
  <2>1. i..Len(D) + 1 = (i..Len(D)) \cup {Len(D) + 1}
    BY <1>1, <1>3
  <2>2. \A k \in i..Len(D) : k \in 1..Len(D)
    BY <1>1
  <2> QED
    BY <1>1, <2>1, <2>2 DEF Closed
<1> QED
  BY <1>2, <1>3 DEF A

LEMMA DownAppend ==
    ASSUME NEW D \in Seq(Symbols), NEW s \in Symbols, NEW n \in Nat, NEW open \in BOOLEAN,
           Down(open, n, D),
           IsStart(s) => ~OpenEnd(open, D),
           IsData(s) => s.p \in 1..n /\ (\A i \in 1..Len(D) : IsData(D[i]) => D[i].p < s.p)
                        /\ D # <<>> /\ IsStart(D[Len(D)]),
           IsEnd(s) => D # <<>> /\ IsData(D[Len(D)])
    PROVE  /\ Down(open, n, Append(D, s))
           /\ s.c \in Closing => ~OpenEnd(open, Append(D, s))
           /\ OpenEnd(open, Append(D, s)) => OpenEnd(open, D) \/ IsStart(s)
<1> DEFINE A == Append(D, s)
           L == Len(D)
<1>1. L \in Nat /\ Len(A) = L + 1 /\ A[L + 1] = s /\ \A k \in 1..L : A[k] = D[k]
  BY Appended
<1>2. D # <<>> => L >= 1
  BY <1>1, EmptySeq
<1>3. /\ \A i, j \in Nat : 1 <= i /\ j <= L => (Closed(A, i, j) <=> Closed(D, i, j))
      /\ \A i \in Nat : 1 <= i /\ i <= L + 1 =>
            (Closed(A, i, L + 1) <=> Closed(D, i, L) \/ s.c \in Closing)
  BY <1>1, ClosedAppend
<1> HIDE DEF A, L
<1>4. Ordered(A, n)
  <2>1. ASSUME NEW i \in 1..L + 1, IsData(A[i]) PROVE A[i].p \in 1..n
    <3>1. CASE i \in 1..L
      BY <1>1, <2>1, <3>1 DEF Ordered, Down, L
    <3>2. CASE i = L + 1
      BY <1>1, <2>1, <3>2
    <3> QED
      BY <1>1, <3>1, <3>2
  <2>2. ASSUME NEW i \in 1..L + 1, NEW j \in 1..L + 1, i < j, IsData(A[i]), IsData(A[j])
        PROVE  A[i].p < A[j].p
    <3>1. i \in 1..L /\ A[i] = D[i]
      BY <1>1, <2>2
    <3>2. CASE j \in 1..L
      BY <1>1, <2>2, <3>1, <3>2 DEF Ordered, Down, L
    <3>3. CASE j = L + 1
      BY <1>1, <2>2, <3>1, <3>3 DEF L
    <3> QED
      BY <1>1, <3>2, <3>3
  <2> QED
    BY <1>1, <2>1, <2>2 DEF Ordered
<1>5. Torn(A)
  <2> SUFFICES ASSUME NEW i \in 2..L + 1
               PROVE  /\ IsData(A[i]) => IsStart(A[i - 1])
                      /\ IsEnd(A[i]) => IsData(A[i - 1])
    BY <1>1 DEF Torn
  <2>1. i - 1 \in 1..L /\ A[i - 1] = D[i - 1]
    BY <1>1
  <2>2. CASE i \in 2..L
    <3>1. A[i] = D[i]
      BY <1>1, <2>2
    <3> QED
      BY <2>1, <2>2, <3>1 DEF Torn, Down, L
  <2>3. CASE i = L + 1
    BY <1>1, <2>1, <2>3 DEF L
  <2> QED
    BY <1>1, <2>2, <2>3
<1>6. Separate(open, A)
  <2> SUFFICES ASSUME NEW j \in 1..L + 1, IsStart(A[j])
               PROVE  /\ open => Closed(A, 1, j - 1)
                      /\ \A i \in 1..j - 1 : IsStart(A[i]) => Closed(A, i + 1, j - 1)
    BY <1>1 DEF Separate
  <2>1. j - 1 \in Nat /\ j - 1 <= L /\ \A i \in 1..j - 1 : i \in 1..L /\ i + 1 \in Nat /\ 1 <= i + 1 /\ A[i] = D[i]
    BY <1>1
  <2>2. /\ Closed(A, 1, j - 1) <=> Closed(D, 1, j - 1)
        /\ \A i \in 1..j - 1 : Closed(A, i + 1, j - 1) <=> Closed(D, i + 1, j - 1)
    <3>1. 1 \in Nat /\ 1 <= 1
      OBVIOUS
    <3> QED
      BY <1>3, <2>1, <3>1
  <2>3. CASE j \in 1..L
    <3>1. IsStart(D[j])
      BY <1>1, <2>3
    <3>2. /\ open => Closed(D, 1, j - 1)
          /\ \A i \in 1..j - 1 : IsStart(D[i]) => Closed(D, i + 1, j - 1)
      BY <2>3, <3>1 DEF Separate, Down, L
    <3> QED
      BY <2>1, <2>2, <3>2
  <2>4. CASE j = L + 1
    <3>1. IsStart(s) /\ j - 1 = L
      BY <1>1, <2>4
    <3>2. (open => Closed(D, 1, L)) /\ \A i \in 1..L : IsStart(D[i]) => Closed(D, i + 1, L)
      BY <3>1 DEF OpenEnd, L
    <3> QED
      BY <2>1, <2>2, <3>1, <3>2
  <2> QED
    BY <1>1, <2>3, <2>4
<1>7. s.c \in Closing => ~OpenEnd(open, A)
  <2>1. ASSUME s.c \in Closing, NEW i \in Nat, 1 <= i, i <= L + 1 PROVE Closed(A, i, L + 1)
    BY <1>3, <2>1
  <2>2. ASSUME s.c \in Closing, NEW i \in 1..L + 1, IsStart(A[i]) PROVE Closed(A, i + 1, L + 1)
    <3>1. i # L + 1
      BY <1>1, <2>2 DEF IsStart, Closing
    <3>2. i + 1 \in Nat /\ 1 <= i + 1 /\ i + 1 <= L + 1
      BY <1>1, <3>1
    <3> QED
      BY <2>1, <2>2, <3>2
  <2>3. 1 \in Nat /\ 1 <= 1 /\ 1 <= L + 1
    BY <1>1
  <2> QED
    BY <1>1, <2>1, <2>2, <2>3 DEF OpenEnd
<1>8. ASSUME OpenEnd(open, A), ~IsStart(s) PROVE OpenEnd(open, D)
  <2>1. CASE open /\ ~Closed(A, 1, L + 1)
    <3>1. 1 \in Nat /\ 1 <= 1 /\ 1 <= L + 1
      BY <1>1
    <3> QED
      BY <1>3, <2>1, <3>1 DEF OpenEnd, L
  <2>2. ASSUME NEW i \in 1..L + 1, IsStart(A[i]), ~Closed(A, i + 1, L + 1) PROVE OpenEnd(open, D)
    <3>1. i \in 1..L /\ IsStart(D[i])
      <4>1. i # L + 1
        BY <1>1, <1>8, <2>2
      <4>2. i \in 1..L
        BY <1>1, <4>1
      <4> QED
        BY <1>1, <2>2, <4>2
    <3>2. i + 1 \in Nat /\ 1 <= i + 1 /\ i + 1 <= L + 1
      BY <1>1, <3>1
    <3>3. ~Closed(D, i + 1, L)
      BY <1>3, <2>2, <3>2
    <3> QED
      BY <3>1, <3>3 DEF OpenEnd, L
  <2> QED
    BY <1>1, <1>8, <2>1, <2>2 DEF OpenEnd
<1> QED
  BY <1>4, <1>5, <1>6, <1>7, <1>8 DEF Down, A

-----------------------------------------------------------------------------
(* The simulator's side receives a symbol.                                 *)

LEMMA Tokens == MaxOutstandingTokens \in Nat /\ ReadFlow \in Nat /\ ReadFlow >= 1 /\ BufferRuns >= 1
                /\ BufferRuns \in Nat /\ TxRoom \in Nat
  BY FwExchangeAssumption

LEMMA EmptyPackets ==
    ASSUME NEW n, NEW S, NEW p
    PROVE  Len(<<>>) = 0 /\ Whole(<<>>, n) /\ After(<<>>, S) /\ Above(p, <<>>)
<1>1. Len(<<>>) = 0 /\ 1..0 = {}
  OBVIOUS
<1> QED
  BY <1>1 DEF Whole, After, Above

(* A symbol that neither starts a packet nor adds to one.                  *)
LEMMA SimKeeps ==
    ASSUME NEW x \in Sim!Exchanges, NEW y \in Sim!Exchanges, NEW got, NEW n \in Nat,
           NEW D \in Seq(Symbols), D # <<>>, SimOK(x, got, n, D), SimState(y),
           y.InboundPending = <<>> \/ y.InboundPending = x.InboundPending,
           y.RecvInProgress =>
              /\ x.RecvInProgress /\ y.InboundBuffer = x.InboundBuffer
              /\ y.InboundPending = x.InboundPending
              /\ D[1].c \notin Closing /\ ~IsData(D[1]) /\ ~IsStart(D[1])
    PROVE  /\ SimOK(y, got, n, Tail(D))
           /\ OpenEnd(y.RecvInProgress, Tail(D)) => OpenEnd(x.RecvInProgress, D)
<1>1. /\ Down(y.RecvInProgress, n, Tail(D))
      /\ OpenEnd(y.RecvInProgress, Tail(D)) => OpenEnd(x.RecvInProgress, D)
      /\ \A p : Below(p, D) => Below(p, Tail(D))
      /\ Tail(D) # <<>> /\ IsData(Tail(D)[1]) => IsStart(D[1])
      /\ Tail(D) # <<>> /\ IsEnd(Tail(D)[1]) => IsData(D[1])
  <2>1. x.RecvInProgress \in BOOLEAN /\ y.RecvInProgress \in BOOLEAN
    BY DEF Sim!Exchanges
  <2> QED
    BY <2>1, DownTail DEF SimOK
<1>2. HandedUp(y, got, n)
  BY EmptyPackets DEF HandedUp, SimOK
<1>3. After(got, Tail(D))
  BY <1>1 DEF After, SimOK
<1>4. After(y.InboundPending, Tail(D))
  BY <1>1, EmptyPackets DEF After, SimOK
<1>5. Gathering(y, got, n, Tail(D))
  BY <1>1 DEF Gathering, SimOK
<1> QED
  BY <1>1, <1>2, <1>3, <1>4, <1>5 DEF SimOK

LEMMA SimStarts ==
    ASSUME NEW x \in Sim!Exchanges, NEW got, NEW n \in Nat,
           NEW D \in Seq(Symbols), D # <<>>, SimOK(x, got, n, D), IsStart(D[1]), x.State = "OPERATING",
           NEW y, y = [x EXCEPT !.InboundBuffer = <<>>, !.RecvInProgress = TRUE, !.PktsRcvd = @ + 1]
    PROVE  /\ ~x.RecvInProgress /\ y \in Sim!Exchanges
           /\ SimOK(y, got, n, Tail(D))
           /\ OpenEnd(y.RecvInProgress, Tail(D)) => OpenEnd(x.RecvInProgress, D)
<1>1. ~x.RecvInProgress
  <2>1. 1 \in 1..Len(D) /\ ~Closed(D, 1, 1 - 1)
    BY Dropped DEF Closed
  <2> QED
    BY <2>1 DEF SimOK, Down, Separate
<1>2. /\ y \in Sim!Exchanges /\ y.RecvInProgress = TRUE /\ y.InboundBuffer = <<>>
      /\ y.InboundPending = x.InboundPending /\ y.State = x.State /\ SimState(y)
  <2>1. <<>> \in Seq(Nat) /\ x.PktsRcvd + 1 \in Nat
    BY DEF Sim!Exchanges
  <2> DEFINE m == x.PktsRcvd + 1
  <2>2. y = [x EXCEPT !.InboundBuffer = <<>>, !.RecvInProgress = TRUE, !.PktsRcvd = m]
    OBVIOUS
  <2> HIDE DEF m
  <2>3. /\ y \in Sim!Exchanges /\ y.RecvInProgress = TRUE /\ y.InboundBuffer = <<>>
        /\ y.InboundPending = x.InboundPending /\ y.State = x.State
        /\ y.SendSecondaryHandshake = x.SendSecondaryHandshake
        /\ y.PktsSent = x.PktsSent /\ y.FctsRcvd = x.FctsRcvd
    BY <2>1, <2>2 DEF Sim!Exchanges, m
  <2>4. SimState(x)
    BY DEF SimOK
  <2> QED
    BY <2>3, <2>4 DEF SimState, Sim!CheckInvariants
<1>3. /\ Down(TRUE, n, Tail(D))
      /\ OpenEnd(TRUE, Tail(D)) => OpenEnd(x.RecvInProgress, D)
      /\ \A p : Below(p, D) => Below(p, Tail(D))
      /\ Tail(D) # <<>> /\ IsEnd(Tail(D)[1]) => IsData(D[1])
  <2>1. x.RecvInProgress \in BOOLEAN /\ TRUE \in BOOLEAN /\ D[1].c \notin Closing
    BY DEF Sim!Exchanges, IsStart, Closing
  <2> QED
    BY <2>1, DownTail DEF SimOK
<1>4. ~IsData(D[1])
  BY DEF IsStart, IsData
<1>5. HandedUp(y, got, n)
  BY <1>2 DEF HandedUp, SimOK
<1>6. After(got, Tail(D)) /\ After(y.InboundPending, Tail(D))
  BY <1>2, <1>3 DEF After, SimOK
<1>7. Gathering(y, got, n, Tail(D))
  <2>1. Len(<<>>) = 0 /\ 1..0 = {}
    OBVIOUS
  <2> QED
    BY <1>2, <1>3, <1>4, <2>1 DEF Gathering
<1> QED
  BY <1>1, <1>2, <1>3, <1>5, <1>6, <1>7 DEF SimOK

LEMMA SimCollects ==
    ASSUME NEW x \in Sim!Exchanges, NEW got, NEW n \in Nat,
           NEW D \in Seq(Symbols), D # <<>>, SimOK(x, got, n, D), IsData(D[1]), x.RecvInProgress,
           NEW y, y = [x EXCEPT !.InboundBuffer = Append(@, D[1].p)]
    PROVE  /\ y \in Sim!Exchanges
           /\ SimOK(y, got, n, Tail(D))
           /\ OpenEnd(y.RecvInProgress, Tail(D)) => OpenEnd(x.RecvInProgress, D)
<1>1. x.InboundBuffer = <<>> /\ D[1].p \in Nat /\ D[1] \in Symbols /\ 1 \in 1..Len(D)
  <2>1. D[1] \in Symbols /\ 1 \in 1..Len(D)
    BY Dropped
  <2>2. Gathering(x, got, n, D)
    BY DEF SimOK
  <2> QED
    BY <2>1, <2>2 DEF Gathering, Symbols
<1>2. y = [x EXCEPT !.InboundBuffer = <<D[1].p>>]
  BY <1>1
<1>3. /\ y \in Sim!Exchanges /\ y.RecvInProgress = TRUE /\ y.InboundBuffer = <<D[1].p>>
      /\ y.InboundPending = x.InboundPending /\ y.State = x.State /\ SimState(y)
  <2>1. <<D[1].p>> \in Seq(Nat)
    BY <1>1
  <2>2. x.RecvInProgress = TRUE
    BY DEF Sim!Exchanges
  <2> QED
    BY <1>2, <2>1, <2>2 DEF Sim!Exchanges, SimOK, SimState, Sim!CheckInvariants
<1>4. /\ Down(TRUE, n, Tail(D))
      /\ OpenEnd(TRUE, Tail(D)) => OpenEnd(x.RecvInProgress, D)
      /\ \A p : Below(p, D) => Below(p, Tail(D))
      /\ Below(D[1].p, Tail(D)) /\ D[1].p \in 1..n
      /\ Tail(D) # <<>> /\ IsData(Tail(D)[1]) => IsStart(D[1])
  <2>1. x.RecvInProgress = TRUE /\ TRUE \in BOOLEAN /\ D[1].c \notin Closing
    BY DEF Sim!Exchanges, IsData, Closing
  <2> QED
    BY <2>1, DownTail DEF SimOK
<1>5. ~IsStart(D[1])
  BY DEF IsStart, IsData
<1>6. HandedUp(y, got, n)
  BY <1>3 DEF HandedUp, SimOK
<1>7. After(got, Tail(D)) /\ After(y.InboundPending, Tail(D))
  BY <1>3, <1>4 DEF After, SimOK
<1>8. Above(D[1].p, got) /\ Above(D[1].p, x.InboundPending)
  BY <1>1 DEF After, Above, Below, SimOK
<1>9. Gathering(y, got, n, Tail(D))
  <2> DEFINE v == D[1].p
  <2>0. y.InboundBuffer = <<v>>
    BY <1>3
  <2> HIDE DEF v
  <2>1. Len(y.InboundBuffer) = 1 /\ y.InboundBuffer[1] = v /\ 1..1 = {1}
    <3>1. Len(<<v>>) = 1 /\ <<v>>[1] = v
      OBVIOUS
    <3>2. 1..1 = {1}
      OBVIOUS
    <3> QED
      BY <2>0, <3>1, <3>2
  <2> USE DEF v
  <2> QED
    BY <1>3, <1>4, <1>5, <1>8, <2>1 DEF Gathering
<1> QED
  BY <1>3, <1>4, <1>6, <1>7, <1>9 DEF SimOK

LEMMA SimHandsUp ==
    ASSUME NEW x \in Sim!Exchanges, NEW got \in Seq(Seq(Nat)), NEW n \in Nat,
           NEW D \in Seq(Symbols), D # <<>>, SimOK(x, got, n, D), IsEnd(D[1]), x.RecvInProgress,
           NEW y, y = [Sim!EndOfPacket(x) EXCEPT !.InboundPending = Append(@, x.InboundBuffer)]
    PROVE  /\ y \in Sim!Exchanges
           /\ SimOK(y, got, n, Tail(D))
           /\ OpenEnd(y.RecvInProgress, Tail(D)) => OpenEnd(x.RecvInProgress, D)
<1> DEFINE b == x.InboundBuffer
           old == x.InboundPending
           new == Append(old, b)
<1>1. b \in Seq(Nat) /\ old \in Seq(Seq(Nat)) /\ x.RecvInProgress = TRUE
  BY DEF Sim!Exchanges
<1>2. /\ Len(b) = 1 /\ b[1] \in 1..n /\ Above(b[1], got) /\ Above(b[1], old) /\ Below(b[1], D)
  <2>1. Len(b) = 1
    BY DEF SimOK, Gathering
  <2> QED
    BY <2>1 DEF SimOK, Gathering
<1>3. /\ Len(old) \in Nat /\ Len(new) = Len(old) + 1 /\ new[Len(old) + 1] = b /\ new \in Seq(Seq(Nat))
      /\ \A k \in 1..Len(old) : new[k] = old[k]
  BY <1>1, Appended
<1> HIDE DEF b, old, new
<1>4. /\ y \in Sim!Exchanges /\ y.RecvInProgress = FALSE /\ y.InboundPending = new /\ SimState(y)
  <2>1. y = [x EXCEPT !.InboundBuffer = <<>>, !.RecvInProgress = FALSE, !.InboundPending = new]
    BY DEF Sim!EndOfPacket, Sim!Exchanges, new, old, b
  <2>2. <<>> \in Seq(Nat)
    OBVIOUS
  <2> QED
    BY <1>3, <2>1, <2>2 DEF Sim!Exchanges, SimOK, SimState, Sim!CheckInvariants
<1>5. /\ Down(FALSE, n, Tail(D))
      /\ OpenEnd(FALSE, Tail(D)) => OpenEnd(x.RecvInProgress, D)
      /\ \A p : Below(p, D) => Below(p, Tail(D))
  <2>1. x.RecvInProgress \in BOOLEAN /\ FALSE \in BOOLEAN
    BY DEF Sim!Exchanges
  <2> QED
    BY <2>1, DownTail DEF SimOK
<1>6. HandedUp(y, got, n)
  <2>1. Whole(got, n) /\ Whole(old, n) /\ \A k \in 1..Len(old) : Above(old[k][1], got)
    BY DEF SimOK, HandedUp, old
  <2>2. ASSUME NEW k \in 1..Len(new)
        PROVE  Len(new[k]) = 1 /\ new[k][1] \in 1..n /\ Above(new[k][1], got)
    <3>1. CASE k \in 1..Len(old)
      BY <1>3, <2>1, <3>1 DEF Whole
    <3>2. CASE k = Len(old) + 1
      BY <1>2, <1>3, <3>2
    <3> QED
      BY <1>3, <3>1, <3>2
  <2>3. ASSUME NEW i \in 1..Len(new), NEW j \in 1..Len(new), i < j PROVE new[i][1] < new[j][1]
    <3>1. i \in 1..Len(old) /\ new[i] = old[i]
      BY <1>3, <2>3
    <3>2. CASE j \in 1..Len(old)
      BY <1>3, <2>1, <2>3, <3>1, <3>2 DEF Whole
    <3>3. CASE j = Len(old) + 1
      BY <1>2, <1>3, <3>1, <3>3 DEF Above
    <3> QED
      BY <1>3, <3>2, <3>3
  <2> QED
    BY <1>4, <2>1, <2>2, <2>3 DEF HandedUp, Whole
<1>7. After(got, Tail(D)) /\ After(new, Tail(D))
  <2>1. After(old, D) /\ After(got, D)
    BY DEF SimOK, old
  <2>2. ASSUME NEW k \in 1..Len(new) PROVE Below(new[k][1], D)
    <3>1. CASE k \in 1..Len(old)
      BY <1>3, <2>1, <3>1 DEF After
    <3>2. CASE k = Len(old) + 1
      BY <1>2, <1>3, <3>2
    <3> QED
      BY <1>3, <3>1, <3>2
  <2> QED
    BY <1>5, <2>1, <2>2 DEF After
<1>8. Gathering(y, got, n, Tail(D))
  BY <1>4 DEF Gathering
<1> QED
  BY <1>4, <1>5, <1>6, <1>7, <1>8 DEF SimOK

(* What a symbol may do to the simulator's side but start a packet, add to *)
(* one, or end one.                                                        *)
Quiet(x, s) ==
    {Sim!Disconnected, Sim!PrimaryHandshake(Sim!Disconnected, s.p)}
    \cup (IF x.State = "CONNECTING" THEN {Sim!PrimaryHandshake(x, s.p)} ELSE {})
    \cup (IF x.State = "HANDSHAKING" THEN {[x EXCEPT !.State = "OPERATING"]} ELSE {})
    \cup (IF s.c \in Closing THEN {Sim!EndOfPacket(x)}
          ELSE IF IsData(s) \/ IsStart(s) THEN {}
          ELSE {x} \cup (IF s.p >= x.FctsRcvd /\ s.p <= x.PktsSent + MaxOutstandingTokens
                         THEN {[x EXCEPT !.FctsRcvd = s.p]} ELSE {}))

LEMMA DisconnectedOK ==
    /\ Sim!Disconnected \in Sim!Exchanges /\ SimState(Sim!Disconnected)
    /\ ~Sim!Disconnected.RecvInProgress /\ Sim!Disconnected.InboundPending = <<>>
<1>1. <<>> \in Seq(Nat) /\ <<>> \in Seq(Seq(Nat))
  OBVIOUS
<1> QED
  BY <1>1, Tokens DEF Sim!Disconnected, Sim!Exchanges, SimState, Sim!CheckInvariants

LEMMA GreetedOK ==
    ASSUME NEW x \in Sim!Exchanges, SimState(x), x.State = "CONNECTING", NEW p \in Nat
    PROVE  LET y == Sim!PrimaryHandshake(x, p) IN
           /\ y \in Sim!Exchanges /\ SimState(y) /\ ~y.RecvInProgress
           /\ y.InboundPending = x.InboundPending
  BY DEF Sim!PrimaryHandshake, Sim!Exchanges, SimState, Sim!CheckInvariants

LEMMA SimQuiet ==
    ASSUME NEW x \in Sim!Exchanges, NEW got, NEW n \in Nat,
           NEW D \in Seq(Symbols), D # <<>>, SimOK(x, got, n, D), NEW y \in Quiet(x, D[1])
    PROVE  /\ y \in Sim!Exchanges
           /\ SimOK(y, got, n, Tail(D))
           /\ OpenEnd(y.RecvInProgress, Tail(D)) => OpenEnd(x.RecvInProgress, D)
<1> DEFINE s == D[1]
<1>1. s \in Symbols /\ s.p \in Nat
  <2>1. D[1] \in Symbols
    BY Dropped
  <2> QED
    BY <2>1 DEF Symbols
<1>2. SimState(x)
  BY DEF SimOK
<1> HIDE DEF s
<1>3. /\ y \in Sim!Exchanges /\ SimState(y)
      /\ y.InboundPending = <<>> \/ y.InboundPending = x.InboundPending
      /\ y.RecvInProgress =>
            /\ x.RecvInProgress /\ y.InboundBuffer = x.InboundBuffer
            /\ y.InboundPending = x.InboundPending
            /\ s.c \notin Closing /\ ~IsData(s) /\ ~IsStart(s)
  <2>1. CASE y = Sim!Disconnected
    BY <2>1, DisconnectedOK
  <2>2. CASE y = Sim!PrimaryHandshake(Sim!Disconnected, s.p)
    <3>1. Sim!Disconnected.State = "CONNECTING"
      BY DEF Sim!Disconnected
    <3> QED
      BY <1>1, <2>2, <3>1, DisconnectedOK, GreetedOK
  <2>3. CASE x.State = "CONNECTING" /\ y = Sim!PrimaryHandshake(x, s.p)
    BY <1>1, <1>2, <2>3, GreetedOK
  <2>4. CASE x.State = "HANDSHAKING" /\ y = [x EXCEPT !.State = "OPERATING"]
    BY <1>2, <2>4 DEF Sim!Exchanges, SimState, Sim!CheckInvariants
  <2>5. CASE s.c \in Closing /\ y = Sim!EndOfPacket(x)
    <3>1. <<>> \in Seq(Nat)
      OBVIOUS
    <3> QED
      BY <1>2, <2>5, <3>1 DEF Sim!EndOfPacket, Sim!Exchanges, SimState, Sim!CheckInvariants
  <2>6. CASE s.c \notin Closing /\ ~IsData(s) /\ ~IsStart(s) /\ y = x
    BY <1>2, <2>6
  <2>7. CASE /\ s.c \notin Closing /\ ~IsData(s) /\ ~IsStart(s)
             /\ s.p >= x.FctsRcvd /\ s.p <= x.PktsSent + MaxOutstandingTokens
             /\ y = [x EXCEPT !.FctsRcvd = s.p]
    <3>1. /\ y \in Sim!Exchanges /\ y.FctsRcvd = s.p /\ y.PktsSent = x.PktsSent
          /\ y.State = x.State /\ y.SendSecondaryHandshake = x.SendSecondaryHandshake
          /\ y.RecvInProgress = x.RecvInProgress /\ y.InboundBuffer = x.InboundBuffer
          /\ y.InboundPending = x.InboundPending
      BY <1>1, <2>7 DEF Sim!Exchanges
    <3>2. x.PktsSent <= s.p
      BY <1>1, <1>2, <2>7 DEF SimState, Sim!CheckInvariants, Sim!Exchanges
    <3> QED
      BY <1>2, <2>7, <3>1, <3>2 DEF SimState, Sim!CheckInvariants
  <2> QED
    BY <2>1, <2>2, <2>3, <2>4, <2>5, <2>6, <2>7 DEF Quiet, s
<1> QED
  BY <1>3, SimKeeps DEF s

LEMMA SimReceives ==
    ASSUME NEW x \in Sim!Exchanges, NEW got \in Seq(Seq(Nat)), NEW n \in Nat,
           NEW D \in Seq(Symbols), D # <<>>, SimOK(x, got, n, D)
    PROVE  LET y == Sim!Receive(x, D[1]) IN
           /\ ~Sim!Panics(x, D[1]) /\ y \in Sim!Exchanges
           /\ SimOK(y, got, n, Tail(D))
           /\ OpenEnd(y.RecvInProgress, Tail(D)) => OpenEnd(x.RecvInProgress, D)
<1> DEFINE s == D[1]
           y == Sim!Receive(x, s)
<1>1. ~Sim!Panics(x, s)
  <2>1. CASE x.State = "OPERATING" /\ IsStart(s)
    BY <2>1, SimStarts DEF Sim!Panics
  <2> QED
    BY <2>1 DEF Sim!Panics, IsStart
<1>2. CASE y \in Quiet(x, s)
  BY <1>1, <1>2, SimQuiet
<1>3. CASE IsStart(s) /\ x.State = "OPERATING"
           /\ y = [x EXCEPT !.InboundBuffer = <<>>, !.RecvInProgress = TRUE, !.PktsRcvd = @ + 1]
  BY <1>1, <1>3, SimStarts
<1>4. CASE IsData(s) /\ x.RecvInProgress /\ y = [x EXCEPT !.InboundBuffer = Append(@, s.p)]
  BY <1>1, <1>4, SimCollects
<1>5. CASE IsEnd(s) /\ x.RecvInProgress
           /\ y = [Sim!EndOfPacket(x) EXCEPT !.InboundPending = Append(@, x.InboundBuffer)]
  BY <1>1, <1>5, SimHandsUp
<1>6. \/ y \in Quiet(x, s)
      \/ IsStart(s) /\ x.State = "OPERATING"
           /\ y = [x EXCEPT !.InboundBuffer = <<>>, !.RecvInProgress = TRUE, !.PktsRcvd = @ + 1]
      \/ IsData(s) /\ x.RecvInProgress /\ y = [x EXCEPT !.InboundBuffer = Append(@, s.p)]
      \/ IsEnd(s) /\ x.RecvInProgress
           /\ y = [Sim!EndOfPacket(x) EXCEPT !.InboundPending = Append(@, x.InboundBuffer)]
  <2> HIDE DEF s
  <2>1. Sim!Disconnected \in Quiet(x, s) /\ Sim!PrimaryHandshake(Sim!Disconnected, s.p) \in Quiet(x, s)
    BY DEF Quiet
  <2>2. CASE IsData(s)
    BY <2>1, <2>2 DEF Sim!Receive, Sim!ReceiveBytes, IsData
  <2>3. CASE ~IsData(s) /\ x.State = "OPERATING"
    <3>1. y = Sim!ReceiveOperating(x, s)
      BY <2>3 DEF Sim!Receive, IsData
    <3>2. CASE s.c = "HANDSHAKE_1"
      BY <2>1, <3>1, <3>2 DEF Sim!ReceiveOperating
    <3>3. CASE s.c = "START_PACKET"
      <4>1. y = Sim!Disconnected \/ y = [x EXCEPT !.InboundBuffer = <<>>, !.RecvInProgress = TRUE, !.PktsRcvd = @ + 1]
        BY <3>1, <3>3 DEF Sim!ReceiveOperating
      <4> QED
        BY <2>1, <2>3, <3>3, <4>1 DEF IsStart
    <3>4. CASE s.c = "END_PACKET"
      <4>1. \/ y = Sim!Disconnected
            \/ x.RecvInProgress /\ y = [Sim!EndOfPacket(x) EXCEPT !.InboundPending = Append(@, x.InboundBuffer)]
        BY <3>1, <3>4 DEF Sim!ReceiveOperating
      <4> QED
        BY <2>1, <3>4, <4>1 DEF IsEnd
    <3>5. CASE s.c = "ERROR_PACKET"
      <4>1. y = Sim!Disconnected \/ y = Sim!EndOfPacket(x)
        BY <3>1, <3>5 DEF Sim!ReceiveOperating
      <4>2. s.c \in Closing
        BY <3>5 DEF Closing
      <4>3. Sim!EndOfPacket(x) \in Quiet(x, s)
        BY <4>2 DEF Quiet
      <4> QED
        BY <2>1, <4>1, <4>3
    <3>6. CASE s.c = "FLOW_CONTROL"
      <4>1. \/ y = Sim!Disconnected
            \/ s.p >= x.FctsRcvd /\ s.p <= x.PktsSent + MaxOutstandingTokens /\ y = [x EXCEPT !.FctsRcvd = s.p]
        BY <3>1, <3>6 DEF Sim!ReceiveOperating
      <4>2. s.c \notin Closing /\ ~IsData(s) /\ ~IsStart(s)
        BY <3>6 DEF Closing, IsData, IsStart
      <4> QED
        BY <2>1, <4>1, <4>2 DEF Quiet
    <3>7. CASE s.c = "KEEP_ALIVE"
      <4>1. y = Sim!Disconnected \/ y = x
        BY <3>1, <3>7 DEF Sim!ReceiveOperating
      <4>2. s.c \notin Closing /\ ~IsData(s) /\ ~IsStart(s)
        BY <3>7 DEF Closing, IsData, IsStart
      <4> QED
        BY <2>1, <4>1, <4>2 DEF Quiet
    <3>8. CASE s.c \notin {"HANDSHAKE_1", "START_PACKET", "END_PACKET", "ERROR_PACKET", "FLOW_CONTROL", "KEEP_ALIVE"}
      <4>1. y = Sim!Disconnected
        BY <3>1, <3>8 DEF Sim!ReceiveOperating
      <4> QED
        BY <2>1, <4>1
    <3> QED
      BY <3>2, <3>3, <3>4, <3>5, <3>6, <3>7, <3>8
  <2>4. CASE ~IsData(s) /\ x.State # "OPERATING"
    <3>1. \/ y = Sim!Disconnected
          \/ x.State = "CONNECTING" /\ y = Sim!PrimaryHandshake(x, s.p)
          \/ x.State = "HANDSHAKING" /\ y = [x EXCEPT !.State = "OPERATING"]
      BY <2>4 DEF Sim!Receive, IsData
    <3> QED
      BY <2>1, <3>1 DEF Quiet
  <2> QED
    BY <2>2, <2>3, <2>4
<1> QED
  BY <1>2, <1>3, <1>4, <1>5, <1>6

-----------------------------------------------------------------------------
(* The flight side transmits.  D is in flight, out is put behind it; the   *)
(* first m packets were given before this clip, n by now.                  *)

Sending(out, D, open, m, n) ==
    /\ out \in Seq(Symbols) /\ Ordered(D, m) /\ Down(open, n, D \o out)
    /\ out # <<>> => ~IsData(out[1]) /\ ~IsEnd(out[1])
    /\ \A i \in 1..Len(out) : IsData(out[i]) => out[i].p > m

TxOK(tx, D, open, m, n) ==
    /\ tx \in [exc : Notes, out : Seq(Symbols)]
    /\ FwOK(tx.exc) /\ Window(tx.exc, 0)
    /\ Sending(tx.out, D, open, m, n) /\ Warned(tx.exc, open, D \o tx.out)

SameReceiver(e, f) == e.recv_state = f.recv_state /\ e.read_buffer = f.read_buffer

LEMMA JoinAppend ==
    ASSUME NEW T, NEW D \in Seq(T), NEW out \in Seq(T), NEW s \in T
    PROVE  D \o Append(out, s) = Append(D \o out, s)
<1> DEFINE E == D \o out
           A == Append(out, s)
           L == Len(D) + Len(out) + 1
<1>1. /\ E \in Seq(T) /\ Len(D) \in Nat /\ Len(out) \in Nat /\ Len(E) = Len(D) + Len(out)
      /\ \A i \in 1..Len(D) : E[i] = D[i]
      /\ \A i \in Len(D) + 1..Len(D) + Len(out) : E[i] = out[i - Len(D)]
  BY Joined
<1>2. /\ A \in Seq(T) /\ Len(A) = Len(out) + 1 /\ A[Len(out) + 1] = s
      /\ \A i \in 1..Len(out) : A[i] = out[i]
  BY Appended
<1>3. /\ D \o A \in Seq(T) /\ Len(D \o A) = Len(D) + Len(A)
      /\ \A i \in 1..Len(D) : (D \o A)[i] = D[i]
      /\ \A i \in Len(D) + 1..Len(D) + Len(A) : (D \o A)[i] = A[i - Len(D)]
  BY <1>2, Joined
<1>4. /\ Append(E, s) \in Seq(T) /\ Len(Append(E, s)) = Len(E) + 1
      /\ Append(E, s)[Len(E) + 1] = s
      /\ \A i \in 1..Len(E) : Append(E, s)[i] = E[i]
  BY <1>1, Appended
<1> HIDE DEF E, A
<1>5. ASSUME NEW i \in 1..L PROVE (D \o A)[i] = Append(E, s)[i]
  <2>1. CASE i \in 1..Len(D)
    BY <1>1, <1>3, <1>4, <2>1
  <2>2. CASE i \in Len(D) + 1..Len(D) + Len(out)
    <3>1. i - Len(D) \in 1..Len(out) /\ i \in Len(D) + 1..Len(D) + Len(A) /\ i \in 1..Len(E)
      BY <1>1, <1>2, <2>2
    <3> QED
      BY <1>1, <1>2, <1>3, <1>4, <2>2, <3>1
  <2>3. CASE i = L
    <3>1. i - Len(D) = Len(out) + 1 /\ i \in Len(D) + 1..Len(D) + Len(A) /\ i = Len(E) + 1
      BY <1>1, <1>2, <2>3
    <3> QED
      BY <1>2, <1>3, <1>4, <3>1
  <2>4. i \in 1..Len(D) \/ i \in Len(D) + 1..Len(D) + Len(out) \/ i = L
    BY <1>1
  <2> QED
    BY <2>1, <2>2, <2>3, <2>4
<1>6. Len(D \o A) = L /\ Len(Append(E, s)) = L
  BY <1>1, <1>2, <1>3, <1>4
<1> QED
  BY <1>3, <1>4, <1>5, <1>6, Same DEF E, A

LEMMA PutOK ==
    ASSUME NEW D \in Seq(Symbols), NEW out, NEW open \in BOOLEAN, NEW m \in Nat, NEW n \in Nat,
           Sending(out, D, open, m, n), NEW s \in Symbols,
           IsStart(s) => ~OpenEnd(open, D \o out),
           IsData(s) =>
              /\ s.p \in m + 1..n /\ out # <<>> /\ IsStart(out[Len(out)])
              /\ \A i \in 1..Len(out) : IsData(out[i]) => out[i].p < s.p,
           IsEnd(s) => out # <<>> /\ IsData(out[Len(out)])
    PROVE  /\ Sending(Append(out, s), D, open, m, n)
           /\ s.c \in Closing => ~OpenEnd(open, D \o Append(out, s))
           /\ OpenEnd(open, D \o Append(out, s)) => OpenEnd(open, D \o out) \/ IsStart(s)
<1> DEFINE E == D \o out
           A == Append(out, s)
<1>0. out \in Seq(Symbols) /\ Ordered(D, m) /\ Down(open, n, E)
  BY DEF Sending
<1>1. /\ E \in Seq(Symbols) /\ Len(D) \in Nat /\ Len(out) \in Nat /\ Len(E) = Len(D) + Len(out)
      /\ \A i \in 1..Len(D) : E[i] = D[i]
      /\ \A i \in Len(D) + 1..Len(D) + Len(out) : E[i] = out[i - Len(D)]
  BY <1>0, Joined
<1>2. /\ A \in Seq(Symbols) /\ Len(A) = Len(out) + 1 /\ A[Len(out) + 1] = s
      /\ \A i \in 1..Len(out) : A[i] = out[i]
  BY <1>0, Appended
<1>3. D \o A = Append(E, s)
  BY <1>0, JoinAppend
<1> HIDE DEF E, A
<1>4. out # <<>> => E # <<>> /\ E[Len(E)] = out[Len(out)]
  <2>1. ASSUME out # <<>> PROVE E # <<>> /\ E[Len(E)] = out[Len(out)]
    <3>1. Len(out) >= 1
      BY <1>0, <1>1, <2>1, EmptySeq
    <3>2. Len(E) \in Len(D) + 1..Len(D) + Len(out) /\ Len(E) - Len(D) = Len(out) /\ Len(E) >= 1
      BY <1>1, <3>1
    <3>3. Len(<<>>) = 0
      OBVIOUS
    <3> QED
      BY <1>1, <3>2, <3>3
  <2> QED
    BY <2>1
<1>5. ASSUME IsData(s), NEW i \in 1..Len(E), IsData(E[i]) PROVE E[i].p < s.p
  <2>1. CASE i \in 1..Len(D)
    <3>1. E[i] = D[i] /\ D[i].p \in 1..m
      BY <1>0, <1>1, <1>5, <2>1 DEF Ordered
    <3> QED
      BY <1>5, <3>1
  <2>2. CASE i \in Len(D) + 1..Len(D) + Len(out)
    <3>1. i - Len(D) \in 1..Len(out) /\ E[i] = out[i - Len(D)]
      BY <1>1, <2>2
    <3> QED
      BY <1>5, <3>1
  <2> QED
    BY <1>1, <2>1, <2>2
<1>6. /\ Down(open, n, Append(E, s))
      /\ s.c \in Closing => ~OpenEnd(open, Append(E, s))
      /\ OpenEnd(open, Append(E, s)) => OpenEnd(open, E) \/ IsStart(s)
  <2>1. IsData(s) => s.p \in 1..n
    OBVIOUS
  <2>2. IsStart(s) => ~OpenEnd(open, E)
    BY DEF E
  <2> QED
    BY <1>0, <1>1, <1>4, <1>5, <2>1, <2>2, DownAppend
<1>7. ~IsData(A[1]) /\ ~IsEnd(A[1])
  <2>1. CASE out = <<>>
    <3>1. Len(out) = 0
      BY <2>1
    <3>2. A[1] = s
      BY <1>2, <3>1
    <3> QED
      BY <2>1, <3>2
  <2>2. CASE out # <<>>
    <3>1. 1 \in 1..Len(out)
      BY <1>0, <1>1, <2>2, EmptySeq
    <3> QED
      BY <1>2, <2>2, <3>1 DEF Sending
  <2> QED
    BY <2>1, <2>2
<1>8. ASSUME NEW i \in 1..Len(A), IsData(A[i]) PROVE A[i].p > m
  <2>1. CASE i \in 1..Len(out)
    BY <1>2, <1>8, <2>1 DEF Sending
  <2>2. CASE i = Len(out) + 1
    BY <1>2, <1>8, <2>2
  <2> QED
    BY <1>1, <1>2, <2>1, <2>2
<1> QED
  BY <1>0, <1>2, <1>3, <1>6, <1>7, <1>8 DEF Sending, E, A

LEMMA MoreGiven ==
    ASSUME NEW m \in Nat, NEW n \in Nat, NEW k \in Nat, n <= k, NEW out, NEW D, NEW open,
           Sending(out, D, open, m, n)
    PROVE  Sending(out, D, open, m, k)
<1>1. 1..n \subseteq 1..k
  OBVIOUS
<1>2. \A E : Ordered(E, n) => Ordered(E, k)
  BY <1>1 DEF Ordered
<1> QED
  BY <1>2 DEF Sending, Down

(* A symbol that is no part of a packet.                                   *)
Apart(s) == ~IsData(s) /\ ~IsStart(s) /\ ~IsEnd(s)

LEMMA SymbolIs ==
    ASSUME NEW c \in Kinds, NEW p \in Nat
    PROVE  Symbol(c, p) \in Symbols /\ Symbol(c, p).c = c /\ Symbol(c, p).p = p
  BY DEF Symbol, Symbols

LEMMA PutApart ==
    ASSUME NEW D \in Seq(Symbols), NEW open \in BOOLEAN, NEW m \in Nat, NEW n \in Nat,
           NEW tx, TxOK(tx, D, open, m, n), NEW c \in Kinds, NEW p \in Nat,
           c \notin {"DATA", "START_PACKET", "END_PACKET"},
           NEW e \in Notes, FwOK(e), Window(e, 0),
           c \notin Closing => e.exc_state = tx.exc.exc_state
                              /\ e.write_needs_error = tx.exc.write_needs_error
    PROVE  /\ TxOK(Put(tx, e, c, p), D, open, m, n) /\ Put(tx, e, c, p).exc = e
           /\ c \in Closing => ~OpenEnd(open, D \o Put(tx, e, c, p).out)
<1> DEFINE s == Symbol(c, p)
           F == D \o tx.out
           G == D \o Append(tx.out, s)
           t == Put(tx, e, c, p)
<1>1. Sending(tx.out, D, open, m, n) /\ Warned(tx.exc, open, F)
  BY DEF TxOK
<1>2. s \in Symbols /\ s.c = c /\ Apart(s)
  BY SymbolIs DEF Apart, IsData, IsStart, IsEnd
<1> HIDE DEF s
<1>3. /\ Sending(Append(tx.out, s), D, open, m, n)
      /\ c \in Closing => ~OpenEnd(open, G)
      /\ OpenEnd(open, G) => OpenEnd(open, F)
  BY <1>1, <1>2, PutOK DEF Apart
<1>4. Warned(e, open, G)
  <2> HIDE DEF F, G
  <2> QED
    BY <1>1, <1>3 DEF Warned
<1>5. t = [exc |-> e, out |-> Append(tx.out, s)]
  BY DEF Put, s
<1>6. t.exc = e /\ t.out = Append(tx.out, s) /\ t \in [exc : Notes, out : Seq(Symbols)]
  <2>1. Append(tx.out, s) \in Seq(Symbols)
    BY <1>3 DEF Sending
  <2> QED
    BY <1>5, <2>1
<1> HIDE DEF t
<1> QED
  BY <1>3, <1>4, <1>6 DEF TxOK, t

LEMMA TokensSent ==
    ASSUME NEW D \in Seq(Symbols), NEW open \in BOOLEAN, NEW m \in Nat, NEW n \in Nat,
           NEW tx, TxOK(tx, D, open, m, n)
    PROVE  TxOK(transmit_tokens(tx), D, open, m, n) /\ SameReceiver(transmit_tokens(tx).exc, tx.exc)
<1> DEFINE d == [tx.exc EXCEPT !.resend_fcts = FALSE]
           fct == IF tx.exc.resend_fcts /\ Fits(tx)
                  THEN Put(tx, d, "FLOW_CONTROL", tx.exc.fcts_sent) ELSE tx
           f == [fct.exc EXCEPT !.resend_pkts = FALSE]
           all == IF fct.exc.resend_pkts /\ Fits(fct)
                  THEN Put(fct, f, "KEEP_ALIVE", fct.exc.pkts_sent) ELSE fct
<1>1. \A t : TxOK(t, D, open, m, n) =>
          t.exc \in Notes /\ FwOK(t.exc) /\ Window(t.exc, 0) /\ t.exc.fcts_sent \in Nat /\ t.exc.pkts_sent \in Nat
  BY DEF TxOK, Notes
<1>2. "FLOW_CONTROL" \in Kinds /\ "KEEP_ALIVE" \in Kinds
  BY DEF Kinds
<1>3. /\ d \in Notes /\ FwOK(d) /\ Window(d, 0) /\ SameReceiver(d, tx.exc)
      /\ d.exc_state = tx.exc.exc_state /\ d.write_needs_error = tx.exc.write_needs_error
  BY <1>1 DEF Notes, FwOK, Window, SameReceiver, InvariantsHold, not_yet_received
<1> HIDE DEF d
<1>4. TxOK(fct, D, open, m, n) /\ SameReceiver(fct.exc, tx.exc)
  BY <1>1, <1>2, <1>3, PutApart DEF SameReceiver
<1> HIDE DEF fct
<1>5. /\ f \in Notes /\ FwOK(f) /\ Window(f, 0) /\ SameReceiver(f, fct.exc)
      /\ f.exc_state = fct.exc.exc_state /\ f.write_needs_error = fct.exc.write_needs_error
  BY <1>1, <1>4 DEF Notes, FwOK, Window, SameReceiver, InvariantsHold, not_yet_received
<1> HIDE DEF f
<1>6. TxOK(all, D, open, m, n) /\ SameReceiver(all.exc, fct.exc)
  BY <1>1, <1>2, <1>4, <1>5, PutApart DEF SameReceiver
<1>7. transmit_tokens(tx) = all
  BY DEF transmit_tokens, fct, d, f
<1> QED
  BY <1>4, <1>6, <1>7 DEF SameReceiver

LEMMA HandshakesSent ==
    ASSUME NEW D \in Seq(Symbols), NEW open \in BOOLEAN, NEW m \in Nat, NEW n \in Nat,
           NEW tx, TxOK(tx, D, open, m, n), NEW id \in Nat, NEW period \in Period
    PROVE  LET t == transmit_handshakes(tx, id, period) IN
           TxOK(t, D, open, m, n) /\ SameReceiver(t.exc, tx.exc)
<1> DEFINE e == tx.exc
           t == transmit_handshakes(tx, id, period)
           g == [e EXCEPT !.send_primary_handshake = FALSE, !.send_secondary_handshake = FALSE]
           d == [g EXCEPT !.exc_state = "OPERATING", !.countdown_timeout = period]
           f == [g EXCEPT !.send_handshake_id = id, !.exc_state = "HANDSHAKING"]
           second == Put(tx, d, "HANDSHAKE_2", e.recv_handshake_id)
           first  == Put(tx, f, "HANDSHAKE_1", id)
<1>1. e \in Notes /\ FwOK(e) /\ Window(e, 0)
  BY DEF TxOK
<1>2. /\ e.recv_handshake_id \in Nat /\ "HANDSHAKE_1" \in Kinds /\ "HANDSHAKE_2" \in Kinds
      /\ "HANDSHAKE_1" \notin {"DATA", "START_PACKET", "END_PACKET"}
      /\ "HANDSHAKE_2" \notin {"DATA", "START_PACKET", "END_PACKET"}
      /\ "HANDSHAKE_1" \in Closing /\ "HANDSHAKE_2" \in Closing
      /\ period \in UNION {0..k : k \in Period}
  <2>1. period \in 0..period
    BY FwExchangeAssumption
  <2> QED
    BY <1>1, <2>1 DEF Notes, Kinds, Closing
<1> HIDE DEF e
<1>3. /\ g \in Notes /\ g.send_primary_handshake = FALSE /\ g.send_secondary_handshake = FALSE
      /\ FwOK(g) /\ Window(g, 0) /\ SameReceiver(g, e) /\ g.exc_state = e.exc_state
  BY <1>1 DEF Notes, FwOK, Window, SameReceiver, InvariantsHold, not_yet_received
<1> HIDE DEF g
<1>4. CASE e.send_secondary_handshake /\ Fits(tx)
  <2>1. d \in Notes /\ FwOK(d) /\ Window(d, 0) /\ SameReceiver(d, e) /\ ~d.send_primary_handshake
    BY <1>2, <1>3 DEF Notes, FwOK, Window, SameReceiver, InvariantsHold, not_yet_received
  <2> HIDE DEF d
  <2>2. TxOK(second, D, open, m, n) /\ second.exc = d
    BY <1>2, <2>1, PutApart
  <2>3. t = IF second.exc.send_primary_handshake /\ Fits(second)
            THEN Put(second, [[second.exc EXCEPT !.send_primary_handshake = FALSE,
                                !.send_secondary_handshake = FALSE] EXCEPT
                                !.send_handshake_id = id, !.exc_state = "HANDSHAKING"], "HANDSHAKE_1", id)
            ELSE second
    BY <1>4 DEF transmit_handshakes, e, d, g
  <2> HIDE DEF second
  <2>4. t = second
    BY <2>1, <2>2, <2>3
  <2> HIDE DEF t
  <2> QED
    BY <2>1, <2>2, <2>4 DEF t, e
<1>5. CASE ~(e.send_secondary_handshake /\ Fits(tx)) /\ e.send_primary_handshake /\ Fits(tx)
  <2>1. e.exc_state # "OPERATING"
    BY <1>1, <1>5 DEF FwOK
  <2>2. f \in Notes /\ FwOK(f) /\ Window(f, 0) /\ SameReceiver(f, e)
    BY <1>2, <1>3, <2>1 DEF Notes, FwOK, Window, SameReceiver, InvariantsHold, not_yet_received
  <2>3. t = first
    BY <1>5 DEF transmit_handshakes, e, f, g
  <2> HIDE DEF f, t
  <2>4. TxOK(first, D, open, m, n) /\ first.exc = f
    BY <1>2, <2>2, PutApart
  <2> QED
    BY <2>2, <2>3, <2>4 DEF e, t
<1>6. CASE ~(e.send_secondary_handshake /\ Fits(tx)) /\ ~(e.send_primary_handshake /\ Fits(tx))
  <2>1. t = tx
    BY <1>6 DEF transmit_handshakes, e
  <2> QED
    BY <2>1 DEF SameReceiver
<1> QED
  BY <1>4, <1>5, <1>6


(* The packets that a cycle is given are numbered m + 1, m + 2, ...        *)
LEMMA PacketSent ==
    ASSUME NEW D \in Seq(Symbols), NEW open \in BOOLEAN, NEW m \in Nat, NEW n \in Nat, m <= n,
           NEW tx, TxOK(tx, D, open, m, n), ~OpenEnd(open, D \o tx.out),
           tx.exc.exc_state = "OPERATING"
    PROVE  LET t == transmit_packet(tx, n + 1) IN
           TxOK(t, D, open, m, n + 1) /\ SameReceiver(t.exc, tx.exc)
<1> DEFINE e == tx.exc
           d == [e EXCEPT !.pkts_sent = @ + 1]
           w == [d EXCEPT !.write_needs_error = TRUE]
           s1 == Symbol("START_PACKET", 0)
           s2 == Symbol("DATA", n + 1)
           s3 == Symbol("END_PACKET", 0)
           out1 == Append(tx.out, s1)
           out2 == Append(out1, s2)
           out3 == Append(out2, s3)
           t == transmit_packet(tx, n + 1)
<1>1. /\ e \in Notes /\ FwOK(e) /\ Window(e, 0) /\ Sending(tx.out, D, open, m, n + 1)
      /\ tx.out \in Seq(Symbols) /\ tx \in [exc : Notes, out : Seq(Symbols)]
  <2>1. n <= n + 1 /\ n + 1 \in Nat
    OBVIOUS
  <2> QED
    BY <2>1, MoreGiven DEF TxOK, Sending
<1>2. /\ s1 \in Symbols /\ s1.c = "START_PACKET" /\ s2 \in Symbols /\ s2.c = "DATA" /\ s2.p = n + 1
      /\ s3 \in Symbols /\ s3.c = "END_PACKET" /\ s3.c \in Closing
  <2>1. {"START_PACKET", "DATA", "END_PACKET"} \subseteq Kinds /\ n + 1 \in Nat /\ 0 \in Nat
    BY DEF Kinds
  <2> QED
    BY <2>1, SymbolIs DEF Closing
<1> HIDE DEF s1, s2, s3
<1>3. Sending(out1, D, open, m, n + 1) /\ out1 # <<>> /\ out1[Len(out1)] = s1
  <2>1. Sending(out1, D, open, m, n + 1)
    BY <1>1, <1>2, PutOK DEF IsStart, IsData, IsEnd
  <2> QED
    BY <1>1, <1>2, <2>1, Appended, EmptySeq, LenProperties
<1>4. \A i \in 1..Len(out1) : IsData(out1[i]) => out1[i].p < n + 1
  <2> SUFFICES ASSUME NEW i \in 1..Len(out1), IsData(out1[i]) PROVE out1[i].p < n + 1
    OBVIOUS
  <2>1. i \in 1..Len(tx.out) /\ out1[i] = tx.out[i]
    <3>1. Len(out1) = Len(tx.out) + 1 /\ out1[Len(tx.out) + 1] = s1 /\ Len(tx.out) \in Nat
          /\ \A k \in 1..Len(tx.out) : out1[k] = tx.out[k]
      BY <1>1, <1>2, Appended
    <3>2. i # Len(tx.out) + 1
      BY <1>2, <3>1 DEF IsData
    <3> QED
      BY <3>1, <3>2
  <2>2. /\ (D \o tx.out)[Len(D) + i] = tx.out[i] /\ Len(D) + i \in 1..Len(D \o tx.out)
    <3>1. /\ Len(D) \in Nat /\ Len(tx.out) \in Nat /\ Len(D \o tx.out) = Len(D) + Len(tx.out)
          /\ \A k \in Len(D) + 1..Len(D) + Len(tx.out) : (D \o tx.out)[k] = tx.out[k - Len(D)]
      BY <1>1, Joined
    <3>2. Len(D) + i \in Len(D) + 1..Len(D) + Len(tx.out) /\ (Len(D) + i) - Len(D) = i
      BY <2>1, <3>1
    <3> QED
      BY <3>1, <3>2
  <2>3. tx.out[i].p \in 1..n
    BY <2>1, <2>2 DEF TxOK, Sending, Down, Ordered
  <2> QED
    BY <2>1, <2>3
<1>5. Sending(out2, D, open, m, n + 1) /\ out2 # <<>> /\ out2[Len(out2)] = s2
  <2>1. Sending(out2, D, open, m, n + 1)
    <3>1. s2.p \in m + 1..n + 1
      BY <1>2
    <3> HIDE DEF out1
    <3> QED
      BY <1>2, <1>3, <1>4, <3>1, PutOK DEF IsStart, IsData, IsEnd
  <2>2. out1 \in Seq(Symbols)
    BY <1>3 DEF Sending
  <2> QED
    BY <1>2, <2>1, <2>2, Appended, EmptySeq, LenProperties
<1>6. Sending(out3, D, open, m, n + 1) /\ ~OpenEnd(open, D \o out3)
  <2> HIDE DEF out2
  <2> QED
    BY <1>2, <1>5, PutOK DEF IsStart, IsData, IsEnd
<1>7. ASSUME e.pkts_sent < e.fcts_rcvd
      PROVE  /\ d \in Notes /\ FwOK(d) /\ Window(d, 0) /\ SameReceiver(d, e)
             /\ w \in Notes /\ FwOK(w) /\ Window(w, 0) /\ SameReceiver(w, e) /\ w.write_needs_error
             /\ w.exc_state = "OPERATING"
  <2>1. /\ d \in Notes /\ FwOK(d) /\ Window(d, 0) /\ SameReceiver(d, e) /\ d.exc_state = "OPERATING"
    <3> DEFINE k == e.pkts_sent + 1
    <3>1. k \in Nat /\ k <= e.fcts_rcvd /\ e.fcts_rcvd <= k + MaxOutstandingTokens
      BY <1>1, <1>7, Tokens DEF Notes, FwOK, InvariantsHold
    <3>2. d = [e EXCEPT !.pkts_sent = k]
      OBVIOUS
    <3> HIDE DEF k, d
    <3> QED
      BY <1>1, <3>1, <3>2 DEF Notes, FwOK, Window, SameReceiver, InvariantsHold, not_yet_received
  <2> HIDE DEF d
  <2>2. /\ w \in Notes /\ w.write_needs_error /\ w.exc_state = "OPERATING"
        /\ FwOK(w) /\ Window(w, 0) /\ SameReceiver(w, d)
    BY <2>1 DEF Notes, FwOK, Window, SameReceiver, InvariantsHold, not_yet_received
  <2> QED
    BY <2>1, <2>2 DEF SameReceiver
<1> DEFINE full == Fits([exc |-> d, out |-> out1]) /\ Fits([exc |-> d, out |-> out2])
<1>8. \/ t = tx
      \/ e.pkts_sent < e.fcts_rcvd /\ t = [exc |-> d, out |-> out3]
      \/ e.pkts_sent < e.fcts_rcvd /\ t = [exc |-> w, out |-> out2]
      \/ e.pkts_sent < e.fcts_rcvd /\ t = [exc |-> w, out |-> out1]
  <2>1. CASE e.pkts_sent >= e.fcts_rcvd \/ ~Fits(tx)
    BY <2>1 DEF transmit_packet, e
  <2>2. CASE ~(e.pkts_sent >= e.fcts_rcvd \/ ~Fits(tx))
    <3>1. e.pkts_sent < e.fcts_rcvd
      BY <1>1, <2>2 DEF Notes
    <3> DEFINE start == [exc |-> d, out |-> out1]
               data == IF Fits(start) THEN [exc |-> d, out |-> out2] ELSE start
    <3>2. t = IF Fits(start) /\ Fits(data) THEN [exc |-> d, out |-> out3]
              ELSE [exc |-> [data.exc EXCEPT !.write_needs_error = TRUE], out |-> data.out]
      BY <2>2 DEF transmit_packet, Started, Put, s1, s2, s3
    <3> QED
      BY <3>1, <3>2
  <2> QED
    BY <2>1, <2>2
<1>9. CASE t = tx
  BY <1>1, <1>9 DEF TxOK, SameReceiver
<1>10. ASSUME NEW out, NEW f, t = [exc |-> f, out |-> out], f \in Notes, FwOK(f), Window(f, 0),
              SameReceiver(f, e), Sending(out, D, open, m, n + 1),
              ~(f.exc_state = "OPERATING" /\ f.write_needs_error) => ~OpenEnd(open, D \o out)
       PROVE  TxOK(t, D, open, m, n + 1) /\ SameReceiver(t.exc, e)
  <2> HIDE DEF t
  <2>1. t.exc = f /\ t.out = out /\ out \in Seq(Symbols) /\ t \in [exc : Notes, out : Seq(Symbols)]
    BY <1>10 DEF Sending
  <2>2. Warned(f, open, D \o out)
    BY <1>10 DEF Warned
  <2> QED
    BY <1>10, <2>1, <2>2 DEF TxOK
<1>11. CASE e.pkts_sent < e.fcts_rcvd /\ t = [exc |-> d, out |-> out3]
  <2> HIDE DEF d, w, e, out1, out2, out3, t
  <2>1. TxOK(t, D, open, m, n + 1) /\ SameReceiver(t.exc, e)
    BY <1>6, <1>7, <1>10, <1>11
  <2> QED
    BY <2>1 DEF t, e
<1>12. CASE e.pkts_sent < e.fcts_rcvd /\ t = [exc |-> w, out |-> out2]
  <2> HIDE DEF d, w, e, out1, out2, out3, t
  <2>1. TxOK(t, D, open, m, n + 1) /\ SameReceiver(t.exc, e)
    BY <1>5, <1>7, <1>10, <1>12
  <2> QED
    BY <2>1 DEF t, e
<1>13. CASE e.pkts_sent < e.fcts_rcvd /\ t = [exc |-> w, out |-> out1]
  <2> HIDE DEF d, w, e, out1, out2, out3, t
  <2>1. TxOK(t, D, open, m, n + 1) /\ SameReceiver(t.exc, e)
    BY <1>3, <1>7, <1>10, <1>13
  <2> QED
    BY <2>1 DEF t, e
<1> QED
  BY <1>8, <1>9, <1>11, <1>12, <1>13

LEMMA DataSent ==
    ASSUME NEW D \in Seq(Symbols), NEW open \in BOOLEAN, NEW m \in Nat, NEW n \in Nat, m <= n,
           NEW tx, TxOK(tx, D, open, m, n)
    PROVE  LET t == exchange_instance_transmit_data(tx, n + 1) IN
           TxOK(t, D, open, m, n + 1) /\ SameReceiver(t.exc, tx.exc)
<1> DEFINE e == tx.exc
           d == [e EXCEPT !.write_needs_error = FALSE]
           warned == Put(tx, d, "ERROR_PACKET", 0)
           t == exchange_instance_transmit_data(tx, n + 1)
<1>1. /\ e \in Notes /\ FwOK(e) /\ Window(e, 0) /\ Warned(e, open, D \o tx.out)
      /\ TxOK(tx, D, open, m, n + 1)
  <2>1. n <= n + 1 /\ n + 1 \in Nat
    OBVIOUS
  <2> QED
    BY <2>1, MoreGiven DEF TxOK
<1>2. CASE t = tx
  BY <1>1, <1>2 DEF SameReceiver
<1>3. CASE e.exc_state = "OPERATING" /\ ~e.write_needs_error /\ t = transmit_packet(tx, n + 1)
  <2>1. ~OpenEnd(open, D \o tx.out)
    BY <1>1, <1>3 DEF Warned
  <2> QED
    BY <1>3, <2>1, PacketSent
<1>4. CASE e.exc_state = "OPERATING" /\ t = transmit_packet(warned, n + 1)
  <2>1. d \in Notes /\ FwOK(d) /\ Window(d, 0) /\ SameReceiver(d, e) /\ d.exc_state = e.exc_state
    BY <1>1 DEF Notes, FwOK, Window, SameReceiver, InvariantsHold, not_yet_received
  <2>2. "ERROR_PACKET" \in Kinds /\ "ERROR_PACKET" \in Closing /\ 0 \in Nat
        /\ "ERROR_PACKET" \notin {"DATA", "START_PACKET", "END_PACKET"}
    BY DEF Kinds, Closing
  <2> HIDE DEF d
  <2>3. /\ TxOK(warned, D, open, m, n) /\ warned.exc = d /\ ~OpenEnd(open, D \o warned.out)
    BY <2>1, <2>2, PutApart
  <2> HIDE DEF warned, t, e
  <2>4. TxOK(t, D, open, m, n + 1) /\ SameReceiver(t.exc, warned.exc)
    BY <1>4, <2>1, <2>3, PacketSent
  <2> QED
    BY <2>1, <2>3, <2>4 DEF SameReceiver, t, e
<1>5. \/ t = tx
      \/ e.exc_state = "OPERATING" /\ ~e.write_needs_error /\ t = transmit_packet(tx, n + 1)
      \/ e.exc_state = "OPERATING" /\ t = transmit_packet(warned, n + 1)
  BY DEF exchange_instance_transmit_data, e, d, warned
<1> QED
  BY <1>2, <1>3, <1>4, <1>5

-----------------------------------------------------------------------------
(* The loops of the two clips, unfolded.                                   *)

LEMMA Least ==
    ASSUME NEW T, T \subseteq Nat, T # {}
    PROVE  \E x \in T : \A y \in T : x <= y
<1> DEFINE Less == {ss \in Nat \X Nat : ss[1] < ss[2]}
<1>1. OpToRel(<, Nat) = Less
  BY Zenon DEF OpToRel
<1>2. IsWellFoundedOn(Less, Nat)
  BY <1>1, NatLessThanWellFounded, Zenon
<1>3. \E x \in T : \A y \in T : ~(<<y, x>> \in Less)
  <2> HIDE DEF Less
  <2> QED
    BY <1>2, WFMin, Zenon
<1>4. PICK x \in T : \A y \in T : ~(<<y, x>> \in Less)
  BY <1>3
<1>5. ASSUME NEW y \in T PROVE x <= y
  <2>1. <<y, x>> \in Nat \X Nat /\ <<y, x>>[1] = y /\ <<y, x>>[2] = x
    OBVIOUS
  <2>2. ~(y < x)
    BY <1>4, <2>1
  <2>3. x \in Nat /\ y \in Nat
    OBVIOUS
  <2> QED
    BY <2>2, <2>3
<1> QED
  BY <1>5

LEMMA Induction ==
    ASSUME NEW T, 0 \in T, \A n \in Nat : n \in T => n + 1 \in T
    PROVE  Nat \subseteq T
<1> DEFINE U == {n \in Nat : n \notin T}
<1>1. ASSUME U # {} PROVE FALSE
  <2>1. PICK x \in U : \A y \in U : x <= y
    BY <1>1, Least
  <2>2. x \in Nat /\ x # 0
    BY <2>1
  <2>3. x - 1 \in Nat /\ x - 1 \notin U
    BY <2>1, <2>2
  <2> QED
    BY <2>1, <2>2, <2>3
<1> QED
  BY <1>1

Received(rx, symbols) ==
    CHOOSE g : g = [n \in 0..Len(symbols) |->
            IF n = 0 THEN rx ELSE exchange_instance_receive(g[n - 1], symbols[n])]

LEMMA ReceiveSteps ==
    ASSUME NEW rx, NEW symbols, Len(symbols) \in Nat
    PROVE  LET after == Received(rx, symbols) IN
           /\ after[0] = rx /\ ReceiveAll(rx, symbols) = after[Len(symbols)]
           /\ \A n \in 1..Len(symbols) : after[n] = exchange_instance_receive(after[n - 1], symbols[n])
<1> DEFINE Step(g, n) == IF n = 0 THEN rx ELSE exchange_instance_receive(g[n - 1], symbols[n])
           T == {m \in Nat : \E g : g = [n \in 0..m |-> Step(g, n)]}
<1>1. 0 \in T
  <2> DEFINE g == [n \in 0..0 |-> rx]
  <2>1. g = [n \in 0..0 |-> Step(g, n)]
    OBVIOUS
  <2> HIDE DEF g, Step
  <2> QED
    BY <2>1
<1>2. ASSUME NEW m \in Nat, m \in T PROVE m + 1 \in T
  <2>1. PICK g : g = [n \in 0..m |-> Step(g, n)]
    BY <1>2
  <2> DEFINE h == [n \in 0..m + 1 |-> IF n = m + 1 THEN exchange_instance_receive(g[m], symbols[m + 1]) ELSE g[n]]
  <2>2. ASSUME NEW n \in 0..m + 1 PROVE h[n] = Step(h, n)
    <3>1. CASE n = m + 1
      <4>1. n # 0 /\ n - 1 = m /\ h[m] = g[m]
        BY <3>1
      <4> QED
        BY <3>1, <4>1
    <3>2. CASE n # m + 1
      <4>1. n \in 0..m /\ h[n] = g[n] /\ g[n] = Step(g, n)
        BY <2>1, <3>2
      <4>2. n # 0 => n - 1 \in 0..m + 1 /\ n - 1 # m + 1 /\ h[n - 1] = g[n - 1]
        BY <4>1
      <4> QED
        BY <4>1, <4>2
    <3> QED
      BY <3>1, <3>2
  <2>3. h = [n \in 0..m + 1 |-> h[n]]
    OBVIOUS
  <2> HIDE DEF h, Step
  <2>4. h = [n \in 0..m + 1 |-> Step(h, n)]
    BY <2>2, <2>3
  <2> QED
    BY <2>4
<1>3. Len(symbols) \in T
  <2> HIDE DEF T
  <2> QED
    BY <1>1, <1>2, Induction
<1>4. \E g : g = [n \in 0..Len(symbols) |-> Step(g, n)]
  BY <1>3
<1> DEFINE after == Received(rx, symbols)
<1>5. after = [n \in 0..Len(symbols) |-> IF n = 0 THEN rx ELSE exchange_instance_receive(after[n - 1], symbols[n])]
  BY <1>4, Zenon DEF Received
<1>6. ReceiveAll(rx, symbols) = after[Len(symbols)]
  BY Zenon DEF ReceiveAll, Received
<1> HIDE DEF after
<1> QED
  BY <1>5, <1>6 DEF after

Transmitted(tx, packets) ==
    CHOOSE g : g = [n \in 0..Len(packets) |->
            IF n = 0 THEN tx ELSE exchange_instance_transmit_data(g[n - 1], packets[n])]

LEMMA TransmitSteps ==
    ASSUME NEW tx, NEW packets, Len(packets) \in Nat
    PROVE  LET after == Transmitted(tx, packets) IN
           /\ after[0] = tx /\ TransmitAll(tx, packets) = after[Len(packets)]
           /\ \A n \in 1..Len(packets) : after[n] = exchange_instance_transmit_data(after[n - 1], packets[n])
<1> DEFINE Step(g, n) == IF n = 0 THEN tx ELSE exchange_instance_transmit_data(g[n - 1], packets[n])
           T == {m \in Nat : \E g : g = [n \in 0..m |-> Step(g, n)]}
<1>1. 0 \in T
  <2> DEFINE g == [n \in 0..0 |-> tx]
  <2>1. g = [n \in 0..0 |-> Step(g, n)]
    OBVIOUS
  <2> HIDE DEF g, Step
  <2> QED
    BY <2>1
<1>2. ASSUME NEW m \in Nat, m \in T PROVE m + 1 \in T
  <2>1. PICK g : g = [n \in 0..m |-> Step(g, n)]
    BY <1>2
  <2> DEFINE h == [n \in 0..m + 1 |-> IF n = m + 1 THEN exchange_instance_transmit_data(g[m], packets[m + 1]) ELSE g[n]]
  <2>2. ASSUME NEW n \in 0..m + 1 PROVE h[n] = Step(h, n)
    <3>1. CASE n = m + 1
      <4>1. n # 0 /\ n - 1 = m /\ h[m] = g[m]
        BY <3>1
      <4> QED
        BY <3>1, <4>1
    <3>2. CASE n # m + 1
      <4>1. n \in 0..m /\ h[n] = g[n] /\ g[n] = Step(g, n)
        BY <2>1, <3>2
      <4>2. n # 0 => n - 1 \in 0..m + 1 /\ n - 1 # m + 1 /\ h[n - 1] = g[n - 1]
        BY <4>1
      <4> QED
        BY <4>1, <4>2
    <3> QED
      BY <3>1, <3>2
  <2>3. h = [n \in 0..m + 1 |-> h[n]]
    OBVIOUS
  <2> HIDE DEF h, Step
  <2>4. h = [n \in 0..m + 1 |-> Step(h, n)]
    BY <2>2, <2>3
  <2> QED
    BY <2>4
<1>3. Len(packets) \in T
  <2> HIDE DEF T
  <2> QED
    BY <1>1, <1>2, Induction
<1>4. \E g : g = [n \in 0..Len(packets) |-> Step(g, n)]
  BY <1>3
<1> DEFINE after == Transmitted(tx, packets)
<1>5. after = [n \in 0..Len(packets) |-> IF n = 0 THEN tx ELSE exchange_instance_transmit_data(after[n - 1], packets[n])]
  BY <1>4, Zenon DEF Transmitted
<1>6. TransmitAll(tx, packets) = after[Len(packets)]
  BY Zenon DEF TransmitAll, Transmitted
<1> HIDE DEF after
<1> QED
  BY <1>5, <1>6 DEF after

LEMMA AllSent ==
    ASSUME NEW D \in Seq(Symbols), NEW open \in BOOLEAN, NEW m \in Nat, NEW k \in Nat,
           NEW packets, Len(packets) = k, \A i \in 1..k : packets[i] = m + i,
           NEW tx, TxOK(tx, D, open, m, m)
    PROVE  LET t == TransmitAll(tx, packets) IN
           TxOK(t, D, open, m, m + k) /\ SameReceiver(t.exc, tx.exc)
<1> DEFINE after == Transmitted(tx, packets)
<1>2. /\ after[0] = tx /\ TransmitAll(tx, packets) = after[k]
      /\ \A n \in 1..k : after[n] = exchange_instance_transmit_data(after[n - 1], packets[n])
  <2>1. Len(packets) \in Nat
    OBVIOUS
  <2>2. after[0] = tx /\ TransmitAll(tx, packets) = after[Len(packets)]
    BY <2>1, TransmitSteps
  <2>3. \A n \in 1..Len(packets) : after[n] = exchange_instance_transmit_data(after[n - 1], packets[n])
    BY <2>1, TransmitSteps
  <2> QED
    BY <2>2, <2>3
<1> HIDE DEF after
<1> DEFINE Good(n) == TxOK(after[n], D, open, m, m + n) /\ SameReceiver(after[n].exc, tx.exc)
           T == {n \in Nat : n <= k => Good(n)}
<1>3. 0 \in T
  <2>1. m + 0 = m
    OBVIOUS
  <2> QED
    BY <1>2, <2>1 DEF SameReceiver
<1>4. ASSUME NEW n \in Nat, n \in T PROVE n + 1 \in T
  <2> SUFFICES ASSUME n + 1 <= k PROVE Good(n + 1)
    OBVIOUS
  <2>1. Good(n)
    BY <1>4
  <2>2. after[n + 1] = exchange_instance_transmit_data(after[n], (m + n) + 1)
    <3>1. n + 1 \in 1..k /\ (n + 1) - 1 = n /\ m + (n + 1) = (m + n) + 1
      OBVIOUS
    <3> QED
      BY <1>2, <3>1
  <2>3. m + n \in Nat /\ m <= m + n /\ m + (n + 1) = (m + n) + 1
    OBVIOUS
  <2>4. TxOK(after[n + 1], D, open, m, (m + n) + 1) /\ SameReceiver(after[n + 1].exc, after[n].exc)
    BY <2>1, <2>2, <2>3, DataSent
  <2> QED
    BY <2>1, <2>3, <2>4 DEF SameReceiver
<1>5. k \in T
  <2> HIDE DEF T
  <2> QED
    BY <1>3, <1>4, Induction
<1> QED
  BY <1>2, <1>5

LEMMA TxClipOK ==
    ASSUME NEW D \in Seq(Symbols), NEW open \in BOOLEAN, NEW m \in Nat, NEW k \in Nat,
           Down(open, m, D), NEW e \in Notes, FwOK(e), Window(e, 0), Warned(e, open, D),
           NEW id \in Nat, NEW period \in Period
    PROVE  LET t == fakewire_exc_tx_clip(e, [i \in 1..k |-> m + i], id, period) IN
           TxOK(t, D, open, m, m + k) /\ SameReceiver(t.exc, e)
<1> DEFINE packets == [i \in 1..k |-> m + i]
           start == [exc |-> e, out |-> <<>>]
           tokens == transmit_tokens(start)
           greeted == transmit_handshakes(tokens, id, period)
           t == TransmitAll(greeted, packets)
<1>1. TxOK(start, D, open, m, m)
  <2>1. <<>> \in Seq(Symbols) /\ Len(<<>>) = 0 /\ 1..0 = {}
    OBVIOUS
  <2>2. D \o <<>> = D
    BY ConcatEmptySeq
  <2>3. Sending(<<>>, D, open, m, m)
    BY <2>1, <2>2 DEF Sending, Down
  <2> QED
    BY <2>1, <2>2, <2>3 DEF TxOK
<1>2. start.exc = e
  OBVIOUS
<1> HIDE DEF start
<1>3. TxOK(tokens, D, open, m, m) /\ SameReceiver(tokens.exc, start.exc)
  BY <1>1, TokensSent
<1> HIDE DEF tokens
<1>4. TxOK(greeted, D, open, m, m) /\ SameReceiver(greeted.exc, tokens.exc)
  BY <1>3, HandshakesSent
<1> HIDE DEF greeted
<1>5. TxOK(t, D, open, m, m + k) /\ SameReceiver(t.exc, greeted.exc)
  <2>1. Len(packets) = k /\ \A i \in 1..k : packets[i] = m + i
    OBVIOUS
  <2> HIDE DEF packets
  <2> QED
    BY <1>4, <2>1, AllSent
<1>6. fakewire_exc_tx_clip(e, packets, id, period) = t
  BY DEF fakewire_exc_tx_clip, start, tokens, greeted
<1> HIDE DEF t, packets
<1>7. SameReceiver(t.exc, e)
  BY <1>2, <1>3, <1>4, <1>5 DEF SameReceiver
<1> QED
  BY <1>5, <1>6, <1>7 DEF t, packets

-----------------------------------------------------------------------------
(* The flight side receives.  S is what is still to come, got what was     *)
(* handed up before this clip; clean, while nothing was lost.              *)

LEMMA UpTail ==
    ASSUME NEW S \in Seq(Symbols), S # <<>>, NEW n, Triples(S), Ordered(S, n)
    PROVE  /\ Tail(S) \in Seq(Symbols) /\ Triples(Tail(S)) /\ Ordered(Tail(S), n)
           /\ \A p : Below(p, S) => Below(p, Tail(S))
           /\ IsStart(S[1]) => Tail(S) # <<>> /\ IsData(Tail(S)[1])
           /\ IsData(S[1]) => Tail(S) # <<>> /\ IsEnd(Tail(S)[1])
           /\ IsData(S[1]) => S[1].p \in 1..n /\ Below(S[1].p, Tail(S))
<1> DEFINE L == Len(Tail(S))
<1>1. /\ Len(S) \in Nat /\ Len(S) >= 1 /\ L = Len(S) - 1 /\ Tail(S) \in Seq(Symbols) /\ L \in Nat
      /\ \A i \in 1..L : Tail(S)[i] = S[i + 1] /\ i + 1 \in 1..Len(S)
  BY Dropped
<1> HIDE DEF L
<1>2. Ordered(Tail(S), n)
  <2>1. \A i, j \in 1..L : i < j => i + 1 < j + 1
    BY <1>1
  <2> QED
    BY <1>1, <2>1 DEF Ordered, L
<1>3. Triples(Tail(S))
  <2> SUFFICES ASSUME NEW i \in 1..L
               PROVE  /\ IsStart(Tail(S)[i]) => i < L /\ IsData(Tail(S)[i + 1])
                      /\ IsData(Tail(S)[i]) => i < L /\ IsEnd(Tail(S)[i + 1]) /\ (i > 1 => IsStart(Tail(S)[i - 1]))
                      /\ IsEnd(Tail(S)[i]) /\ i > 1 => IsData(Tail(S)[i - 1])
    BY DEF Triples, L
  <2>1. i + 1 \in 1..Len(S) /\ Tail(S)[i] = S[i + 1] /\ (i < L <=> i + 1 < Len(S)) /\ i + 1 > 1 /\ (i + 1) - 1 = i
    BY <1>1
  <2>2. i < L => Tail(S)[i + 1] = S[(i + 1) + 1]
    BY <1>1
  <2>3. i > 1 => Tail(S)[i - 1] = S[i] /\ (i - 1) + 1 = i
    BY <1>1
  <2>4. /\ IsStart(S[i + 1]) => i + 1 < Len(S) /\ IsData(S[(i + 1) + 1])
        /\ IsData(S[i + 1]) => i + 1 < Len(S) /\ IsEnd(S[(i + 1) + 1]) /\ IsStart(S[i])
        /\ IsEnd(S[i + 1]) => IsData(S[i])
    BY <2>1 DEF Triples
  <2> QED
    BY <2>1, <2>2, <2>3, <2>4
<1>4. ASSUME NEW p, Below(p, S) PROVE Below(p, Tail(S))
  BY <1>1, <1>4 DEF Below, L
<1>5. 1 \in 1..Len(S) /\ \A i \in 1..L : 1 < i + 1
  BY <1>1
<1>6. IsData(S[1]) => S[1].p \in 1..n /\ Below(S[1].p, Tail(S))
  BY <1>1, <1>5 DEF Below, Ordered, L
<1>7. /\ IsStart(S[1]) => Tail(S) # <<>> /\ IsData(Tail(S)[1])
      /\ IsData(S[1]) => Tail(S) # <<>> /\ IsEnd(Tail(S)[1])
  <2>1. 1 < Len(S) => Tail(S) # <<>> /\ Tail(S)[1] = S[2]
    <3>1. 1 < Len(S) => L # 0 /\ 1 \in 1..L /\ 1 + 1 = 2
      BY <1>1
    <3>2. Len(<<>>) = 0
      OBVIOUS
    <3> QED
      BY <1>1, <3>1, <3>2 DEF L
  <2>2. 1 + 1 = 2
    OBVIOUS
  <2> QED
    BY <1>5, <2>1, <2>2 DEF Triples
<1> QED
  BY <1>1, <1>2, <1>3, <1>4, <1>6, <1>7

RxOK(rx, S, got, n, clean) ==
    /\ rx \in [exc : Notes, packets : Seq(Seq(Nat)), failed : {"none", "not listening"}]
    /\ FwOK(rx.exc) /\ Window(rx.exc, Len(rx.packets))
    /\ Triples(S) /\ Ordered(S, n)
    /\ clean =>
          /\ Whole(got \o rx.packets, n) /\ After(got \o rx.packets, S)
          /\ Collecting(rx.exc, got \o rx.packets, n, S)
    /\ rx.failed = "none" \/ ~clean

(* A note after which the flight side still gives the warnings it owed.    *)
Milder(e, f) ==
    \/ f.exc_state = "CONNECTING" \/ e.exc_state = "HANDSHAKING"
    \/ f.exc_state = e.exc_state /\ f.write_needs_error = e.write_needs_error

LEMMA StillWarned ==
    ASSUME NEW e, NEW f, Milder(e, f), NEW open, NEW D, Warned(e, open, D)
    PROVE  Warned(f, open, D)
  BY DEF Milder, Warned

Kept(e, f, k) == f \in Notes /\ FwOK(f) /\ Window(f, k) /\ Milder(e, f)
Going(e, k) == e \in Notes /\ FwOK(e) /\ Window(e, k) /\ k \in Nat

LEMMA ResetOK ==
    ASSUME NEW e, NEW k, Going(e, k)
    PROVE  LET f == exchange_instance_reset(e) IN
           /\ Kept(e, f, k) /\ Going(f, k) /\ f.recv_state = "LISTENING" /\ f.exc_state = "CONNECTING"
<1> DEFINE f == exchange_instance_reset(e)
<1>1. k <= ReadFlow
  <2>1. e.pkts_rcvd \in Nat /\ e.fcts_sent \in Nat
    BY DEF Going, Notes
  <2> QED
    BY <2>1, Tokens DEF Going, Window, not_yet_received
<1>2. f = exchange_instance_configure(e.countdown_timeout) /\ <<>> \in Seq(Nat)
  BY DEF exchange_instance_reset
<1>3. f \in Notes /\ f.recv_state = "LISTENING" /\ f.exc_state = "CONNECTING"
      /\ f.pkts_rcvd = 0 /\ f.fcts_sent = 0 /\ f.pkts_sent = 0 /\ f.fcts_rcvd = 0
      /\ ~f.resend_fcts /\ ~f.resend_pkts /\ ~f.send_primary_handshake /\ ~f.send_secondary_handshake
  BY <1>2 DEF exchange_instance_configure, Going, Notes
<1> HIDE DEF f
<1>4. FwOK(f)
  BY <1>3, Tokens DEF FwOK, InvariantsHold
<1>5. Window(f, k)
  BY <1>1, <1>3, Tokens DEF Window, not_yet_received, Going
<1> QED
  BY <1>3, <1>4, <1>5 DEF Kept, Going, Milder, f

LEMMA ConnectingKept ==
    ASSUME NEW e, NEW k, Going(e, k), e.exc_state = "CONNECTING", NEW s \in Symbols
    PROVE  LET f == while_connecting(e, s) IN Kept(e, f, k) /\ f.recv_state = "LISTENING"
<1>1. CASE s.c # "HANDSHAKE_1"
  BY <1>1, ResetOK DEF while_connecting
<1>2. CASE s.c = "HANDSHAKE_1"
  <2> DEFINE f == [e EXCEPT !.recv_handshake_id = s.p, !.send_secondary_handshake = TRUE]
  <2>1. f = while_connecting(e, s) /\ s.p \in Nat
    BY <1>2 DEF while_connecting, Symbols
  <2>2. /\ f \in Notes /\ FwOK(f) /\ Window(f, k) /\ f.exc_state = "CONNECTING"
        /\ f.recv_state = "LISTENING"
    BY <2>1 DEF Going, Notes, FwOK, Window, InvariantsHold, not_yet_received
  <2> HIDE DEF f
  <2> QED
    BY <2>1, <2>2 DEF Kept, Milder
<1> QED
  BY <1>1, <1>2

LEMMA HandshakingKept ==
    ASSUME NEW e, NEW k, Going(e, k), e.exc_state = "HANDSHAKING", NEW s \in Symbols
    PROVE  LET f == while_handshaking(e, s) IN Kept(e, f, k) /\ f.recv_state = "LISTENING"
<1>1. CASE s.c # "HANDSHAKE_2" \/ s.p # e.send_handshake_id
  BY <1>1, ResetOK DEF while_handshaking
<1>2. CASE ~(s.c # "HANDSHAKE_2" \/ s.p # e.send_handshake_id)
  <2> DEFINE f == [e EXCEPT !.exc_state = "OPERATING", !.send_primary_handshake = FALSE,
                            !.send_secondary_handshake = FALSE]
  <2>1. f = while_handshaking(e, s)
    BY <1>2 DEF while_handshaking
  <2>2. /\ f \in Notes /\ FwOK(f) /\ Window(f, k) /\ f.recv_state = "LISTENING"
    BY DEF Going, Notes, FwOK, Window, InvariantsHold, not_yet_received
  <2> HIDE DEF f
  <2> QED
    BY <2>1, <2>2 DEF Kept, Milder
<1> QED
  BY <1>1, <1>2

(* One more packet, larger than those before it.                           *)
LEMMA WholeMore ==
    ASSUME NEW all \in Seq(Seq(Nat)), NEW b \in Seq(Nat), NEW n, NEW S,
           Whole(all, n), After(all, S), Len(b) = 1, b[1] \in 1..n, Above(b[1], all), Below(b[1], S)
    PROVE  Whole(Append(all, b), n) /\ After(Append(all, b), S)
<1> DEFINE new == Append(all, b)
<1>1. /\ Len(all) \in Nat /\ Len(new) = Len(all) + 1 /\ new[Len(all) + 1] = b
      /\ \A k \in 1..Len(all) : new[k] = all[k]
  BY Appended
<1> HIDE DEF new
<1>2. ASSUME NEW k \in 1..Len(new)
      PROVE  Len(new[k]) = 1 /\ new[k][1] \in 1..n /\ Below(new[k][1], S)
  <2>1. CASE k \in 1..Len(all)
    BY <1>1, <2>1 DEF Whole, After
  <2>2. CASE k = Len(all) + 1
    BY <1>1, <2>2
  <2> QED
    BY <1>1, <2>1, <2>2
<1>3. ASSUME NEW i \in 1..Len(new), NEW j \in 1..Len(new), i < j PROVE new[i][1] < new[j][1]
  <2>1. i \in 1..Len(all) /\ new[i] = all[i]
    BY <1>1, <1>3
  <2>2. CASE j \in 1..Len(all)
    BY <1>1, <1>3, <2>1, <2>2 DEF Whole
  <2>3. CASE j = Len(all) + 1
    BY <1>1, <2>1, <2>3 DEF Above
  <2> QED
    BY <1>1, <2>2, <2>3
<1> QED
  BY <1>2, <1>3 DEF Whole, After, new

(* A symbol that changes the note and nothing else.                        *)
LEMMA NoteChanged ==
    ASSUME NEW S \in Seq(Symbols), S # <<>>, NEW got, NEW n, NEW clean,
           NEW rx, RxOK(rx, S, got, n, clean), NEW f, Kept(rx.exc, f, Len(rx.packets)),
           clean => \/ f.recv_state = "LISTENING"
                    \/ Collecting(f, got \o rx.packets, n, Tail(S))
    PROVE  RxOK(WithNote(rx, f), Tail(S), got, n, clean) /\ Milder(rx.exc, WithNote(rx, f).exc)
<1> DEFINE t == WithNote(rx, f)
           all == got \o rx.packets
<1>1. /\ t.exc = f /\ t.packets = rx.packets /\ t.failed = rx.failed
      /\ t \in [exc : Notes, packets : Seq(Seq(Nat)), failed : {"none", "not listening"}]
  BY DEF WithNote, RxOK, Kept
<1> HIDE DEF t
<1>2. /\ Triples(Tail(S)) /\ Ordered(Tail(S), n) /\ \A p : Below(p, S) => Below(p, Tail(S))
  BY UpTail DEF RxOK
<1>3. clean => Whole(all, n) /\ After(all, Tail(S)) /\ Collecting(f, all, n, Tail(S))
  <2> HIDE DEF all
  <2>1. clean => Whole(all, n) /\ After(all, S)
    BY DEF RxOK, all
  <2>2. After(all, S) => After(all, Tail(S))
    BY <1>2 DEF After
  <2>3. clean => Collecting(f, all, n, Tail(S))
    BY DEF Collecting, all
  <2> QED
    BY <2>1, <2>2, <2>3
<1>4. t.failed = "none" \/ ~clean
  BY <1>1 DEF RxOK
<1>5. FwOK(f) /\ Window(f, Len(rx.packets)) /\ Milder(rx.exc, f)
  BY DEF Kept
<1> QED
  BY <1>1, <1>2, <1>3, <1>4, <1>5 DEF RxOK, t

LEMMA RxGoing ==
    ASSUME NEW S, NEW got, NEW n, NEW clean, NEW rx, RxOK(rx, S, got, n, clean)
    PROVE  Going(rx.exc, Len(rx.packets))
  BY LenProperties DEF RxOK, Going

LEMMA PacketStarts ==
    ASSUME NEW S \in Seq(Symbols), S # <<>>, IsStart(S[1]), NEW got, NEW n, NEW clean,
           NEW rx, RxOK(rx, S, got, n, clean), rx.exc.exc_state = "OPERATING", rx.failed = "none"
    PROVE  LET t == recv_start_packet(rx) IN
           RxOK(t, Tail(S), got, n, clean) /\ Milder(rx.exc, t.exc)
<1> DEFINE e == rx.exc
           t == recv_start_packet(rx)
           m == e.pkts_rcvd + 1
           f == [e EXCEPT !.read_buffer = <<>>, !.recv_state = "RECEIVING", !.pkts_rcvd = m]
<1>1. Going(e, Len(rx.packets))
  BY RxGoing
<1>2. e.pkts_rcvd \in Nat /\ e.fcts_sent \in Nat /\ m \in Nat /\ Len(rx.packets) \in Nat /\ e \in Notes
  BY <1>1 DEF Going, Notes
<1>3. CASE e.fcts_sent <= e.pkts_rcvd
  <2>1. t = WithNote(rx, exchange_instance_reset(e))
    BY <1>3 DEF recv_start_packet
  <2> QED
    BY <1>1, <2>1, ResetOK, NoteChanged
<1>4. CASE ~(e.fcts_sent <= e.pkts_rcvd) /\ e.recv_state # "LISTENING"
  <2>1. t = Failed(rx, "not listening")
    BY <1>4 DEF recv_start_packet
  <2>2. t.exc = e /\ t.packets = rx.packets /\ t.failed = "not listening"
        /\ t \in [exc : Notes, packets : Seq(Seq(Nat)), failed : {"none", "not listening"}]
    <3>1. rx \in [exc : Notes, packets : Seq(Seq(Nat)), failed : {"none", "not listening"}]
      BY DEF RxOK
    <3>2. t = [exc |-> e, packets |-> rx.packets, failed |-> "not listening"]
      BY <2>1 DEF Failed
    <3> HIDE DEF t
    <3> QED
      BY <3>1, <3>2
  <2>3. ~clean
    BY <1>4 DEF RxOK, Collecting, IsStart, IsData, IsEnd
  <2>4. Triples(Tail(S)) /\ Ordered(Tail(S), n) /\ Milder(e, e)
    BY UpTail DEF RxOK, Milder
  <2> HIDE DEF t
  <2> QED
    BY <2>2, <2>3, <2>4 DEF RxOK, t
<1>5. CASE e.fcts_sent > e.pkts_rcvd /\ e.recv_state = "LISTENING"
  <2>1. Window(e, Len(rx.packets))
    BY DEF RxOK
  <2>2. Len(rx.packets) # ReadFlow
    BY <1>2, <1>5, <2>1, Tokens DEF Window, not_yet_received
  <2>3. t = WithNote(rx, f)
    BY <1>2, <1>5, <2>2 DEF recv_start_packet
  <2>4. Kept(e, f, Len(rx.packets))
    <3>0. <<>> \in Seq(Nat)
      OBVIOUS
    <3>1. FwOK(e)
      BY DEF RxOK
    <3>2. /\ f \in Notes /\ f.exc_state = e.exc_state /\ f.write_needs_error = e.write_needs_error
          /\ f.pkts_rcvd = e.pkts_rcvd + 1 /\ f.fcts_sent = e.fcts_sent /\ f.recv_state = "RECEIVING"
      BY <1>2, <3>0 DEF Notes
    <3>3. FwOK(f)
      BY <1>2, <3>1 DEF FwOK, InvariantsHold, Notes
    <3> HIDE DEF f
    <3>4. Window(f, Len(rx.packets))
      BY <1>2, <1>5, <2>1, <3>2, Tokens DEF Window, not_yet_received
    <3> QED
      BY <3>2, <3>3, <3>4 DEF Kept, Milder
  <2>5. f.recv_state = "RECEIVING" /\ f.read_buffer = <<>>
    BY <1>2 DEF Notes
  <2>6. Tail(S) # <<>> /\ IsData(Tail(S)[1])
    BY UpTail DEF RxOK
  <2> HIDE DEF f, t
  <2>7. Collecting(f, got \o rx.packets, n, Tail(S))
    BY <2>5, <2>6 DEF Collecting
  <2> QED
    BY <2>3, <2>4, <2>7, NoteChanged DEF t
<1> QED
  BY <1>2, <1>3, <1>4, <1>5

LEMMA PacketEnds ==
    ASSUME NEW S \in Seq(Symbols), S # <<>>, IsEnd(S[1]), NEW got \in Seq(Seq(Nat)), NEW n, NEW clean,
           NEW rx, RxOK(rx, S, got, n, clean), rx.exc.exc_state = "OPERATING", rx.failed = "none"
    PROVE  LET t == recv_end_packet(rx) IN
           RxOK(t, Tail(S), got, n, clean) /\ Milder(rx.exc, t.exc)
<1> DEFINE e == rx.exc
           t == recv_end_packet(rx)
           f == [e EXCEPT !.recv_state = "LISTENING"]
           b == e.read_buffer
           k == Len(rx.packets)
           all == got \o rx.packets
           more == Append(rx.packets, b)
<1>1. Going(e, k)
  BY RxGoing
<1>2. /\ e.pkts_rcvd \in Nat /\ e.fcts_sent \in Nat /\ k \in Nat /\ e \in Notes /\ Window(e, k)
      /\ rx.packets \in Seq(Seq(Nat)) /\ b \in Seq(Nat)
  BY <1>1 DEF Going, Notes, RxOK
<1>3. CASE e.recv_state = "LISTENING"
  <2>1. t = WithNote(rx, exchange_instance_reset(e))
    BY <1>3 DEF recv_end_packet
  <2> QED
    BY <1>1, <2>1, ResetOK, NoteChanged
<1>4. ASSUME e.recv_state # "LISTENING"
      PROVE  /\ Kept(e, f, k + 1) /\ Kept(e, f, k) /\ f.recv_state = "LISTENING"
  <2>1. FwOK(e)
    BY DEF RxOK
  <2>2. /\ f \in Notes /\ f.exc_state = e.exc_state /\ f.write_needs_error = e.write_needs_error
        /\ f.pkts_rcvd = e.pkts_rcvd /\ f.fcts_sent = e.fcts_sent /\ f.recv_state = "LISTENING"
        /\ FwOK(f)
    BY <1>2, <2>1 DEF Notes, FwOK, InvariantsHold
  <2> HIDE DEF f
  <2>3. Window(f, k + 1) /\ Window(f, k)
    BY <1>2, <1>4, <2>2, Tokens DEF Window, not_yet_received
  <2> QED
    BY <2>2, <2>3 DEF Kept, Milder
<1>5. CASE e.recv_state # "LISTENING" /\ (e.recv_state = "OVERFLOWED" \/ b = <<>>)
  <2>1. t = WithNote(rx, f)
    BY <1>5 DEF recv_end_packet
  <2> HIDE DEF f, t
  <2> QED
    BY <1>4, <1>5, <2>1, NoteChanged DEF t
<1>6. CASE e.recv_state # "LISTENING" /\ ~(e.recv_state = "OVERFLOWED" \/ b = <<>>)
  <2>1. t = [exc |-> f, packets |-> more, failed |-> rx.failed]
    BY <1>6 DEF recv_end_packet
  <2>2. more \in Seq(Seq(Nat)) /\ Len(more) = k + 1 /\ got \o more = Append(all, b) /\ all \in Seq(Seq(Nat))
    <3>1. more \in Seq(Seq(Nat)) /\ Len(more) = k + 1
      BY <1>2, Appended
    <3>2. all \in Seq(Seq(Nat))
      BY <1>2, Joined
    <3>3. got \o more = Append(all, b)
      BY <1>2, JoinAppend
    <3> QED
      BY <3>1, <3>2, <3>3
  <2> HIDE DEF f, t, more
  <2>3. /\ t.exc = f /\ t.packets = more /\ t.failed = rx.failed
        /\ t \in [exc : Notes, packets : Seq(Seq(Nat)), failed : {"none", "not listening"}]
    BY <1>4, <1>6, <2>1, <2>2 DEF RxOK, Kept
  <2>4. Triples(Tail(S)) /\ Ordered(Tail(S), n) /\ \A p : Below(p, S) => Below(p, Tail(S))
    BY UpTail DEF RxOK
  <2>5. ASSUME clean PROVE Whole(got \o more, n) /\ After(got \o more, Tail(S))
    <3>1. Whole(all, n) /\ After(all, S) /\ Collecting(e, all, n, S)
      BY <2>5 DEF RxOK
    <3> HIDE DEF all
    <3>2. Len(b) = 1 /\ b[1] \in 1..n /\ Above(b[1], all) /\ Below(b[1], S)
      <4>1. ~IsData(S[1])
        BY DEF IsEnd, IsData
      <4> QED
        BY <1>6, <3>1, <4>1 DEF Collecting
    <3>3. Whole(Append(all, b), n) /\ After(Append(all, b), S)
      BY <1>2, <2>2, <3>1, <3>2, WholeMore
    <3>4. After(Append(all, b), Tail(S))
      BY <2>4, <3>3 DEF After
    <3> QED
      BY <2>2, <3>3, <3>4
  <2>6. Collecting(f, got \o more, n, Tail(S))
    BY <1>4, <1>6 DEF Collecting
  <2>7. FwOK(f) /\ Window(f, k + 1) /\ Milder(e, f)
    BY <1>4, <1>6 DEF Kept
  <2>8. t.failed = "none" \/ ~clean
    BY <2>3
  <2> HIDE DEF k, e
  <2>9. RxOK(t, Tail(S), got, n, clean) /\ Milder(e, t.exc)
    BY <2>2, <2>3, <2>4, <2>5, <2>6, <2>7, <2>8 DEF RxOK
  <2> QED
    BY <2>9 DEF t, e
<1> QED
  BY <1>3, <1>5, <1>6

LEMMA DataArrives ==
    ASSUME NEW S \in Seq(Symbols), S # <<>>, IsData(S[1]), NEW got, NEW n \in Nat, NEW clean,
           NEW rx, RxOK(rx, S, got, n, clean)
    PROVE  LET t == WithNote(rx, receive_data_chars(rx.exc, S[1].p)) IN
           RxOK(t, Tail(S), got, n, clean) /\ Milder(rx.exc, t.exc)
<1> DEFINE e == rx.exc
           p == S[1].p
           f == receive_data_chars(e, p)
           k == Len(rx.packets)
           all == got \o rx.packets
<1>1. Going(e, k) /\ FwOK(e) /\ Window(e, k) /\ e \in Notes
  BY RxGoing DEF Going
<1>2. p \in Nat /\ e.read_buffer \in Seq(Nat)
  <2>1. S[1] \in Symbols
    BY Dropped
  <2> QED
    BY <1>1, <2>1 DEF Symbols, Notes
<1>3. ASSUME clean
      PROVE  /\ Whole(all, n) /\ After(all, S)
             /\ e.recv_state # "LISTENING" => e.recv_state = "RECEIVING" /\ e.read_buffer = <<>>
  BY <1>3 DEF RxOK, Collecting, IsData, IsEnd
<1>4. /\ Tail(S) # <<>> /\ IsEnd(Tail(S)[1]) /\ p \in 1..n /\ Below(p, Tail(S))
  BY UpTail DEF RxOK
<1>5. CASE f = exchange_instance_reset(e)
  BY <1>1, <1>5, ResetOK, NoteChanged
<1>6. CASE ~clean /\ f = e
  <2>1. Kept(e, f, k)
    BY <1>1, <1>6 DEF Kept, Milder
  <2> HIDE DEF f
  <2> QED
    BY <1>6, <2>1, NoteChanged DEF f
<1>7. CASE ~clean /\ e.exc_state = "OPERATING" /\ e.recv_state = "RECEIVING"
           /\ f = [e EXCEPT !.recv_state = "OVERFLOWED"]
  <2>1. Kept(e, f, k)
    BY <1>1, <1>7 DEF Kept, Milder, Notes, FwOK, Window, InvariantsHold, not_yet_received
  <2> HIDE DEF f
  <2> QED
    BY <1>7, <2>1, NoteChanged DEF f
<1>8. CASE e.exc_state = "OPERATING" /\ e.recv_state = "RECEIVING"
           /\ f = [e EXCEPT !.read_buffer = Append(@, p)]
  <2> DEFINE more == Append(e.read_buffer, p)
  <2>1. more \in Seq(Nat)
    BY <1>2
  <2>2. f = [e EXCEPT !.read_buffer = more]
    BY <1>8
  <2> HIDE DEF more, f
  <2>3. Kept(e, f, k) /\ f.recv_state = "RECEIVING" /\ f.read_buffer = more
    BY <1>1, <1>8, <2>1, <2>2 DEF Kept, Milder, Notes, FwOK, Window, InvariantsHold, not_yet_received
  <2>4. ASSUME clean PROVE Collecting(f, all, n, Tail(S))
    <3>1. Above(p, all)
      <4> HIDE DEF all
      <4>1. 1 \in 1..Len(S)
        BY Dropped
      <4> QED
        BY <1>3, <2>4, <4>1 DEF After, Above, Below
    <3>2. Len(more) = 1 /\ more[1] = p
      <4>1. e.read_buffer = <<>>
        BY <1>3, <1>8, <2>4
      <4> QED
        BY <4>1 DEF more
    <3> HIDE DEF p, all
    <3> QED
      BY <1>4, <2>3, <3>1, <3>2 DEF Collecting
  <2> QED
    BY <2>3, <2>4, NoteChanged DEF f
<1>9. \/ f = exchange_instance_reset(e)
      \/ ~clean /\ f = e
      \/ ~clean /\ e.exc_state = "OPERATING" /\ e.recv_state = "RECEIVING"
           /\ f = [e EXCEPT !.recv_state = "OVERFLOWED"]
      \/ e.exc_state = "OPERATING" /\ e.recv_state = "RECEIVING"
           /\ f = [e EXCEPT !.read_buffer = Append(@, p)]
  <2>1. CASE e.recv_state = "OVERFLOWED"
    BY <1>3, <2>1 DEF receive_data_chars
  <2>2. CASE e.recv_state # "OVERFLOWED" /\ (e.exc_state # "OPERATING" \/ e.recv_state # "RECEIVING")
    BY <2>2 DEF receive_data_chars
  <2>3. CASE e.exc_state = "OPERATING" /\ e.recv_state = "RECEIVING"
    <3>1. ~clean \/ ~(Len(e.read_buffer) >= BufferRuns)
      <4>1. Len(<<>>) = 0
        OBVIOUS
      <4> QED
        BY <1>3, <2>3, <4>1, Tokens
    <3>2. f = IF Len(e.read_buffer) >= BufferRuns THEN [e EXCEPT !.recv_state = "OVERFLOWED"]
              ELSE [e EXCEPT !.read_buffer = Append(@, p)]
      BY <2>3 DEF receive_data_chars
    <3> QED
      BY <2>3, <3>1, <3>2
  <2> QED
    BY <2>1, <2>2, <2>3
<1> QED
  BY <1>5, <1>6, <1>7, <1>8, <1>9

LEMMA OperatingKept ==
    ASSUME NEW S \in Seq(Symbols), S # <<>>, ~IsData(S[1]), NEW got \in Seq(Seq(Nat)), NEW n \in Nat,
           NEW clean, NEW rx, RxOK(rx, S, got, n, clean), rx.failed = "none",
           rx.exc.exc_state = "OPERATING"
    PROVE  LET t == while_operating(rx, S[1]) IN
           RxOK(t, Tail(S), got, n, clean) /\ Milder(rx.exc, t.exc)
<1> DEFINE e == rx.exc
           s == S[1]
           k == Len(rx.packets)
           t == while_operating(rx, s)
<1>1. Going(e, k) /\ FwOK(e) /\ Window(e, k) /\ e \in Notes
  BY RxGoing DEF Going
<1>2. s \in Symbols /\ s.p \in Nat
  <2>1. S[1] \in Symbols
    BY Dropped
  <2> QED
    BY <2>1 DEF Symbols
<1>3. clean /\ ~IsEnd(s) => e.recv_state = "LISTENING"
  BY DEF RxOK, Collecting
<1>4. ASSUME NEW f, Kept(e, f, k), t = WithNote(rx, f),
             f.recv_state # "LISTENING" => f.recv_state = e.recv_state /\ ~IsEnd(s)
      PROVE  RxOK(t, Tail(S), got, n, clean) /\ Milder(e, t.exc)
  <2>1. clean => f.recv_state = "LISTENING"
    BY <1>3, <1>4
  <2> QED
    BY <1>4, <2>1, NoteChanged
<1> SUFFICES RxOK(t, Tail(S), got, n, clean) /\ Milder(e, t.exc)
  BY DEF t
<1> HIDE DEF t
<1>5. CASE t = WithNote(rx, exchange_instance_reset(e))
  <2> DEFINE f == exchange_instance_reset(e)
  <2>1. Kept(e, f, k) /\ f.recv_state = "LISTENING"
    BY <1>1, ResetOK
  <2> HIDE DEF f
  <2>2. t = WithNote(rx, f)
    BY <1>5 DEF f
  <2> QED
    BY <1>4, <2>1, <2>2
<1>6. CASE s.c = "START_PACKET"
  <2>1. t = recv_start_packet(rx)
    BY <1>6 DEF while_operating, t
  <2> QED
    BY <1>6, <2>1, PacketStarts DEF IsStart, t, e
<1>7. CASE s.c = "END_PACKET"
  <2>1. t = recv_end_packet(rx)
    BY <1>7 DEF while_operating, t
  <2> QED
    BY <1>7, <2>1, PacketEnds DEF IsEnd, t, e
<1>8. CASE s.c = "ERROR_PACKET"
  <2>1. t = WithNote(rx, recv_error_packet(e))
    BY <1>8 DEF while_operating, t
  <2>2. CASE e.recv_state # "LISTENING"
    <3> DEFINE f == [e EXCEPT !.recv_state = "LISTENING"]
    <3>1. t = WithNote(rx, f)
      BY <2>1, <2>2 DEF recv_error_packet
    <3>2. /\ f \in Notes /\ f.exc_state = e.exc_state /\ f.write_needs_error = e.write_needs_error
          /\ f.pkts_rcvd = e.pkts_rcvd /\ f.fcts_sent = e.fcts_sent /\ f.recv_state = "LISTENING"
          /\ FwOK(f)
      BY <1>1 DEF Notes, FwOK, InvariantsHold
    <3> HIDE DEF f
    <3>3. Window(f, k)
      <4>1. k \in Nat /\ e.pkts_rcvd \in Nat /\ e.fcts_sent \in Nat
        BY <1>1 DEF Going, Notes
      <4> HIDE DEF k, e
      <4> QED
        BY <1>1, <2>2, <3>2, <4>1, Tokens DEF Window, not_yet_received
    <3> QED
      BY <1>4, <3>1, <3>2, <3>3 DEF Kept, Milder
  <2> QED
    BY <1>5, <2>1, <2>2 DEF recv_error_packet
<1>9. CASE s.c = "FLOW_CONTROL"
  <2>1. t = WithNote(rx, recv_flow_control(e, s.p))
    BY <1>9 DEF while_operating, t
  <2>2. CASE ~(s.p < e.fcts_rcvd \/ s.p > e.pkts_sent + MaxOutstandingTokens)
    <3> DEFINE f == [e EXCEPT !.fcts_rcvd = s.p]
    <3>1. t = WithNote(rx, f)
      BY <2>1, <2>2 DEF recv_flow_control
    <3>2. /\ f \in Notes /\ f.exc_state = e.exc_state /\ f.write_needs_error = e.write_needs_error
          /\ f.recv_state = e.recv_state /\ Window(f, k)
          /\ f.fcts_rcvd = s.p /\ f.pkts_sent = e.pkts_sent
          /\ f.resend_fcts = e.resend_fcts /\ f.resend_pkts = e.resend_pkts
          /\ f.send_primary_handshake = e.send_primary_handshake
          /\ f.send_secondary_handshake = e.send_secondary_handshake
      BY <1>1, <1>2 DEF Notes, Window, not_yet_received
    <3> HIDE DEF f
    <3>3. FwOK(f)
      <4>1. /\ e.pkts_sent <= e.fcts_rcvd /\ e.fcts_rcvd <= s.p /\ s.p <= e.pkts_sent + MaxOutstandingTokens
            /\ e.pkts_sent \in Nat /\ e.fcts_rcvd \in Nat
        BY <1>1, <1>2, <2>2, Tokens DEF FwOK, InvariantsHold, Notes
      <4>2. e.pkts_sent <= s.p
        BY <1>2, <4>1
      <4> QED
        BY <1>1, <3>2, <4>1, <4>2 DEF FwOK, InvariantsHold
    <3>4. ~IsEnd(s)
      BY <1>9 DEF IsEnd
    <3> QED
      BY <1>4, <3>1, <3>2, <3>3, <3>4 DEF Kept, Milder
  <2> QED
    BY <1>5, <2>1, <2>2 DEF recv_flow_control
<1>10. CASE s.c = "KEEP_ALIVE"
  <2>1. t = WithNote(rx, recv_keep_alive(e, s.p))
    BY <1>10 DEF while_operating, t
  <2>2. CASE t = WithNote(rx, e)
    <3>1. Kept(e, e, k) /\ ~IsEnd(s)
      BY <1>1, <1>10 DEF Kept, Milder, IsEnd
    <3> QED
      BY <1>4, <2>2, <3>1
  <2> QED
    BY <1>5, <2>1, <2>2 DEF recv_keep_alive
<1>11. CASE s.c = "HANDSHAKE_1"
  <2> DEFINE d == exchange_instance_reset(e)
             f == while_connecting(d, s)
  <2>1. t = WithNote(rx, f)
    BY <1>11 DEF while_operating, t
  <2>2. Going(d, k) /\ d.exc_state = "CONNECTING"
    BY <1>1, ResetOK
  <2>3. f.exc_state = "CONNECTING"
    <3>1. f = [d EXCEPT !.recv_handshake_id = s.p, !.send_secondary_handshake = TRUE] /\ d \in Notes
      BY <1>11, <2>2 DEF while_connecting, Going
    <3> HIDE DEF d, f
    <3> QED
      BY <2>2, <3>1 DEF Notes
  <2> HIDE DEF d
  <2>4. Kept(d, f, k) /\ f.recv_state = "LISTENING"
    BY <1>2, <2>2, ConnectingKept
  <2> HIDE DEF f
  <2> QED
    BY <1>4, <2>1, <2>3, <2>4 DEF Kept, Milder
<1>12. CASE s.c \notin {"START_PACKET", "END_PACKET", "ERROR_PACKET", "FLOW_CONTROL", "KEEP_ALIVE", "HANDSHAKE_1"}
  <2>1. t = WithNote(rx, exchange_instance_reset(e))
    BY <1>12 DEF while_operating, t
  <2> QED
    BY <1>5, <2>1
<1> QED
  BY <1>6, <1>7, <1>8, <1>9, <1>10, <1>11, <1>12 DEF t, e

LEMMA SymbolReceived ==
    ASSUME NEW S \in Seq(Symbols), S # <<>>, NEW got \in Seq(Seq(Nat)), NEW n \in Nat,
           NEW clean, NEW rx, RxOK(rx, S, got, n, clean)
    PROVE  LET t == exchange_instance_receive(rx, S[1]) IN
           RxOK(t, Tail(S), got, n, clean) /\ Milder(rx.exc, t.exc)
<1> DEFINE e == rx.exc
           s == S[1]
           k == Len(rx.packets)
           t == exchange_instance_receive(rx, s)
<1>1. Going(e, k) /\ e \in Notes /\ s \in Symbols
  BY RxGoing, Dropped DEF Going
<1>2. CASE rx.failed # "none"
  <2>1. t = rx /\ ~clean
    BY <1>2 DEF exchange_instance_receive, RxOK
  <2>2. Triples(Tail(S)) /\ Ordered(Tail(S), n)
    BY UpTail DEF RxOK
  <2> HIDE DEF t
  <2> QED
    BY <2>1, <2>2 DEF RxOK, Milder, t
<1>3. CASE rx.failed = "none" /\ IsData(s)
  <2>1. t = WithNote(rx, receive_data_chars(e, s.p))
    BY <1>3 DEF exchange_instance_receive, IsData
  <2> QED
    BY <1>3, <2>1, DataArrives
<1>4. CASE rx.failed = "none" /\ ~IsData(s) /\ e.exc_state = "CONNECTING"
  <2>1. t = WithNote(rx, while_connecting(e, s))
    BY <1>4 DEF exchange_instance_receive, IsData
  <2>2. Kept(e, while_connecting(e, s), k) /\ while_connecting(e, s).recv_state = "LISTENING"
    BY <1>1, <1>4, ConnectingKept
  <2> QED
    BY <2>1, <2>2, NoteChanged
<1>5. CASE rx.failed = "none" /\ ~IsData(s) /\ e.exc_state = "HANDSHAKING"
  <2>1. t = WithNote(rx, while_handshaking(e, s))
    BY <1>5 DEF exchange_instance_receive, IsData
  <2>2. Kept(e, while_handshaking(e, s), k) /\ while_handshaking(e, s).recv_state = "LISTENING"
    BY <1>1, <1>5, HandshakingKept
  <2> QED
    BY <2>1, <2>2, NoteChanged
<1>6. CASE rx.failed = "none" /\ ~IsData(s) /\ e.exc_state = "OPERATING"
  <2>1. t = while_operating(rx, s)
    BY <1>6 DEF exchange_instance_receive, IsData
  <2> QED
    BY <1>6, <2>1, OperatingKept
<1>7. e.exc_state \in {"CONNECTING", "HANDSHAKING", "OPERATING"}
  BY <1>1 DEF Notes
<1> QED
  BY <1>2, <1>3, <1>4, <1>5, <1>6, <1>7

-----------------------------------------------------------------------------
(* A receive clip takes the first symbols of the stream.                   *)

Rest(U, i) == SubSeq(U, i + 1, Len(U))

LEMMA RestIs ==
    ASSUME NEW T, NEW U \in Seq(T), NEW i \in 0..Len(U)
    PROVE  /\ Rest(U, i) \in Seq(T) /\ Len(U) \in Nat /\ Len(Rest(U, i)) = Len(U) - i
           /\ \A j \in 1..Len(U) - i : Rest(U, i)[j] = U[i + j]
<1> DEFINE R == [j \in 1..Len(U) - i |-> U[i + j]]
<1>1. Len(U) \in Nat /\ i \in Nat /\ i <= Len(U) /\ Len(U) - i \in Nat
  BY LenProperties
<1>2. Rest(U, i) = [j \in 1..(Len(U) - (i + 1) + 1) |-> U[(i + 1) + j - 1]]
  BY <1>1 DEF Rest
<1>3. Len(U) - (i + 1) + 1 = Len(U) - i /\ \A j \in 1..Len(U) - i : (i + 1) + j - 1 = i + j
  BY <1>1
<1>4. Rest(U, i) = R
  BY <1>2, <1>3
<1>5. \A j \in 1..Len(U) - i : U[i + j] \in T
  <2>1. \A j \in 1..Len(U) - i : i + j \in 1..Len(U)
    BY <1>1
  <2> QED
    BY <2>1, ElementOfSeq
<1>6. R \in Seq(T) /\ Len(R) = Len(U) - i
  BY <1>1, <1>5
<1> QED
  BY <1>1, <1>4, <1>6

LEMMA RestNext ==
    ASSUME NEW T, NEW U \in Seq(T), NEW i \in Nat, i < Len(U)
    PROVE  /\ Rest(U, i) \in Seq(T) /\ Rest(U, i) # <<>> /\ Rest(U, i)[1] = U[i + 1]
           /\ Tail(Rest(U, i)) = Rest(U, i + 1)
<1>1. Len(U) \in Nat
  BY LenProperties
<1>2. i \in 0..Len(U) /\ i + 1 \in 0..Len(U) /\ 1 \in 1..Len(U) - i /\ Len(U) - i # 0
  BY <1>1
<1>3. /\ Rest(U, i) \in Seq(T) /\ Len(Rest(U, i)) = Len(U) - i
      /\ \A j \in 1..Len(U) - i : Rest(U, i)[j] = U[i + j]
  BY <1>2, RestIs
<1>4. /\ Rest(U, i + 1) \in Seq(T) /\ Len(Rest(U, i + 1)) = Len(U) - (i + 1)
      /\ \A j \in 1..Len(U) - (i + 1) : Rest(U, i + 1)[j] = U[(i + 1) + j]
  BY <1>2, RestIs
<1> DEFINE R == Rest(U, i)
           Q == Rest(U, i + 1)
<1>5. R # <<>> /\ R[1] = U[i + 1]
  <2>1. Len(<<>>) = 0
    OBVIOUS
  <2> QED
    BY <1>2, <1>3, <2>1
<1>6. Tail(R) = Q
  <2> HIDE DEF R, Q
  <2>1. /\ Tail(R) \in Seq(T) /\ Len(Tail(R)) = Len(R) - 1
        /\ \A j \in 1..Len(Tail(R)) : Tail(R)[j] = R[j + 1]
    BY <1>3, <1>5, Dropped DEF R
  <2>2. Len(Tail(R)) = Len(Q) /\ Len(Q) = Len(U) - (i + 1)
    <3>1. Len(R) = Len(U) - i /\ Len(Q) = Len(U) - (i + 1)
      BY <1>3, <1>4 DEF R, Q
    <3> QED
      BY <1>1, <2>1, <3>1
  <2>3. ASSUME NEW j \in 1..Len(Tail(R)) PROVE Tail(R)[j] = Q[j]
    <3>1. j \in 1..Len(U) - (i + 1) /\ j + 1 \in 1..Len(U) - i /\ i + (j + 1) = (i + 1) + j
      BY <1>1, <2>2
    <3> QED
      BY <1>3, <1>4, <2>1, <3>1 DEF R, Q
  <2> QED
    BY <1>4, <2>1, <2>2, <2>3, Same DEF Q
<1> QED
  BY <1>3, <1>5, <1>6

LEMMA RestZero ==
    ASSUME NEW T, NEW U \in Seq(T)
    PROVE  Rest(U, 0) = U
<1>1. 0 \in 0..Len(U) /\ Len(U) - 0 = Len(U) /\ \A j \in 1..Len(U) : 0 + j = j
  BY LenProperties
<1>2. /\ Rest(U, 0) \in Seq(T) /\ Len(Rest(U, 0)) = Len(U)
      /\ \A j \in 1..Len(U) : Rest(U, 0)[j] = U[j]
  BY <1>1, RestIs
<1> QED
  BY <1>2, Same

(* What is skipped does no harm to what comes later.                       *)
LEMMA Later ==
    ASSUME NEW U \in Seq(Symbols), NEW n, NEW i \in Nat, NEW k \in Nat, i <= k, k <= Len(U),
           Triples(Rest(U, i)), Ordered(Rest(U, i), n)
    PROVE  /\ Triples(Rest(U, k)) /\ Ordered(Rest(U, k), n)
           /\ \A p : Below(p, Rest(U, i)) => Below(p, Rest(U, k))
<1> DEFINE Good(j) == /\ Triples(Rest(U, j)) /\ Ordered(Rest(U, j), n)
                      /\ \A p : Below(p, Rest(U, i)) => Below(p, Rest(U, j))
           T == {j \in Nat : i + j <= k => Good(i + j)}
<1>1. 0 \in T
  <2>1. i + 0 = i
    OBVIOUS
  <2> QED
    BY <2>1
<1>2. ASSUME NEW j \in Nat, j \in T PROVE j + 1 \in T
  <2> SUFFICES ASSUME i + (j + 1) <= k PROVE Good(i + (j + 1))
    OBVIOUS
  <2> DEFINE h == i + j
  <2>1. h \in Nat /\ h < Len(U) /\ i + (j + 1) = h + 1 /\ Good(h)
    <3>1. Len(U) \in Nat
      BY LenProperties
    <3> QED
      BY <1>2, <3>1
  <2> HIDE DEF h
  <2>2. Rest(U, h) \in Seq(Symbols) /\ Rest(U, h) # <<>> /\ Tail(Rest(U, h)) = Rest(U, h + 1)
    BY <2>1, RestNext
  <2>3. Triples(Rest(U, h + 1)) /\ Ordered(Rest(U, h + 1), n)
        /\ \A p : Below(p, Rest(U, h)) => Below(p, Rest(U, h + 1))
    BY <2>1, <2>2, UpTail
  <2> QED
    BY <2>1, <2>3
<1>3. k - i \in T /\ i + (k - i) = k
  <2>1. k - i \in Nat /\ i + (k - i) = k
    OBVIOUS
  <2> HIDE DEF T
  <2> QED
    BY <1>1, <1>2, <2>1, Induction
<1> QED
  BY <1>3

LEMMA AllReceived ==
    ASSUME NEW U \in Seq(Symbols), NEW got \in Seq(Seq(Nat)), NEW n \in Nat, NEW clean,
           NEW k \in Nat, k <= Len(U),
           NEW symbols, Len(symbols) = k, \A i \in 1..k : symbols[i] = U[i],
           NEW rx, RxOK(rx, U, got, n, clean)
    PROVE  LET t == ReceiveAll(rx, symbols) IN
           RxOK(t, Rest(U, k), got, n, clean) /\ Milder(rx.exc, t.exc)
<1> DEFINE after == Received(rx, symbols)
<1>1. /\ after[0] = rx /\ ReceiveAll(rx, symbols) = after[k]
      /\ \A i \in 1..k : after[i] = exchange_instance_receive(after[i - 1], symbols[i])
  <2>1. Len(symbols) \in Nat
    OBVIOUS
  <2>2. after[0] = rx /\ ReceiveAll(rx, symbols) = after[Len(symbols)]
    BY <2>1, ReceiveSteps
  <2>3. \A i \in 1..Len(symbols) : after[i] = exchange_instance_receive(after[i - 1], symbols[i])
    BY <2>1, ReceiveSteps
  <2> QED
    BY <2>2, <2>3
<1> HIDE DEF after
<1> DEFINE Good(i) == RxOK(after[i], Rest(U, i), got, n, clean) /\ Milder(rx.exc, after[i].exc)
           T == {i \in Nat : i <= k => Good(i)}
<1>2. 0 \in T
  BY <1>1, RestZero DEF Milder
<1>3. ASSUME NEW i \in Nat, i \in T PROVE i + 1 \in T
  <2> SUFFICES ASSUME i + 1 <= k PROVE Good(i + 1)
    OBVIOUS
  <2>1. Good(i) /\ i < Len(U) /\ i + 1 \in 1..k /\ (i + 1) - 1 = i
    <3>1. Len(U) \in Nat
      BY LenProperties
    <3> QED
      BY <1>3, <3>1
  <2>2. after[i + 1] = exchange_instance_receive(after[i], U[i + 1])
    BY <1>1, <2>1
  <2>3. /\ Rest(U, i) \in Seq(Symbols) /\ Rest(U, i) # <<>> /\ Rest(U, i)[1] = U[i + 1]
        /\ Tail(Rest(U, i)) = Rest(U, i + 1)
    BY <2>1, RestNext
  <2>4. RxOK(after[i + 1], Rest(U, i + 1), got, n, clean) /\ Milder(after[i].exc, after[i + 1].exc)
    BY <2>1, <2>2, <2>3, SymbolReceived
  <2>5. Milder(rx.exc, after[i + 1].exc)
    BY <2>1, <2>4 DEF Milder
  <2> QED
    BY <2>4, <2>5
<1>4. k \in T
  <2> HIDE DEF T
  <2> QED
    BY <1>2, <1>3, Induction
<1> QED
  BY <1>1, <1>4

LEMMA CollectingSame ==
    ASSUME NEW e, NEW f, SameReceiver(e, f), NEW all, NEW n, NEW S, Collecting(e, all, n, S)
    PROVE  Collecting(f, all, n, S)
  BY DEF SameReceiver, Collecting

LEMMA TimersOK ==
    ASSUME NEW e \in Notes, FwOK(e), Window(e, 0), NEW period \in Period
    PROVE  LET f == exchange_instance_check_timers(e, period) IN
           f \in Notes /\ FwOK(f) /\ Window(f, 0) /\ SameReceiver(e, f) /\ Milder(e, f)
<1> DEFINE f == exchange_instance_check_timers(e, period)
<1>1. period \in UNION {0..k : k \in Period}
  <2>1. period \in 0..period
    BY FwExchangeAssumption
  <2> QED
    BY <2>1
<1>2. CASE e.countdown_timeout > 1
  <2> DEFINE c == e.countdown_timeout - 1
  <2>1. c \in UNION {0..k : k \in Period}
    <3>1. PICK k \in Period : e.countdown_timeout \in 0..k
      BY DEF Notes
    <3>2. c \in 0..k
      BY <1>2, <3>1, FwExchangeAssumption
    <3> QED
      BY <3>2
  <2>2. f = [e EXCEPT !.countdown_timeout = c]
    BY <1>2 DEF exchange_instance_check_timers
  <2> HIDE DEF c, f
  <2> QED
    BY <2>1, <2>2 DEF Notes, FwOK, Window, InvariantsHold, not_yet_received, SameReceiver, Milder, f
<1>3. CASE ~(e.countdown_timeout > 1) /\ e.exc_state = "OPERATING"
  <2>1. f = [e EXCEPT !.resend_fcts = TRUE, !.resend_pkts = TRUE, !.countdown_timeout = period]
    BY <1>3 DEF exchange_instance_check_timers
  <2> HIDE DEF f
  <2> QED
    BY <1>1, <1>3, <2>1 DEF Notes, FwOK, Window, InvariantsHold, not_yet_received, SameReceiver, Milder, f
<1>4. CASE ~(e.countdown_timeout > 1) /\ e.exc_state # "OPERATING"
  <2>1. f = [e EXCEPT !.send_primary_handshake = TRUE, !.countdown_timeout = period]
    BY <1>4 DEF exchange_instance_check_timers
  <2> HIDE DEF f
  <2> QED
    BY <1>1, <1>4, <2>1 DEF Notes, FwOK, Window, InvariantsHold, not_yet_received, SameReceiver, Milder, f
<1> QED
  BY <1>2, <1>3, <1>4

(* The tokens for the room that is left renew the window.                  *)
LEMMA TokensRenewed ==
    ASSUME NEW e, NEW k, Going(e, k), FwOK(e), NEW period \in Period
    PROVE  LET f == exchange_instance_check_fcts(e, period) IN
           f \in Notes /\ FwOK(f) /\ Window(f, 0) /\ SameReceiver(e, f) /\ Milder(e, f)
<1> DEFINE f == exchange_instance_check_fcts(e, period)
           more == e.pkts_rcvd + not_yet_received(e)
<1>1. /\ e \in Notes /\ e.pkts_rcvd \in Nat /\ e.fcts_sent \in Nat /\ k \in Nat /\ Window(e, k)
      /\ not_yet_received(e) \in Nat /\ more \in Nat /\ e.pkts_rcvd <= more
  <2>1. e \in Notes /\ e.pkts_rcvd \in Nat /\ e.fcts_sent \in Nat /\ k \in Nat /\ Window(e, k)
    BY DEF Going, Notes
  <2>2. not_yet_received(e) \in Nat
    BY Tokens DEF not_yet_received
  <2> QED
    BY <2>1, <2>2
<1>2. CASE e.exc_state = "OPERATING" /\ more > e.fcts_sent
  <2>1. f = [e EXCEPT !.fcts_sent = more, !.resend_fcts = TRUE, !.resend_pkts = TRUE,
                      !.countdown_timeout = period]
    BY <1>2 DEF exchange_instance_check_fcts
  <2>2. period \in UNION {0..h : h \in Period}
    <3>1. period \in 0..period
      BY FwExchangeAssumption
    <3> QED
      BY <3>1
  <2> HIDE DEF more, f
  <2>3. /\ f \in Notes /\ FwOK(f) /\ f.fcts_sent = more /\ f.pkts_rcvd = e.pkts_rcvd
        /\ SameReceiver(e, f) /\ Milder(e, f)
    BY <1>1, <1>2, <2>1, <2>2 DEF Notes, FwOK, InvariantsHold, SameReceiver, Milder
  <2>4. not_yet_received(f) = not_yet_received(e)
    BY <2>3 DEF not_yet_received, SameReceiver
  <2>5. Window(f, 0)
    BY <1>1, <2>3, <2>4 DEF Window, more
  <2> QED
    BY <2>3, <2>5 DEF f
<1>3. CASE ~(e.exc_state = "OPERATING" /\ more > e.fcts_sent)
  <2>1. f = e
    BY <1>3 DEF exchange_instance_check_fcts
  <2>2. Window(e, 0)
    BY <1>1 DEF Window
  <2> HIDE DEF f
  <2> QED
    BY <1>1, <2>1, <2>2 DEF SameReceiver, Milder, f
<1> QED
  BY <1>2, <1>3

ClipOK(r, S, got, n, clean) ==
    /\ r \in [exc : Notes, packets : Seq(Seq(Nat)), failed : {"none", "not listening"}]
    /\ FwOK(r.exc) /\ Window(r.exc, 0)
    /\ clean =>
          /\ Whole(got \o r.packets, n) /\ After(got \o r.packets, S)
          /\ Collecting(r.exc, got \o r.packets, n, S)
    /\ r.failed = "none" \/ ~clean

LEMMA ClipEnds ==
    ASSUME NEW rx, NEW S, NEW got \in Seq(Seq(Nat)), NEW n, NEW clean, RxOK(rx, S, got, n, clean),
           NEW Z, \A p : Below(p, S) => Below(p, Z), NEW f, f \in Notes, FwOK(f), Window(f, 0),
           f.recv_state # "LISTENING" => S = Z /\ SameReceiver(rx.exc, f)
    PROVE  rx.failed = "none" => ClipOK(WithNote(rx, f), Z, got, n, clean)
<1> SUFFICES ASSUME rx.failed = "none" PROVE ClipOK(WithNote(rx, f), Z, got, n, clean)
  OBVIOUS
<1> DEFINE r == WithNote(rx, f)
           all == got \o rx.packets
<1>1. /\ r \in [exc : Notes, packets : Seq(Seq(Nat)), failed : {"none", "not listening"}]
      /\ r.exc = f /\ r.packets = rx.packets /\ r.failed = "none"
  BY DEF WithNote, RxOK
<1> HIDE DEF r
<1>2. clean => Whole(all, n) /\ After(all, Z) /\ Collecting(f, all, n, Z)
  <2> HIDE DEF all
  <2>1. clean => Whole(all, n) /\ After(all, S) /\ Collecting(rx.exc, all, n, S)
    BY DEF RxOK, all
  <2>2. After(all, S) => After(all, Z)
    BY DEF After
  <2>3. clean => Collecting(f, all, n, Z)
    <3>1. CASE f.recv_state = "LISTENING"
      BY <3>1 DEF Collecting
    <3>2. CASE S = Z /\ SameReceiver(rx.exc, f)
      BY <2>1, <3>2, CollectingSame
    <3> QED
      BY <3>1, <3>2
  <2> QED
    BY <2>1, <2>2, <2>3
<1> QED
  BY <1>1, <1>2 DEF ClipOK, r

LEMMA RxClipOK ==
    ASSUME NEW U \in Seq(Symbols), NEW got \in Seq(Seq(Nat)), NEW n \in Nat, NEW clean,
           NEW k \in Nat, k <= Len(U),
           NEW symbols \in Seq(Symbols), Len(symbols) = k, \A i \in 1..k : symbols[i] = U[i],
           NEW e \in Notes, FwOK(e), Window(e, 0), Triples(U), Ordered(U, n),
           clean => Whole(got, n) /\ After(got, U) /\ Collecting(e, got, n, U),
           NEW period \in Period
    PROVE  LET r == fakewire_exc_rx_clip(e, symbols, period) IN
           ClipOK(r, Rest(U, k), got, n, clean) /\ Milder(e, r.exc)
<1> DEFINE early == exchange_instance_check_timers(e, period)
           few == k <= receive_limit
           h == IF few THEN k ELSE receive_limit
           taken == IF few THEN symbols ELSE SubSeq(symbols, 1, receive_limit)
           rx == ReceiveAll(Rx(early), taken)
           left == IF few THEN rx.exc ELSE exchange_instance_reset(rx.exc)
           f == exchange_instance_check_fcts(left, period)
           r == fakewire_exc_rx_clip(e, symbols, period)
<1>1. /\ early \in Notes /\ FwOK(early) /\ Window(early, 0) /\ SameReceiver(e, early) /\ Milder(e, early)
  BY TimersOK
<1>2. r = IF rx.failed # "none" THEN [exc |-> rx.exc, packets |-> <<>>, failed |-> rx.failed]
          ELSE WithNote(rx, f)
  BY DEF fakewire_exc_rx_clip
<1> SUFFICES ClipOK(r, Rest(U, k), got, n, clean) /\ Milder(e, r.exc)
  OBVIOUS
<1> HIDE DEF r, early
<1>3. RxOK(Rx(early), U, got, n, clean) /\ Rx(early).exc = early
  <2> DEFINE t == Rx(early)
  <2>1. <<>> \in Seq(Seq(Nat)) /\ Len(<<>>) = 0 /\ got \o <<>> = got
    BY ConcatEmptySeq
  <2>2. /\ t.exc = early /\ t.packets = <<>> /\ t.failed = "none"
        /\ t \in [exc : Notes, packets : Seq(Seq(Nat)), failed : {"none", "not listening"}]
    BY <1>1, <2>1 DEF Rx
  <2> HIDE DEF t
  <2>3. clean => Collecting(early, got, n, U)
    BY <1>1, CollectingSame
  <2>4. Window(early, Len(t.packets)) /\ got \o t.packets = got
    BY <1>1, <2>1, <2>2
  <2>5. RxOK(t, U, got, n, clean)
    BY <1>1, <2>2, <2>3, <2>4 DEF RxOK
  <2> QED
    BY <2>2, <2>5 DEF t
<1>4. /\ h \in Nat /\ h <= k /\ h <= Len(U) /\ (few => h = k)
      /\ Len(taken) = h /\ \A i \in 1..h : taken[i] = U[i]
  <2>1. receive_limit \in Nat /\ Len(U) \in Nat
    BY Tokens, LenProperties DEF receive_limit
  <2>2. CASE few
    BY <2>1, <2>2
  <2>3. CASE ~few
    <3>1. SubSeq(symbols, 1, receive_limit) = [i \in 1..(receive_limit - 1 + 1) |-> symbols[1 + i - 1]]
      BY <2>1
    <3>2. receive_limit - 1 + 1 = receive_limit /\ \A i \in 1..receive_limit : 1 + i - 1 = i /\ i \in 1..k
      BY <2>1, <2>3
    <3>3. SubSeq(symbols, 1, receive_limit) = [i \in 1..receive_limit |-> symbols[i]]
      BY <3>1, <3>2
    <3> QED
      BY <2>1, <2>3, <3>2, <3>3
  <2> QED
    BY <2>2, <2>3
<1> HIDE DEF h, taken
<1>5. RxOK(rx, Rest(U, h), got, n, clean) /\ Milder(early, rx.exc)
  <2> DEFINE s == Rx(early)
  <2>1. RxOK(s, U, got, n, clean) /\ s.exc = early
    BY <1>3
  <2>2. rx = ReceiveAll(s, taken)
    OBVIOUS
  <2> HIDE DEF s, rx
  <2>3. RxOK(rx, Rest(U, h), got, n, clean) /\ Milder(s.exc, rx.exc)
    BY <1>4, <2>1, <2>2, AllReceived
  <2> QED
    BY <2>1, <2>3
<1> HIDE DEF rx
<1>6. Milder(e, rx.exc) /\ Going(rx.exc, Len(rx.packets)) /\ FwOK(rx.exc)
  BY <1>1, <1>5, RxGoing DEF Milder, RxOK
<1>7. CASE rx.failed # "none"
  <2>1. r = [exc |-> rx.exc, packets |-> <<>>, failed |-> rx.failed] /\ ~clean
    BY <1>2, <1>5, <1>7 DEF RxOK
  <2>2. rx.exc \in Notes /\ rx.failed \in {"none", "not listening"} /\ <<>> \in Seq(Seq(Nat))
    <3>1. <<>> \in Seq(Seq(Nat))
      OBVIOUS
    <3> QED
      BY <1>5, <3>1 DEF RxOK
  <2>3. Window(rx.exc, 0)
    <3>1. rx.exc.pkts_rcvd \in Nat /\ rx.exc.fcts_sent \in Nat
      BY <1>6 DEF Going, Notes
    <3>2. not_yet_received(rx.exc) \in Nat
      BY Tokens DEF not_yet_received
    <3> QED
      BY <1>6, <3>1, <3>2 DEF Going, Window
  <2> QED
    BY <1>6, <2>1, <2>2, <2>3 DEF ClipOK
<1>8. CASE rx.failed = "none"
  <2>1. r = WithNote(rx, f)
    BY <1>2, <1>8
  <2>2. \A p : Below(p, Rest(U, h)) => Below(p, Rest(U, k))
    <3>1. Triples(Rest(U, h)) /\ Ordered(Rest(U, h), n)
      BY <1>5 DEF RxOK
    <3> QED
      BY <1>4, <3>1, Later
  <2>3. Going(left, Len(rx.packets)) /\ FwOK(left) /\ Milder(e, left)
        /\ (few => left = rx.exc) /\ (~few => left.recv_state = "LISTENING")
    BY <1>6, ResetOK DEF Kept, Milder
  <2> HIDE DEF left
  <2>4. f \in Notes /\ FwOK(f) /\ Window(f, 0) /\ SameReceiver(left, f) /\ Milder(left, f)
    BY <2>3, TokensRenewed
  <2> HIDE DEF f
  <2>5. few => Rest(U, h) = Rest(U, k) /\ SameReceiver(rx.exc, f)
    BY <1>4, <2>3, <2>4
  <2>6. ~few => f.recv_state = "LISTENING"
    BY <2>3, <2>4 DEF SameReceiver
  <2> HIDE DEF few
  <2>7. ClipOK(r, Rest(U, k), got, n, clean)
    BY <1>5, <1>8, <2>1, <2>2, <2>4, <2>5, <2>6, ClipEnds
  <2>8. r.exc = f
    BY <2>1 DEF WithNote
  <2> QED
    BY <2>3, <2>4, <2>7, <2>8 DEF Milder
<1> QED
  BY <1>7, <1>8

-----------------------------------------------------------------------------
(* The stream up grows: by a symbol that is no part of a packet, or by a   *)
(* packet, and the stream down by what a transmit clip sent.               *)

LEMMA UpMore ==
    ASSUME NEW S \in Seq(Symbols), NEW s \in Symbols, Apart(s), NEW n, Triples(S), Ordered(S, n)
    PROVE  /\ Append(S, s) \in Seq(Symbols) /\ Triples(Append(S, s)) /\ Ordered(Append(S, s), n)
           /\ \A p : Below(p, S) => Below(p, Append(S, s))
           /\ S # <<>> => Append(S, s) # <<>> /\ Append(S, s)[1] = S[1]
<1> DEFINE A == Append(S, s)
           L == Len(S)
<1>1. /\ A \in Seq(Symbols) /\ L \in Nat /\ Len(A) = L + 1 /\ A[L + 1] = s
      /\ \A i \in 1..L : A[i] = S[i]
  BY Appended
<1> HIDE DEF A
<1>2. ASSUME NEW i \in 1..L + 1 PROVE (i \in 1..L /\ A[i] = S[i]) \/ (i = L + 1 /\ Apart(A[i]))
  BY <1>1
<1>3. Ordered(A, n)
  <2>1. \A i \in 1..L + 1 : IsData(A[i]) => i \in 1..L /\ A[i] = S[i]
    BY <1>2 DEF Apart
  <2> QED
    BY <1>1, <2>1 DEF Ordered, L
<1>4. Triples(A)
  <2> SUFFICES ASSUME NEW i \in 1..L + 1
               PROVE  /\ IsStart(A[i]) => i < L + 1 /\ IsData(A[i + 1])
                      /\ IsData(A[i]) => i < L + 1 /\ IsEnd(A[i + 1]) /\ (i > 1 => IsStart(A[i - 1]))
                      /\ IsEnd(A[i]) /\ i > 1 => IsData(A[i - 1])
    BY <1>1 DEF Triples
  <2>1. CASE i = L + 1
    BY <1>1, <2>1 DEF Apart
  <2>2. CASE i \in 1..L
    <3>1. A[i] = S[i] /\ (i < L => A[i + 1] = S[i + 1]) /\ (i > 1 => A[i - 1] = S[i - 1]) /\ i < L + 1
      BY <1>1, <2>2
    <3> QED
      BY <2>2, <3>1 DEF Triples, L
  <2> QED
    BY <1>1, <2>1, <2>2
<1>5. ASSUME NEW p, Below(p, S) PROVE Below(p, A)
  BY <1>1, <1>2, <1>5 DEF Below, Apart, L
<1>6. S # <<>> => A # <<>> /\ A[1] = S[1]
  <2>1. Len(<<>>) = 0
    OBVIOUS
  <2>2. S # <<>> => L >= 1
    BY EmptySeq DEF L
  <2> QED
    BY <1>1, <2>1, <2>2
<1> QED
  BY <1>1, <1>3, <1>4, <1>5, <1>6 DEF A

LEMMA UpPacket ==
    ASSUME NEW S \in Seq(Symbols), NEW n \in Nat, Triples(S), Ordered(S, n),
           NEW a \in Symbols, IsStart(a), NEW b \in Symbols, IsData(b), b.p = n + 1,
           NEW c \in Symbols, IsEnd(c)
    PROVE  LET T == S \o <<a, b, c>> IN
           /\ T \in Seq(Symbols) /\ Triples(T) /\ Ordered(T, n + 1)
           /\ \A p : p < n + 1 /\ Below(p, S) => Below(p, T)
           /\ S # <<>> => T # <<>> /\ T[1] = S[1]
<1> DEFINE E == <<a, b, c>>
           T == S \o E
           L == Len(S)
<1>1. E \in Seq(Symbols) /\ Len(E) = 3 /\ E[1] = a /\ E[2] = b /\ E[3] = c
  OBVIOUS
<1> HIDE DEF E
<1>2. /\ T \in Seq(Symbols) /\ L \in Nat /\ Len(T) = L + 3
      /\ \A i \in 1..L : T[i] = S[i]
      /\ T[L + 1] = a /\ T[L + 2] = b /\ T[L + 3] = c
  <2>1. /\ T \in Seq(Symbols) /\ L \in Nat /\ Len(T) = L + 3
        /\ \A i \in 1..L : T[i] = S[i]
        /\ \A i \in L + 1..L + 3 : T[i] = E[i - L]
    <3>1. /\ T \in Seq(Symbols) /\ L \in Nat /\ Len(T) = L + Len(E)
          /\ \A i \in 1..L : T[i] = S[i]
          /\ \A i \in L + 1..L + Len(E) : T[i] = E[i - L]
      BY <1>1, Joined
    <3> HIDE DEF L, T
    <3> QED
      BY <1>1, <3>1
  <2>2. /\ L + 1 \in L + 1..L + 3 /\ L + 2 \in L + 1..L + 3 /\ L + 3 \in L + 1..L + 3
        /\ (L + 1) - L = 1 /\ (L + 2) - L = 2 /\ (L + 3) - L = 3
    BY <2>1
  <2> HIDE DEF L, T
  <2> QED
    BY <1>1, <2>1, <2>2
<1>3. T = S \o <<a, b, c>>
  BY DEF E
<1> HIDE DEF T
<1>4. /\ ~IsData(a) /\ ~IsEnd(a) /\ ~IsStart(b) /\ ~IsEnd(b) /\ ~IsStart(c) /\ ~IsData(c)
  BY DEF IsStart, IsData, IsEnd
<1>5. \A i \in 1..L + 3 : i \in 1..L \/ i = L + 1 \/ i = L + 2 \/ i = L + 3
  BY <1>2
<1>6. \A i \in 1..L + 3 : IsData(T[i]) => (i \in 1..L /\ T[i] = S[i]) \/ (i = L + 2 /\ T[i].p = n + 1)
  BY <1>2, <1>4, <1>5
<1>7. Ordered(T, n + 1)
  <2>1. ASSUME NEW i \in 1..L + 3, IsData(T[i]) PROVE T[i].p \in 1..n + 1
    <3>1. CASE i \in 1..L /\ T[i] = S[i]
      <4>1. S[i].p \in 1..n
        BY <2>1, <3>1 DEF Ordered, L
      <4> QED
        BY <3>1, <4>1
    <3>2. CASE T[i].p = n + 1
      BY <3>2
    <3> QED
      BY <1>6, <2>1, <3>1, <3>2
  <2>2. ASSUME NEW i \in 1..L + 3, NEW j \in 1..L + 3, i < j, IsData(T[i]), IsData(T[j])
        PROVE  T[i].p < T[j].p
    <3>1. i \in 1..L /\ T[i] = S[i]
      BY <1>2, <1>6, <2>2
    <3>2. S[i].p \in 1..n
      BY <2>2, <3>1 DEF Ordered, L
    <3>3. CASE j \in 1..L /\ T[j] = S[j]
      BY <2>2, <3>1, <3>3 DEF Ordered, L
    <3>4. CASE T[j].p = n + 1
      BY <3>1, <3>2, <3>4
    <3> QED
      BY <1>6, <2>2, <3>3, <3>4
  <2> QED
    BY <1>2, <2>1, <2>2 DEF Ordered
<1>8. Triples(T)
  <2> SUFFICES ASSUME NEW i \in 1..L + 3
               PROVE  /\ IsStart(T[i]) => i < L + 3 /\ IsData(T[i + 1])
                      /\ IsData(T[i]) => i < L + 3 /\ IsEnd(T[i + 1]) /\ (i > 1 => IsStart(T[i - 1]))
                      /\ IsEnd(T[i]) /\ i > 1 => IsData(T[i - 1])
    BY <1>2 DEF Triples
  <2>1. CASE i \in 1..L
    <3>1. T[i] = S[i] /\ (i < L => T[i + 1] = S[i + 1]) /\ (i > 1 => T[i - 1] = S[i - 1]) /\ i < L + 3
      BY <1>2, <2>1
    <3> QED
      BY <2>1, <3>1 DEF Triples, L
  <2>2. CASE i = L + 1
    <3>1. T[i] = a /\ i < L + 3 /\ T[i + 1] = b
      <4>1. (L + 1) + 1 = L + 2
        BY <1>2
      <4> QED
        BY <1>2, <2>2, <4>1
    <3> QED
      BY <1>4, <3>1
  <2>3. CASE i = L + 2
    <3>1. T[i] = b /\ i < L + 3 /\ T[i + 1] = c /\ T[i - 1] = a
      <4>1. (L + 2) + 1 = L + 3 /\ (L + 2) - 1 = L + 1 /\ L + 2 < L + 3
        BY <1>2
      <4> QED
        BY <1>2, <2>3, <4>1
    <3> QED
      BY <1>4, <3>1
  <2>4. CASE i = L + 3
    <3>1. T[i] = c /\ T[i - 1] = b
      <4>1. (L + 3) - 1 = L + 2
        BY <1>2
      <4> QED
        BY <1>2, <2>4, <4>1
    <3> QED
      BY <1>4, <3>1
  <2> QED
    BY <1>5, <2>1, <2>2, <2>3, <2>4
<1>9. ASSUME NEW p, p < n + 1, Below(p, S) PROVE Below(p, T)
  BY <1>2, <1>6, <1>9 DEF Below, L
<1>10. S # <<>> => T # <<>> /\ T[1] = S[1]
  <2>1. Len(<<>>) = 0
    OBVIOUS
  <2>2. S # <<>> => L >= 1
    BY EmptySeq DEF L
  <2> QED
    BY <1>2, <2>1, <2>2
<1> QED
  BY <1>2, <1>3, <1>7, <1>8, <1>9, <1>10

LEMMA SimMore ==
    ASSUME NEW x \in Sim!Exchanges, NEW got, NEW m \in Nat, NEW k \in Nat, m <= k,
           NEW D \in Seq(Symbols), SimOK(x, got, m, D), NEW out, Sending(out, D, x.RecvInProgress, m, k)
    PROVE  SimOK(x, got, k, D \o out)
<1> DEFINE E == D \o out
<1>1. out \in Seq(Symbols) /\ Down(x.RecvInProgress, k, E)
  BY DEF Sending
<1>2. /\ Len(D) \in Nat /\ Len(out) \in Nat /\ Len(E) = Len(D) + Len(out)
      /\ \A i \in 1..Len(D) : E[i] = D[i]
      /\ \A i \in Len(D) + 1..Len(D) + Len(out) : E[i] = out[i - Len(D)]
  BY <1>1, Joined
<1> HIDE DEF E
<1>3. 1..m \subseteq 1..k
  OBVIOUS
<1>4. ASSUME NEW p \in 1..m, Below(p, D) PROVE Below(p, E)
  <2> SUFFICES ASSUME NEW i \in 1..Len(E), IsData(E[i]) PROVE p < E[i].p
    BY DEF Below
  <2>1. CASE i \in 1..Len(D)
    BY <1>2, <1>4, <2>1 DEF Below
  <2>2. CASE i \in Len(D) + 1..Len(D) + Len(out)
    <3>1. i - Len(D) \in 1..Len(out) /\ E[i] = out[i - Len(D)]
      BY <1>2, <2>2
    <3>2. E[i].p > m
      BY <3>1 DEF Sending
    <3>3. E[i].p \in 1..k
      BY <1>1 DEF Down, Ordered
    <3> QED
      BY <3>2, <3>3
  <2> QED
    BY <1>2, <2>1, <2>2
<1>5. ASSUME NEW all, Whole(all, m), After(all, D) PROVE Whole(all, k) /\ After(all, E)
  <2>1. \A i \in 1..Len(all) : all[i][1] \in 1..m /\ Below(all[i][1], D)
    BY <1>5 DEF Whole, After
  <2> QED
    BY <1>3, <1>4, <1>5, <2>1 DEF Whole, After
<1>6. HandedUp(x, got, k) /\ After(got, E) /\ After(x.InboundPending, E)
  BY <1>5 DEF SimOK, HandedUp
<1>7. Gathering(x, got, k, E)
  <2> SUFFICES ASSUME x.RecvInProgress
               PROVE  /\ E # <<>> /\ IsData(E[1]) => x.InboundBuffer = <<>>
                      /\ E # <<>> /\ IsEnd(E[1]) => Len(x.InboundBuffer) = 1
                      /\ \A b \in 1..Len(x.InboundBuffer) :
                            /\ x.InboundBuffer[b] \in 1..k
                            /\ Above(x.InboundBuffer[b], got) /\ Above(x.InboundBuffer[b], x.InboundPending)
                            /\ Below(x.InboundBuffer[b], E)
    BY DEF Gathering
  <2>1. Gathering(x, got, m, D)
    BY DEF SimOK
  <2>2. \A b \in 1..Len(x.InboundBuffer) :
            /\ x.InboundBuffer[b] \in 1..m
            /\ Above(x.InboundBuffer[b], got) /\ Above(x.InboundBuffer[b], x.InboundPending)
            /\ Below(x.InboundBuffer[b], D)
    BY <2>1 DEF Gathering
  <2>3. \/ D # <<>> /\ E[1] = D[1]
        \/ E # <<>> => ~IsData(E[1]) /\ ~IsEnd(E[1])
    <3>1. CASE D = <<>>
      <4>1. E = out
        BY <1>1, <3>1, ConcatEmptySeq DEF E
      <4> QED
        BY <4>1 DEF Sending
    <3>2. CASE D # <<>>
      <4>1. 1 \in 1..Len(D)
        BY <1>2, <3>2, EmptySeq
      <4> QED
        BY <1>2, <3>2, <4>1
    <3> QED
      BY <3>1, <3>2
  <2>4. /\ E # <<>> /\ IsData(E[1]) => x.InboundBuffer = <<>>
        /\ E # <<>> /\ IsEnd(E[1]) => Len(x.InboundBuffer) = 1
    BY <2>1, <2>3 DEF Gathering
  <2> QED
    BY <1>3, <1>4, <2>2, <2>4
<1> QED
  BY <1>1, <1>6, <1>7 DEF SimOK, E

(* The simulator's side changes what has no part in receiving.             *)
LEMMA SimOtherwise ==
    ASSUME NEW x, NEW y, NEW got, NEW n, NEW D, SimOK(x, got, n, D), SimState(y),
           y.RecvInProgress = x.RecvInProgress, y.InboundBuffer = x.InboundBuffer,
           y.InboundPending = x.InboundPending
    PROVE  SimOK(y, got, n, D)
  BY DEF SimOK, HandedUp, Gathering

LEMMA HandsOver ==
    ASSUME NEW x \in Sim!Exchanges, NEW got \in Seq(Seq(Nat)), NEW n \in Nat, NEW D,
           SimOK(x, got, n, D), x.InboundPending # <<>>,
           NEW y, y = [x EXCEPT !.InboundPending = Tail(@)]
    PROVE  /\ y \in Sim!Exchanges /\ Append(got, Head(x.InboundPending)) \in Seq(Seq(Nat))
           /\ SimOK(y, Append(got, Head(x.InboundPending)), n, D)
<1> DEFINE old == x.InboundPending
           b == Head(old)
           rest == Tail(old)
           new == Append(got, b)
<1>1. old \in Seq(Seq(Nat)) /\ x.InboundBuffer \in Seq(Nat)
  BY DEF Sim!Exchanges
<1>2. /\ rest \in Seq(Seq(Nat)) /\ Len(old) \in Nat /\ Len(old) >= 1 /\ Len(rest) = Len(old) - 1
      /\ \A i \in 1..Len(rest) : rest[i] = old[i + 1] /\ i + 1 \in 1..Len(old) /\ 1 < i + 1
      /\ b \in Seq(Nat) /\ b = old[1] /\ 1 \in 1..Len(old)
  BY <1>1, Dropped
<1>3. new \in Seq(Seq(Nat)) /\ Len(got) \in Nat /\ Len(new) = Len(got) + 1 /\ new[Len(got) + 1] = b
      /\ \A i \in 1..Len(got) : new[i] = got[i]
  BY <1>2, Appended
<1>4. /\ y \in Sim!Exchanges /\ y.InboundPending = rest /\ y.InboundBuffer = x.InboundBuffer
      /\ y.RecvInProgress = x.RecvInProgress /\ SimState(y)
  <2>1. y = [x EXCEPT !.InboundPending = rest]
    OBVIOUS
  <2> HIDE DEF rest
  <2> QED
    BY <1>2, <2>1 DEF Sim!Exchanges, SimOK, SimState, Sim!CheckInvariants
<1>5. /\ Whole(got, n) /\ Whole(old, n) /\ \A k \in 1..Len(old) : Above(old[k][1], got)
      /\ After(got, D) /\ After(old, D)
  BY DEF SimOK, HandedUp
<1>6. Gathering(x, got, n, D) /\ Down(x.RecvInProgress, n, D)
  BY DEF SimOK
<1> HIDE DEF old, b, rest, new
<1>7. Len(b) = 1 /\ b[1] \in 1..n /\ Above(b[1], got) /\ Below(b[1], D)
  BY <1>2, <1>5 DEF Whole, After
<1>8. Whole(new, n) /\ After(new, D)
  BY <1>2, <1>5, <1>7, WholeMore DEF new
<1>9. Whole(rest, n) /\ After(rest, D)
  <2>1. ASSUME NEW k \in 1..Len(rest)
        PROVE  Len(rest[k]) = 1 /\ rest[k][1] \in 1..n /\ Below(rest[k][1], D)
    <3>1. rest[k] = old[k + 1] /\ k + 1 \in 1..Len(old)
      BY <1>2
    <3> QED
      BY <1>5, <3>1 DEF Whole, After
  <2>2. ASSUME NEW i \in 1..Len(rest), NEW j \in 1..Len(rest), i < j PROVE rest[i][1] < rest[j][1]
    <3>1. /\ rest[i] = old[i + 1] /\ i + 1 \in 1..Len(old) /\ rest[j] = old[j + 1] /\ j + 1 \in 1..Len(old)
          /\ i + 1 < j + 1
      BY <1>2, <2>2
    <3> QED
      BY <1>5, <3>1 DEF Whole
  <2> QED
    BY <2>1, <2>2 DEF Whole, After
<1>10. ASSUME NEW p, Above(p, got), b[1] < p PROVE Above(p, new)
  <2> SUFFICES ASSUME NEW i \in 1..Len(new) PROVE new[i][1] < p
    BY DEF Above
  <2>1. CASE i \in 1..Len(got)
    BY <1>3, <1>10, <2>1 DEF Above
  <2>2. CASE i = Len(got) + 1
    BY <1>3, <1>10, <2>2
  <2> QED
    BY <1>3, <2>1, <2>2
<1>11. \A k \in 1..Len(rest) : Above(rest[k][1], new)
  <2>1. ASSUME NEW k \in 1..Len(rest) PROVE Above(rest[k][1], got) /\ b[1] < rest[k][1]
    <3>1. rest[k] = old[k + 1] /\ k + 1 \in 1..Len(old) /\ 1 < k + 1
      BY <1>2
    <3> QED
      BY <1>2, <1>5, <3>1 DEF Whole
  <2> QED
    BY <1>10, <2>1
<1>12. Gathering(y, new, n, D)
  <2> SUFFICES ASSUME x.RecvInProgress, NEW v \in 1..Len(x.InboundBuffer)
               PROVE  Above(x.InboundBuffer[v], new) /\ Above(x.InboundBuffer[v], rest)
    BY <1>4, <1>6 DEF Gathering
  <2>1. Above(x.InboundBuffer[v], got) /\ Above(x.InboundBuffer[v], old)
    BY <1>6 DEF Gathering, old
  <2>2. b[1] < x.InboundBuffer[v]
    BY <1>2, <2>1 DEF Above
  <2>3. Above(x.InboundBuffer[v], rest)
    BY <1>2, <2>1 DEF Above
  <2> QED
    BY <1>10, <2>1, <2>2, <2>3
<1>13. HandedUp(y, new, n)
  BY <1>4, <1>8, <1>9, <1>11 DEF HandedUp
<1> QED
  BY <1>3, <1>4, <1>6, <1>8, <1>9, <1>12, <1>13 DEF SimOK, new, b, old

-----------------------------------------------------------------------------
(* The steps.                                                              *)

UpOK ==
    /\ Triples(Up) /\ Ordered(Up, given.sim)
    /\ losses = 0 =>
          /\ Whole(delivered.fw, given.sim) /\ After(delivered.fw, Up)
          /\ Collecting(exc, delivered.fw, given.sim, Up)
NoFailure == failed = "none" \/ (failed = "not listening" /\ losses > 0)

LEMMA Parts ==
    ASSUME LinkInv
    PROVE  /\ TypeOK /\ UpOK /\ NoFailure /\ FwOK(exc) /\ Window(exc, 0)
           /\ SimOK(ex, delivered.sim, given.fw, downlink)
           /\ Warned(exc, ex.RecvInProgress, downlink)
           /\ exc \in Notes /\ ex \in Sim!Exchanges /\ Up \in Seq(Symbols)
           /\ uplink \in Seq(Symbols) /\ writing \in Seq(Symbols) /\ downlink \in Seq(Symbols)
           /\ given \in [fw : Nat, sim : Nat] /\ given.fw \in Nat /\ given.sim \in Nat
           /\ delivered \in [fw : Seq(Seq(Nat)), sim : Seq(Seq(Nat))]
           /\ delivered.fw \in Seq(Seq(Nat)) /\ delivered.sim \in Seq(Seq(Nat))
<1>1. /\ uplink \in Seq(Symbols) /\ writing \in Seq(Symbols)
      /\ given \in [fw : Nat, sim : Nat]
      /\ delivered \in [fw : Seq(Seq(Nat)), sim : Seq(Seq(Nat))]
  BY DEF LinkInv, TypeOK
<1>2. Up \in Seq(Symbols)
  BY <1>1, Joined DEF Up
<1> QED
  BY <1>1, <1>2 DEF LinkInv, TypeOK, UpOK, NoFailure

LEMMA TxClipKeeps == LinkInv /\ TxClip => LinkInv'
<1> SUFFICES ASSUME LinkInv, TxClip PROVE LinkInv'
  OBVIOUS
<1> USE Parts
<1>1. PICK n \in 0..Burst, id \in FwIds, period \in Period :
         LET tx == fakewire_exc_tx_clip(exc, [i \in 1..n |-> given.fw + i], id, period)
         IN /\ exc' = tx.exc /\ downlink' = downlink \o tx.out
            /\ given' = [given EXCEPT !.fw = @ + n]
  BY DEF TxClip
<1> DEFINE tx == fakewire_exc_tx_clip(exc, [i \in 1..n |-> given.fw + i], id, period)
           m == given.fw
<1>2. n \in Nat /\ id \in Nat /\ m \in Nat /\ m <= m + n /\ m + n \in Nat
  BY ExchangeLinkAssumption
<1>3. UNCHANGED <<ex, writing, writer, uplink, delivered, losses, reboots, failed>> /\ clip' = "rx"
  BY DEF TxClip
<1>4. TxOK(tx, downlink, ex.RecvInProgress, m, m + n) /\ SameReceiver(tx.exc, exc)
  <2>1. Down(ex.RecvInProgress, m, downlink) /\ ex.RecvInProgress \in BOOLEAN
    BY DEF SimOK, Sim!Exchanges
  <2> QED
    BY <1>2, <2>1, TxClipOK
<1> HIDE DEF tx
<1>5. exc' = tx.exc /\ downlink' = downlink \o tx.out
  BY <1>1 DEF tx
<1>6. given' \in [fw : Nat, sim : Nat] /\ given'.fw = m + n /\ given'.sim = given.sim
  BY <1>1, <1>2
<1>7. exc' \in Notes /\ FwOK(exc') /\ Window(exc', 0) /\ Sending(tx.out, downlink, ex.RecvInProgress, m, m + n)
      /\ Warned(exc', ex.RecvInProgress, downlink')
  BY <1>4, <1>5 DEF TxOK
<1>8. downlink' \in Seq(Symbols)
  BY <1>5, <1>7, Joined DEF Sending
<1>9. SimOK(ex, delivered.sim, m + n, downlink')
  BY <1>2, <1>5, <1>7, SimMore
<1>10. TypeOK'
  BY <1>3, <1>6, <1>7, <1>8 DEF TypeOK
<1>11. UpOK'
  <2>1. Up' = Up
    BY <1>3 DEF Up
  <2>2. SameReceiver(exc, exc')
    BY <1>4, <1>5 DEF SameReceiver
  <2>3. losses = 0 => Collecting(exc', delivered.fw, given.sim, Up)
    BY <2>2, CollectingSame DEF UpOK
  <2> QED
    BY <1>3, <1>6, <2>1, <2>3 DEF UpOK
<1> QED
  BY <1>3, <1>6, <1>7, <1>9, <1>10, <1>11 DEF LinkInv, UpOK, NoFailure

(* What was on its way up, without its first n symbols.                    *)
LEMMA UpShorter ==
    ASSUME NEW u \in Seq(Symbols), NEW w \in Seq(Symbols), NEW n \in 0..Len(u)
    PROVE  /\ SubSeq(u, n + 1, Len(u)) \in Seq(Symbols)
           /\ SubSeq(u, n + 1, Len(u)) \o w = Rest(u \o w, n) /\ n <= Len(u \o w) /\ n \in Nat
           /\ SubSeq(u, 1, n) \in Seq(Symbols) /\ Len(SubSeq(u, 1, n)) = n
           /\ \A i \in 1..n : SubSeq(u, 1, n)[i] = (u \o w)[i]
<1> DEFINE U == u \o w
           R == SubSeq(u, n + 1, Len(u))
<1>1. n \in Nat /\ Len(u) \in Nat /\ n <= Len(u)
  BY LenProperties
<1>2. /\ U \in Seq(Symbols) /\ Len(w) \in Nat /\ Len(U) = Len(u) + Len(w)
      /\ \A i \in 1..Len(u) : U[i] = u[i]
      /\ \A i \in Len(u) + 1..Len(u) + Len(w) : U[i] = w[i - Len(u)]
  BY Joined
<1>3. n \in 0..Len(U)
  BY <1>1, <1>2
<1>4. R \in Seq(Symbols) /\ Len(R) = Len(u) - n /\ \A j \in 1..Len(u) - n : R[j] = u[n + j]
  BY RestIs DEF Rest
<1>5. /\ Rest(U, n) \in Seq(Symbols) /\ Len(Rest(U, n)) = Len(U) - n
      /\ \A j \in 1..Len(U) - n : Rest(U, n)[j] = U[n + j]
  BY <1>2, <1>3, RestIs
<1> HIDE DEF U, R
<1>6. /\ R \o w \in Seq(Symbols) /\ Len(R \o w) = Len(R) + Len(w)
      /\ \A j \in 1..Len(R) : (R \o w)[j] = R[j]
      /\ \A j \in Len(R) + 1..Len(R) + Len(w) : (R \o w)[j] = w[j - Len(R)]
  BY <1>4, Joined
<1>7. R \o w = Rest(U, n)
  <2>1. Len(R \o w) = Len(Rest(U, n)) /\ Len(R \o w) = Len(u) - n + Len(w)
    BY <1>1, <1>2, <1>4, <1>5, <1>6
  <2>2. ASSUME NEW j \in 1..Len(u) - n + Len(w) PROVE (R \o w)[j] = Rest(U, n)[j]
    <3>1. Rest(U, n)[j] = U[n + j]
      BY <1>1, <1>2, <1>5
    <3>2. CASE j \in 1..Len(u) - n
      <4>1. n + j \in 1..Len(u) /\ j \in 1..Len(R)
        BY <1>1, <1>4, <3>2
      <4> QED
        BY <1>2, <1>4, <1>6, <3>1, <3>2, <4>1
    <3>3. CASE j \in Len(u) - n + 1..Len(u) - n + Len(w)
      <4>1. n + j \in Len(u) + 1..Len(u) + Len(w) /\ (n + j) - Len(u) = j - (Len(u) - n)
        BY <1>1, <1>2, <3>3
      <4>2. j \in Len(R) + 1..Len(R) + Len(w) /\ j - Len(R) = j - (Len(u) - n)
        BY <1>1, <1>4, <3>3
      <4> QED
        BY <1>2, <1>6, <3>1, <4>1, <4>2
    <3> QED
      <4>1. Len(u) - n \in Nat /\ Len(w) \in Nat
        BY <1>1, <1>2
      <4>2. j \in 1..Len(u) - n \/ j \in Len(u) - n + 1..Len(u) - n + Len(w)
        BY <4>1
      <4> QED
        BY <3>2, <3>3, <4>2
  <2> QED
    BY <1>5, <1>6, <2>1, <2>2, Same
<1>8. /\ SubSeq(u, 1, n) \in Seq(Symbols) /\ Len(SubSeq(u, 1, n)) = n
      /\ \A i \in 1..n : SubSeq(u, 1, n)[i] = U[i]
  <2> DEFINE F == [i \in 1..n |-> u[i]]
  <2>1. SubSeq(u, 1, n) = [i \in 1..(n - 1 + 1) |-> u[1 + i - 1]]
    BY <1>1
  <2>2. n - 1 + 1 = n /\ \A i \in 1..n : 1 + i - 1 = i /\ i \in 1..Len(u)
    BY <1>1
  <2>3. SubSeq(u, 1, n) = F
    BY <2>1, <2>2
  <2>4. \A i \in 1..n : u[i] \in Symbols
    BY <2>2, ElementOfSeq
  <2>5. F \in Seq(Symbols) /\ Len(F) = n
    BY <1>1, <2>4
  <2> QED
    BY <1>2, <2>2, <2>3, <2>5
<1> QED
  BY <1>1, <1>2, <1>3, <1>4, <1>7, <1>8 DEF U, R

LEMMA RxClipKeeps == LinkInv /\ RxClip => LinkInv'
<1> SUFFICES ASSUME LinkInv, RxClip PROVE LinkInv'
  OBVIOUS
<1> USE Parts
<1>1. PICK n \in 0..Len(uplink), period \in Period, lost \in BOOLEAN :
         LET rx == fakewire_exc_rx_clip(exc, IF lost THEN <<>> ELSE SubSeq(uplink, 1, n), period)
         IN /\ losses' = IF lost THEN losses + 1 ELSE losses
            /\ uplink' = SubSeq(uplink, n + 1, Len(uplink))
            /\ exc' = rx.exc /\ delivered' = [delivered EXCEPT !.fw = @ \o rx.packets]
            /\ failed' = rx.failed
  BY DEF RxClip
<1> DEFINE symbols == IF lost THEN <<>> ELSE SubSeq(uplink, 1, n)
           k == IF lost THEN 0 ELSE n
           rx == fakewire_exc_rx_clip(exc, symbols, period)
           clean == ~lost /\ losses = 0
           got == delivered.fw
<1>2. UNCHANGED <<ex, writing, writer, downlink, given, reboots>> /\ clip' = "tx"
  BY DEF RxClip
<1>3. /\ uplink' \in Seq(Symbols) /\ Up' = Rest(Up, n) /\ n <= Len(Up) /\ n \in Nat
      /\ SubSeq(uplink, 1, n) \in Seq(Symbols) /\ Len(SubSeq(uplink, 1, n)) = n
      /\ \A i \in 1..n : SubSeq(uplink, 1, n)[i] = Up[i]
  <2>1. uplink' = SubSeq(uplink, n + 1, Len(uplink)) /\ writing' = writing
    BY <1>1, <1>2
  <2>2. Up' = SubSeq(uplink, n + 1, Len(uplink)) \o writing
    BY <2>1 DEF Up
  <2> QED
    BY <2>1, <2>2, UpShorter DEF Up
<1>4. /\ symbols \in Seq(Symbols) /\ Len(symbols) = k /\ k \in Nat /\ k <= Len(Up) /\ k <= n
      /\ \A i \in 1..k : symbols[i] = Up[i]
  <2>1. CASE lost
    <3>1. symbols = <<>> /\ k = 0 /\ 1..0 = {}
      BY <2>1
    <3> HIDE DEF symbols, k
    <3> QED
      BY <1>3, <3>1, LenProperties
  <2>2. CASE ~lost
    <3>1. symbols = SubSeq(uplink, 1, n) /\ k = n
      BY <2>2
    <3> HIDE DEF symbols, k
    <3> QED
      BY <1>3, <3>1
  <2> QED
    BY <2>1, <2>2
<1> HIDE DEF symbols
<1>5. ClipOK(rx, Rest(Up, k), got, given.sim, clean) /\ Milder(exc, rx.exc)
  <2>1. clean => Whole(got, given.sim) /\ After(got, Up) /\ Collecting(exc, got, given.sim, Up)
    BY DEF UpOK
  <2>2. Triples(Up) /\ Ordered(Up, given.sim)
    BY DEF UpOK
  <2> HIDE DEF k, clean
  <2> QED
    BY <1>4, <2>1, <2>2, RxClipOK
<1> HIDE DEF rx
<1>6. /\ exc' = rx.exc /\ delivered' = [delivered EXCEPT !.fw = @ \o rx.packets] /\ failed' = rx.failed
      /\ losses' = IF lost THEN losses + 1 ELSE losses
  BY <1>1 DEF rx, symbols
<1>7. /\ exc' \in Notes /\ rx.packets \in Seq(Seq(Nat)) /\ failed' \in {"none", "not listening"}
      /\ FwOK(exc') /\ Window(exc', 0) /\ (clean => failed' = "none")
  BY <1>5, <1>6 DEF ClipOK
<1>8. /\ delivered'.fw = got \o rx.packets /\ delivered'.sim = delivered.sim
      /\ delivered' \in [fw : Seq(Seq(Nat)), sim : Seq(Seq(Nat))]
  <2>1. got \o rx.packets \in Seq(Seq(Nat))
    BY <1>7, Joined
  <2> QED
    BY <1>6, <2>1
<1>9. losses \in Nat /\ losses' \in Nat /\ (losses' = 0 <=> clean)
  <2>1. losses \in Nat
    BY DEF TypeOK
  <2> QED
    BY <1>6, <2>1
<1>10. TypeOK'
  BY <1>2, <1>3, <1>7, <1>8, <1>9 DEF TypeOK
<1>11. UpOK'
  <2>1. Triples(Rest(Up, n)) /\ Ordered(Rest(Up, n), given.sim)
    <3>1. 0 \in Nat /\ 0 <= n /\ Rest(Up, 0) = Up
      BY <1>3, RestZero
    <3> QED
      BY <1>3, <3>1, Later DEF UpOK
  <2>2. ASSUME losses' = 0
        PROVE  /\ Whole(delivered'.fw, given.sim) /\ After(delivered'.fw, Up')
               /\ Collecting(exc', delivered'.fw, given.sim, Up')
    <3>1. clean /\ k = n
      BY <1>9, <2>2
    <3> QED
      BY <1>3, <1>5, <1>6, <1>8, <3>1 DEF ClipOK
  <2> QED
    BY <1>2, <1>3, <2>1, <2>2 DEF UpOK
<1>12. NoFailure'
  <2> HIDE DEF clean
  <2>1. CASE clean
    BY <1>7, <2>1 DEF NoFailure
  <2>2. CASE ~clean
    <3>1. losses' > 0
      BY <1>9, <2>2
    <3> QED
      BY <1>7, <3>1 DEF NoFailure
  <2> QED
    BY <2>1, <2>2
<1>13. Warned(exc', ex.RecvInProgress, downlink)
  BY <1>5, <1>6, StillWarned
<1> QED
  BY <1>2, <1>7, <1>8, <1>10, <1>11, <1>12, <1>13 DEF LinkInv, UpOK, NoFailure

LEMMA ConfiguredOK ==
    ASSUME NEW c \in Period
    PROVE  LET f == exchange_instance_configure(c) IN
           /\ f \in Notes /\ FwOK(f) /\ Window(f, 0)
           /\ f.recv_state = "LISTENING" /\ f.exc_state = "CONNECTING"
<1> DEFINE f == exchange_instance_configure(c)
<1>1. <<>> \in Seq(Nat) /\ c \in UNION {0..k : k \in Period}
  <2>1. c \in 0..c
    BY FwExchangeAssumption
  <2> QED
    BY <2>1
<1>2. /\ f \in Notes /\ f.recv_state = "LISTENING" /\ f.exc_state = "CONNECTING"
      /\ f.pkts_rcvd = 0 /\ f.fcts_sent = 0 /\ f.pkts_sent = 0 /\ f.fcts_rcvd = 0
      /\ ~f.resend_fcts /\ ~f.resend_pkts /\ ~f.send_primary_handshake /\ ~f.send_secondary_handshake
  BY <1>1 DEF exchange_instance_configure, Notes
<1> HIDE DEF f
<1>3. FwOK(f) /\ Window(f, 0)
  BY <1>2, Tokens DEF FwOK, InvariantsHold, Window, not_yet_received
<1> QED
  BY <1>2, <1>3 DEF f

LEMMA RebootKeeps == LinkInv /\ Reboot => LinkInv'
<1> SUFFICES ASSUME LinkInv, Reboot PROVE LinkInv'
  OBVIOUS
<1> USE Parts
<1>1. PICK n \in 0..Len(uplink) : uplink' = SubSeq(uplink, n + 1, Len(uplink))
  BY DEF Reboot
<1>2. /\ UNCHANGED <<ex, writing, writer, downlink, given, delivered, losses, failed>> /\ clip' = "tx"
      /\ reboots' = reboots + 1
  BY DEF Reboot
<1>3. PICK c \in Period : exc' = exchange_instance_configure(c)
  BY DEF Reboot
<1>4. /\ exc' \in Notes /\ FwOK(exc') /\ Window(exc', 0) /\ exc'.recv_state = "LISTENING"
      /\ exc'.exc_state = "CONNECTING"
  BY <1>3, ConfiguredOK
<1>5. /\ uplink' \in Seq(Symbols) /\ Up' = Rest(Up, n) /\ n <= Len(Up) /\ n \in Nat
  <2>1. Up' = SubSeq(uplink, n + 1, Len(uplink)) \o writing
    BY <1>1, <1>2 DEF Up
  <2> QED
    BY <1>1, <2>1, UpShorter DEF Up
<1>6. TypeOK'
  <2>1. reboots' \in Nat
    <3>1. reboots \in Nat
      BY DEF TypeOK
    <3> QED
      BY <1>2, <3>1
  <2> QED
    BY <1>2, <1>4, <1>5, <2>1 DEF TypeOK
<1>7. UpOK'
  <2>1. /\ Triples(Rest(Up, n)) /\ Ordered(Rest(Up, n), given.sim)
        /\ \A p : Below(p, Up) => Below(p, Rest(Up, n))
    <3>1. 0 \in Nat /\ 0 <= n /\ Rest(Up, 0) = Up
      BY <1>5, RestZero
    <3> QED
      BY <1>5, <3>1, Later DEF UpOK
  <2>2. After(delivered.fw, Up) => After(delivered.fw, Rest(Up, n))
    BY <2>1 DEF After
  <2>3. Collecting(exc', delivered.fw, given.sim, Rest(Up, n))
    BY <1>4 DEF Collecting
  <2> QED
    BY <1>2, <1>5, <2>1, <2>2, <2>3 DEF UpOK
<1>8. Warned(exc', ex.RecvInProgress, downlink)
  BY <1>4 DEF Warned
<1> QED
  BY <1>2, <1>4, <1>6, <1>7, <1>8 DEF LinkInv, UpOK, NoFailure

LEMMA SimReceiveKeeps == LinkInv /\ SimReceive => LinkInv'
<1> SUFFICES ASSUME LinkInv, SimReceive PROVE LinkInv'
  OBVIOUS
<1> USE Parts
<1> DEFINE y == Sim!Receive(ex, downlink[1])
<1>1. downlink # <<>> /\ Head(downlink) = downlink[1] /\ Tail(downlink) \in Seq(Symbols)
  BY Dropped DEF SimReceive
<1>2. /\ ~Sim!Panics(ex, downlink[1]) /\ y \in Sim!Exchanges
      /\ SimOK(y, delivered.sim, given.fw, Tail(downlink))
      /\ OpenEnd(y.RecvInProgress, Tail(downlink)) => OpenEnd(ex.RecvInProgress, downlink)
  BY <1>1, SimReceives
<1> HIDE DEF y
<1>3. /\ ex' = y /\ downlink' = Tail(downlink)
      /\ UNCHANGED <<exc, clip, writing, writer, uplink, given, delivered, losses, reboots, failed>>
  BY <1>1, <1>2 DEF SimReceive, y
<1>4. TypeOK'
  BY <1>1, <1>2, <1>3 DEF TypeOK
<1>5. UpOK'
  BY <1>3 DEF UpOK, Up
<1>6. Warned(exc, y.RecvInProgress, Tail(downlink))
  BY <1>2 DEF Warned
<1> QED
  BY <1>2, <1>3, <1>4, <1>5, <1>6 DEF LinkInv, UpOK, NoFailure

LEMMA SimDeliverKeeps == LinkInv /\ SimDeliver => LinkInv'
<1> SUFFICES ASSUME LinkInv, SimDeliver PROVE LinkInv'
  OBVIOUS
<1> USE Parts
<1> DEFINE new == Append(delivered.sim, Head(ex.InboundPending))
<1>1. /\ ex.InboundPending # <<>> /\ ex' = [ex EXCEPT !.InboundPending = Tail(@)]
      /\ delivered' = [delivered EXCEPT !.sim = new]
      /\ UNCHANGED <<exc, clip, writing, writer, downlink, uplink, given, losses, reboots, failed>>
  BY DEF SimDeliver
<1>2. ex' \in Sim!Exchanges /\ new \in Seq(Seq(Nat)) /\ SimOK(ex', new, given.fw, downlink)
  BY <1>1, HandsOver
<1> HIDE DEF new
<1>3. /\ delivered'.sim = new /\ delivered'.fw = delivered.fw
      /\ delivered' \in [fw : Seq(Seq(Nat)), sim : Seq(Seq(Nat))]
  BY <1>1, <1>2
<1>4. TypeOK'
  BY <1>1, <1>2, <1>3 DEF TypeOK
<1>5. UpOK'
  BY <1>1, <1>3 DEF UpOK, Up
<1>6. ex'.RecvInProgress = ex.RecvInProgress
  BY <1>1 DEF Sim!Exchanges
<1> QED
  BY <1>1, <1>2, <1>3, <1>4, <1>5, <1>6 DEF LinkInv, UpOK, NoFailure

(* A step of a thread of the simulator's side that transmits.              *)
LEMMA ThreadKeeps ==
    ASSUME LinkInv,
           UNCHANGED <<exc, clip, downlink, delivered, losses, reboots, failed>>,
           ex' \in Sim!Exchanges, SimState(ex'), ex'.RecvInProgress = ex.RecvInProgress,
           ex'.InboundBuffer = ex.InboundBuffer, ex'.InboundPending = ex.InboundPending,
           uplink' \in Seq(Symbols), writing' \in Seq(Symbols),
           writer' \in {"none", "token", "packet", "primary", "secondary", "heartbeat"},
           given' \in [fw : Nat, sim : Nat], given'.fw = given.fw, UpOK'
    PROVE  LinkInv'
<1> USE Parts
<1>1. SimOK(ex', delivered.sim, given.fw, downlink)
  BY SimOtherwise
<1>2. TypeOK'
  BY DEF TypeOK
<1> QED
  BY <1>1, <1>2 DEF LinkInv, UpOK, NoFailure

LEMMA UpSame ==
    ASSUME LinkInv, Up' = Up, UNCHANGED <<exc, given, delivered, losses>>
    PROVE  UpOK'
  BY Parts DEF UpOK

LEMMA UpApart ==
    ASSUME LinkInv, NEW s \in Symbols, Apart(s), Up' = Append(Up, s),
           UNCHANGED <<exc, given, delivered, losses>>
    PROVE  UpOK'
<1> USE Parts
<1>1. /\ Triples(Up') /\ Ordered(Up', given.sim) /\ \A p : Below(p, Up) => Below(p, Up')
      /\ Up # <<>> => Up' # <<>> /\ Up'[1] = Up[1]
  BY UpMore DEF UpOK
<1>2. After(delivered.fw, Up) => After(delivered.fw, Up')
  BY <1>1 DEF After
<1>3. Collecting(exc, delivered.fw, given.sim, Up) => Collecting(exc, delivered.fw, given.sim, Up')
  BY <1>1 DEF Collecting
<1> QED
  BY <1>1, <1>2, <1>3 DEF UpOK

LEMMA UpTriple ==
    ASSUME LinkInv, NEW a \in Symbols, IsStart(a), NEW b \in Symbols, IsData(b), b.p = given.sim + 1,
           NEW c \in Symbols, IsEnd(c), Up' = Up \o <<a, b, c>>,
           given'.sim = given.sim + 1, UNCHANGED <<exc, delivered, losses>>
    PROVE  UpOK'
<1> USE Parts
<1> DEFINE n == given.sim
<1>1. /\ Triples(Up') /\ Ordered(Up', n + 1) /\ \A p : p < n + 1 /\ Below(p, Up) => Below(p, Up')
      /\ Up # <<>> => Up' # <<>> /\ Up'[1] = Up[1]
  BY UpPacket DEF UpOK
<1>2. n \in Nat /\ 1..n \subseteq 1..n + 1 /\ \A p \in 1..n : p < n + 1
  OBVIOUS
<1> HIDE DEF n
<1>3. Whole(delivered.fw, n) => Whole(delivered.fw, n + 1)
  BY <1>2 DEF Whole
<1>4. Whole(delivered.fw, n) /\ After(delivered.fw, Up) => After(delivered.fw, Up')
  BY <1>1, <1>2 DEF Whole, After
<1>5. Collecting(exc, delivered.fw, n, Up) => Collecting(exc, delivered.fw, n + 1, Up')
  BY <1>1, <1>2 DEF Collecting
<1> QED
  BY <1>1, <1>3, <1>4, <1>5 DEF UpOK, n

LEMMA Moved ==
    ASSUME NEW u \in Seq(Symbols), NEW w \in Seq(Symbols), w # <<>>
    PROVE  Append(u, Head(w)) \o Tail(w) = u \o w
<1> DEFINE h == Head(w)
           t == Tail(w)
           a == Append(u, h)
           A == a \o t
           B == u \o w
<1>1. /\ h \in Symbols /\ h = w[1] /\ t \in Seq(Symbols) /\ Len(w) \in Nat /\ Len(w) >= 1
      /\ Len(t) = Len(w) - 1 /\ \A i \in 1..Len(t) : t[i] = w[i + 1]
  BY Dropped
<1> HIDE DEF h, t
<1>2. /\ a \in Seq(Symbols) /\ Len(u) \in Nat /\ Len(a) = Len(u) + 1 /\ a[Len(u) + 1] = h
      /\ \A i \in 1..Len(u) : a[i] = u[i]
  BY <1>1, Appended
<1> HIDE DEF a
<1>3. /\ A \in Seq(Symbols) /\ Len(A) = Len(a) + Len(t)
      /\ \A i \in 1..Len(a) : A[i] = a[i]
      /\ \A i \in Len(a) + 1..Len(a) + Len(t) : A[i] = t[i - Len(a)]
  BY <1>1, <1>2, Joined
<1>4. /\ B \in Seq(Symbols) /\ Len(B) = Len(u) + Len(w)
      /\ \A i \in 1..Len(u) : B[i] = u[i]
      /\ \A i \in Len(u) + 1..Len(u) + Len(w) : B[i] = w[i - Len(u)]
  BY Joined
<1> HIDE DEF A, B
<1>5. Len(A) = Len(B)
  BY <1>1, <1>2, <1>3, <1>4
<1>6. ASSUME NEW i \in 1..Len(B) PROVE A[i] = B[i]
  <2>1. CASE i \in 1..Len(u)
    <3>1. i \in 1..Len(a)
      BY <1>2, <2>1
    <3> QED
      BY <1>2, <1>3, <1>4, <2>1, <3>1
  <2>2. CASE i = Len(u) + 1
    <3>1. i \in 1..Len(a) /\ i \in Len(u) + 1..Len(u) + Len(w) /\ i - Len(u) = 1
      BY <1>1, <1>2, <2>2
    <3> QED
      BY <1>1, <1>2, <1>3, <1>4, <2>2, <3>1
  <2>3. CASE i \in Len(u) + 2..Len(u) + Len(w)
    <3>1. /\ i \in Len(a) + 1..Len(a) + Len(t) /\ i \in Len(u) + 1..Len(u) + Len(w)
          /\ i - Len(a) \in 1..Len(t) /\ (i - Len(a)) + 1 = i - Len(u)
      BY <1>1, <1>2, <2>3
    <3> QED
      BY <1>1, <1>3, <1>4, <3>1
  <2>4. i \in 1..Len(u) \/ i = Len(u) + 1 \/ i \in Len(u) + 2..Len(u) + Len(w)
    BY <1>1, <1>2, <1>4
  <2> QED
    BY <2>1, <2>2, <2>3, <2>4
<1>7. A = B
  BY <1>3, <1>4, <1>5, <1>6, Same
<1> QED
  BY <1>7 DEF A, B, a, h, t

(* What a thread is about to write when it takes TxBusy.                   *)
LEMMA Written ==
    ASSUME NEW s \in Symbols, writing = <<>>, uplink \in Seq(Symbols),
           writing' = <<s>>, uplink' = uplink
    PROVE  Up' = Append(Up, s) /\ writing' \in Seq(Symbols)
<1>1. Up = uplink
  BY ConcatEmptySeq DEF Up
<1>2. Up' = uplink \o <<s>>
  BY DEF Up
<1>3. uplink \o <<s>> = Append(uplink, s)
  OBVIOUS
<1> QED
  BY <1>1, <1>2, <1>3

LEMMA ApartIs ==
    ASSUME NEW c \in {"FLOW_CONTROL", "KEEP_ALIVE", "HANDSHAKE_1", "HANDSHAKE_2"}, NEW p \in Nat
    PROVE  Symbol(c, p) \in Symbols /\ Apart(Symbol(c, p))
<1>1. c \in Kinds /\ c \notin {"DATA", "START_PACKET", "END_PACKET"}
  BY DEF Kinds
<1> QED
  BY <1>1, SymbolIs DEF Apart, IsData, IsStart, IsEnd

LEMMA SimTokenKeeps == LinkInv /\ SimToken => LinkInv'
<1> SUFFICES ASSUME LinkInv, SimToken PROVE LinkInv'
  OBVIOUS
<1> USE Parts
<1> DEFINE k == ex.FctsSent + 1
           s == Symbol("FLOW_CONTROL", k)
<1>1. /\ writing = <<>> /\ ex' = [ex EXCEPT !.FctsSent = k]
      /\ writing' = <<s>> /\ writer' = "token"
      /\ UNCHANGED <<exc, clip, downlink, uplink, delivered, losses, reboots, failed, given>>
  BY DEF SimToken, Idle, TxBusy, Transmit, ThreadUnchanged
<1>2. k \in Nat
  BY DEF Sim!Exchanges
<1> HIDE DEF k
<1>3. s \in Symbols /\ Apart(s)
  BY <1>2, ApartIs
<1> HIDE DEF s
<1>4. Up' = Append(Up, s) /\ writing' \in Seq(Symbols)
  BY <1>1, <1>3, Written
<1>5. UpOK'
  BY <1>1, <1>3, <1>4, UpApart
<1>6. /\ ex' \in Sim!Exchanges /\ ex'.RecvInProgress = ex.RecvInProgress
      /\ ex'.InboundBuffer = ex.InboundBuffer /\ ex'.InboundPending = ex.InboundPending
      /\ SimState(ex')
  <2>1. SimState(ex)
    BY DEF SimOK
  <2> QED
    BY <1>1, <1>2, <2>1 DEF Sim!Exchanges, SimState, Sim!CheckInvariants
<1> QED
  BY <1>1, <1>4, <1>5, <1>6, ThreadKeeps

LEMMA SimPacketKeeps == LinkInv /\ SimPacket => LinkInv'
<1> SUFFICES ASSUME LinkInv, SimPacket PROVE LinkInv'
  OBVIOUS
<1> USE Parts
<1> DEFINE k == ex.PktsSent + 1
           n == given.sim + 1
           a == Symbol("START_PACKET", 0)
           b == Symbol("DATA", n)
           c == Symbol("END_PACKET", 0)
<1>1. /\ writing = <<>> /\ ex' = [ex EXCEPT !.PktsSent = k] /\ ex.PktsSent < ex.FctsRcvd
      /\ given' = [given EXCEPT !.sim = n]
      /\ writing' = <<a, b, c>> /\ writer' = "packet"
      /\ UNCHANGED <<exc, clip, downlink, uplink, delivered, losses, reboots, failed>>
  BY DEF SimPacket, Idle, TxBusy, Transmit, ThreadUnchanged, Sim!MaySendPacket
<1>2. /\ k \in Nat /\ n \in Nat /\ ex.PktsSent \in Nat /\ ex.FctsRcvd \in Nat
      /\ given' \in [fw : Nat, sim : Nat] /\ given'.fw = given.fw /\ given'.sim = n
  <2>1. ex.PktsSent \in Nat /\ ex.FctsRcvd \in Nat
    BY DEF Sim!Exchanges
  <2>2. given \in [fw : Nat, sim : Nat] /\ given.sim \in Nat
    OBVIOUS
  <2>3. k \in Nat /\ n \in Nat
    BY <2>1, <2>2
  <2> HIDE DEF k, n
  <2>4. /\ given' \in [fw : Nat, sim : Nat] /\ given'.fw = given.fw /\ given'.sim = n
    BY ONLY <1>1, <2>2, <2>3
  <2> QED
    BY <2>1, <2>3, <2>4
<1>3. /\ a \in Symbols /\ IsStart(a) /\ b \in Symbols /\ IsData(b) /\ b.p = n
      /\ c \in Symbols /\ IsEnd(c)
  <2>1. {"START_PACKET", "DATA", "END_PACKET"} \subseteq Kinds /\ 0 \in Nat
    BY DEF Kinds
  <2> HIDE DEF n
  <2> QED
    BY <1>2, <2>1, SymbolIs DEF IsStart, IsData, IsEnd
<1> HIDE DEF a, b, c
<1>4. Up' = Up \o <<a, b, c>> /\ writing' \in Seq(Symbols)
  <2>1. Up = uplink
    BY <1>1, ConcatEmptySeq DEF Up
  <2>2. Up' = uplink \o <<a, b, c>>
    BY <1>1 DEF Up
  <2>3. <<a, b, c>> \in Seq(Symbols)
    BY <1>3
  <2> QED
    BY <1>1, <2>1, <2>2, <2>3
<1>5. UpOK'
  BY <1>1, <1>2, <1>3, <1>4, UpTriple
<1>6. /\ ex' \in Sim!Exchanges /\ ex'.RecvInProgress = ex.RecvInProgress
      /\ ex'.InboundBuffer = ex.InboundBuffer /\ ex'.InboundPending = ex.InboundPending
      /\ SimState(ex')
  <2>1. SimState(ex)
    BY DEF SimOK
  <2>2. k <= ex.FctsRcvd /\ (ex.FctsRcvd <= ex.PktsSent + MaxOutstandingTokens => ex.FctsRcvd <= k + MaxOutstandingTokens)
    <3>1. ex.PktsSent < ex.FctsRcvd
      BY ONLY <1>1
    <3>2. ex.PktsSent \in Nat /\ ex.FctsRcvd \in Nat /\ MaxOutstandingTokens \in Nat
      BY ONLY <1>2, Tokens
    <3> QED
      BY ONLY <3>1, <3>2
  <2> HIDE DEF k
  <2>3. /\ ex' \in Sim!Exchanges /\ ex'.RecvInProgress = ex.RecvInProgress
        /\ ex'.InboundBuffer = ex.InboundBuffer /\ ex'.InboundPending = ex.InboundPending
        /\ ex'.State = ex.State /\ ex'.SendSecondaryHandshake = ex.SendSecondaryHandshake
        /\ ex'.PktsSent = k /\ ex'.FctsRcvd = ex.FctsRcvd
    BY <1>1, <1>2 DEF Sim!Exchanges
  <2> QED
    BY <2>1, <2>2, <2>3 DEF SimState, Sim!CheckInvariants
<1> QED
  BY <1>1, <1>2, <1>4, <1>5, <1>6, ThreadKeeps

LEMMA SimSecondaryKeeps == LinkInv /\ SimSecondary => LinkInv'
<1> SUFFICES ASSUME LinkInv, SimSecondary PROVE LinkInv'
  OBVIOUS
<1> USE Parts
<1> DEFINE s == Symbol("HANDSHAKE_2", ex.RecvHandshakeId)
<1>1. /\ writing = <<>> /\ writing' = <<s>> /\ writer' = "secondary"
      /\ UNCHANGED <<exc, ex, clip, downlink, uplink, delivered, losses, reboots, failed, given>>
  BY DEF SimSecondary, Idle, TxBusy, Transmit, ThreadUnchanged
<1>2. s \in Symbols /\ Apart(s)
  <2>1. ex.RecvHandshakeId \in Nat
    BY DEF Sim!Exchanges
  <2> QED
    BY <2>1, ApartIs
<1> HIDE DEF s
<1>3. Up' = Append(Up, s) /\ writing' \in Seq(Symbols)
  BY <1>1, <1>2, Written
<1>4. UpOK'
  BY <1>1, <1>2, <1>3, UpApart
<1>5. SimState(ex)
  BY DEF SimOK
<1> QED
  BY <1>1, <1>3, <1>4, <1>5, ThreadKeeps

LEMMA SimHeartbeatKeeps == LinkInv /\ SimHeartbeat => LinkInv'
<1> SUFFICES ASSUME LinkInv, SimHeartbeat PROVE LinkInv'
  OBVIOUS
<1> USE Parts
<1> DEFINE s == Symbol("FLOW_CONTROL", ex.FctsSent)
<1>1. /\ writing = <<>> /\ writing' = <<s>> /\ writer' = "heartbeat"
      /\ UNCHANGED <<exc, ex, clip, downlink, uplink, delivered, losses, reboots, failed, given>>
  BY DEF SimHeartbeat, Idle, TxBusy, Transmit, ThreadUnchanged, Sim!Tokens, Sim!Sym, Symbol
<1>2. s \in Symbols /\ Apart(s)
  <2>1. ex.FctsSent \in Nat
    BY DEF Sim!Exchanges
  <2> QED
    BY <2>1, ApartIs
<1> HIDE DEF s
<1>3. Up' = Append(Up, s) /\ writing' \in Seq(Symbols)
  BY <1>1, <1>2, Written
<1>4. UpOK'
  BY <1>1, <1>2, <1>3, UpApart
<1>5. SimState(ex)
  BY DEF SimOK
<1> QED
  BY <1>1, <1>3, <1>4, <1>5, ThreadKeeps

LEMMA SimPrimaryKeeps == LinkInv /\ SimPrimary => LinkInv'
<1> SUFFICES ASSUME LinkInv, SimPrimary PROVE LinkInv'
  OBVIOUS
<1> USE Parts
<1>1. PICK id \in SimIds :
         /\ ex' = [ex EXCEPT !.SendHandshakeId = id, !.State = "HANDSHAKING"]
         /\ writing' = <<Symbol("HANDSHAKE_1", id)>> /\ writer' = "primary"
  BY DEF SimPrimary, Transmit
<1> DEFINE s == Symbol("HANDSHAKE_1", id)
<1>2. /\ writing = <<>> /\ ~ex.SendSecondaryHandshake /\ ex.State # "OPERATING"
      /\ UNCHANGED <<exc, clip, downlink, uplink, delivered, losses, reboots, failed, given>>
  BY DEF SimPrimary, Idle, TxBusy, ThreadUnchanged
<1>3. id \in Nat /\ s \in Symbols /\ Apart(s)
  <2>1. id \in Nat
    BY ExchangeLinkAssumption
  <2> QED
    BY <2>1, ApartIs
<1>4. writing' = <<s>>
  BY <1>1
<1> HIDE DEF s
<1>5. Up' = Append(Up, s) /\ writing' \in Seq(Symbols)
  BY <1>2, <1>3, <1>4, Written
<1>6. UpOK'
  BY <1>2, <1>3, <1>5, UpApart
<1>7. /\ ex' \in Sim!Exchanges /\ ex'.RecvInProgress = ex.RecvInProgress
      /\ ex'.InboundBuffer = ex.InboundBuffer /\ ex'.InboundPending = ex.InboundPending
      /\ SimState(ex')
  <2>1. SimState(ex)
    BY DEF SimOK
  <2> QED
    BY <1>1, <1>2, <1>3, <2>1 DEF Sim!Exchanges, SimState, Sim!CheckInvariants
<1> QED
  BY <1>1, <1>2, <1>5, <1>6, <1>7, ThreadKeeps

LEMMA SimWriteKeeps == LinkInv /\ SimWrite => LinkInv'
<1> SUFFICES ASSUME LinkInv, SimWrite PROVE LinkInv'
  OBVIOUS
<1> USE Parts
<1> DEFINE h == Head(writing)
           w == Tail(writing)
           s == Symbol("KEEP_ALIVE", ex.PktsSent)
<1>1. /\ writing # <<>> /\ uplink' = Append(uplink, h)
      /\ UNCHANGED <<exc, clip, downlink, given, delivered, losses, reboots, failed>>
      /\ ex' = IF writer = "secondary" THEN Sim!SecondarySent(ex, h.p) ELSE ex
  BY DEF SimWrite, TxBusy
<1>2. \/ writing' = w /\ writer' \in {"none", writer}
      \/ Len(writing) = 1 /\ writing' = <<s>> /\ writer' = "token"
  BY DEF SimWrite, Transmit, Sim!KeepAlive, Sim!Sym, Symbol
<1>3. h \in Symbols /\ w \in Seq(Symbols) /\ Len(writing) \in Nat /\ Len(w) = Len(writing) - 1
      /\ uplink' \in Seq(Symbols) /\ uplink' \o w = Up
  <2>1. h \in Symbols /\ w \in Seq(Symbols) /\ Len(writing) \in Nat /\ Len(w) = Len(writing) - 1
    BY <1>1, Dropped
  <2>2. uplink' \in Seq(Symbols)
    BY <1>1, <2>1, Appended
  <2> QED
    BY <1>1, <2>1, <2>2, Moved DEF Up
<1>4. s \in Symbols /\ Apart(s)
  <2>1. ex.PktsSent \in Nat
    BY DEF Sim!Exchanges
  <2> QED
    BY <2>1, ApartIs
<1> HIDE DEF h, w, s
<1>5. UpOK' /\ writing' \in Seq(Symbols)
  <2>1. CASE writing' = w
    <3>1. Up' = Up
      BY <1>3, <2>1 DEF Up
    <3> QED
      BY <1>1, <1>3, <2>1, <3>1, UpSame
  <2>2. CASE Len(writing) = 1 /\ writing' = <<s>>
    <3>1. w = <<>>
      <4>1. Len(w) = 0
        BY <1>3, <2>2
      <4> QED
        BY <1>3, <4>1, EmptySeq
    <3>2. uplink' = Up
      BY <1>3, <3>1, ConcatEmptySeq
    <3>3. Up' = Append(Up, s)
      <4>1. Up' = uplink' \o <<s>>
        BY <2>2 DEF Up
      <4>2. Up \o <<s>> = Append(Up, s)
        BY <1>4
      <4> QED
        BY <3>2, <4>1, <4>2
    <3> QED
      BY <1>1, <1>4, <2>2, <3>3, UpApart
  <2> QED
    BY <1>2, <2>1, <2>2
<1>6. writer' \in {"none", "token", "packet", "primary", "secondary", "heartbeat"}
  BY <1>2 DEF TypeOK
<1>7. /\ ex' \in Sim!Exchanges /\ ex'.RecvInProgress = ex.RecvInProgress
      /\ ex'.InboundBuffer = ex.InboundBuffer /\ ex'.InboundPending = ex.InboundPending
      /\ SimState(ex')
  <2>1. SimState(ex)
    BY DEF SimOK
  <2>2. CASE ex' = ex
    BY <2>1, <2>2
  <2>3. CASE /\ ex.SendSecondaryHandshake /\ ex.State = "CONNECTING"
             /\ ex' = [ex EXCEPT !.State = "OPERATING", !.SendSecondaryHandshake = FALSE]
    BY <2>1, <2>3 DEF Sim!Exchanges, SimState, Sim!CheckInvariants
  <2> QED
    BY <1>1, <2>2, <2>3 DEF Sim!SecondarySent
<1> QED
  BY <1>1, <1>3, <1>5, <1>6, <1>7, ThreadKeeps

-----------------------------------------------------------------------------
LEMMA InitKeeps == Init => LinkInv
<1> SUFFICES ASSUME Init PROVE LinkInv
  OBVIOUS
<1>1. PICK c \in Period : exc = exchange_instance_configure(c)
  BY DEF Init
<1>2. exc \in Notes /\ FwOK(exc) /\ Window(exc, 0) /\ exc.recv_state = "LISTENING" /\ exc.exc_state = "CONNECTING"
  BY <1>1, ConfiguredOK
<1>3. /\ ex = Sim!Disconnected /\ writing = <<>> /\ downlink = <<>> /\ uplink = <<>>
      /\ given = [fw |-> 0, sim |-> 0] /\ delivered = [fw |-> <<>>, sim |-> <<>>]
      /\ losses = 0 /\ reboots = 0 /\ failed = "none" /\ clip = "tx" /\ writer = "none"
  BY DEF Init
<1>4. /\ given.fw = 0 /\ given.sim = 0 /\ delivered.fw = <<>> /\ delivered.sim = <<>>
      /\ given \in [fw : Nat, sim : Nat] /\ delivered \in [fw : Seq(Seq(Nat)), sim : Seq(Seq(Nat))]
  <2>1. <<>> \in Seq(Seq(Nat))
    OBVIOUS
  <2> QED
    BY <1>3, <2>1
<1>5. /\ <<>> \in Seq(Symbols) /\ Len(<<>>) = 0 /\ 1..0 = {} /\ 2..0 = {} /\ <<>> \o <<>> = <<>>
  OBVIOUS
<1>6. ex \in Sim!Exchanges /\ SimState(ex) /\ ~ex.RecvInProgress /\ ex.InboundPending = <<>>
  BY <1>3, DisconnectedOK
<1>7. TypeOK
  BY <1>2, <1>3, <1>4, <1>5, <1>6 DEF TypeOK
<1>8. UpOK
  <2>1. Up = <<>>
    BY <1>3, <1>5 DEF Up
  <2>2. Triples(<<>>) /\ Ordered(<<>>, 0)
    BY <1>5 DEF Triples, Ordered
  <2>3. Collecting(exc, <<>>, 0, <<>>)
    BY <1>2 DEF Collecting
  <2> QED
    BY <1>4, <2>1, <2>2, <2>3, EmptyPackets DEF UpOK
<1>9. SimOK(ex, <<>>, 0, <<>>) /\ ~OpenEnd(ex.RecvInProgress, <<>>)
  <2>1. Down(ex.RecvInProgress, 0, <<>>) /\ ~OpenEnd(ex.RecvInProgress, <<>>)
    BY <1>5, <1>6 DEF Down, Ordered, Separate, Torn, OpenEnd
  <2>2. HandedUp(ex, <<>>, 0) /\ Gathering(ex, <<>>, 0, <<>>)
    BY <1>5, <1>6, EmptyPackets DEF HandedUp, Gathering
  <2> QED
    BY <1>6, <2>1, <2>2, EmptyPackets DEF SimOK
<1> QED
  BY <1>2, <1>3, <1>4, <1>7, <1>8, <1>9 DEF LinkInv, UpOK, Warned

LEMMA StepKeeps == LinkInv /\ [Next]_vars => LinkInv'
<1> SUFFICES ASSUME LinkInv, [Next]_vars PROVE LinkInv'
  OBVIOUS
<1>1. CASE UNCHANGED vars
  BY <1>1 DEF vars, LinkInv, TypeOK, Up
<1>2. CASE Next
  BY <1>2, TxClipKeeps, RxClipKeeps, RebootKeeps, SimReceiveKeeps, SimWriteKeeps, SimDeliverKeeps,
     SimTokenKeeps, SimPacketKeeps, SimSecondaryKeeps, SimHeartbeatKeeps, SimPrimaryKeeps DEF Next
<1> QED
  BY <1>1, <1>2

(* The inductive invariant, for all constants that meet the assumptions,   *)
(* any number of lost cycles and reboots included.                         *)
THEOREM LinkInvariant == Spec => []LinkInv
  BY InitKeeps, StepKeeps, PTL DEF Spec

(* Packets are handed up whole and in order: on the simulator's side       *)
(* whatever is lost and however often the flight computer restarts in the  *)
(* middle of a packet, on the flight side as long as no cycle was lost     *)
(* (exchange_instance_transmit_data, exchange_instance_receive and         *)
(* exchange.go's Receive).                                                 *)
THEOREM PacketsWhole == Spec => []WholePackets
<1>1. LinkInv => WholePackets
  BY DEF LinkInv, WholePackets, SimOK, HandedUp
<1> QED
  BY <1>1, LinkInvariant, PTL

(* No assertion of either program fails: the counts keep to the tokens,    *)
(* what is pending fits the state, the read duct has room for what the     *)
(* tokens allow, and the simulator never sees a packet start in another.   *)
THEOREM NothingAsserted == Spec => []Asserted
<1>1. LinkInv => Asserted
  BY DEF LinkInv, Asserted, FlowControlled, PendingFitsState, FwOK, SimOK, SimState
<1> QED
  BY <1>1, LinkInvariant, PTL
=============================================================================

-------------------------- MODULE LmpStreamsProofs --------------------------
(***************************************************************************)
(* LmpStreams for every MaxSize, every buffer and every set of packets:    *)
(* either reader on a TCP stream is the abstract connection PacketFifo as  *)
(* far as safety goes, and what the readers promise of sizes.              *)
(*                                                                         *)
(* None of it is inductive by itself, because the bytes on the wire do not *)
(* say where a frame starts.  StreamInv says what the behaviour knows and  *)
(* the reader does not: the wire is the end of the frames that were sent   *)
(* (Laid), the reader is inside the frame of one packet (Reading) and has  *)
(* taken what was read of it since its start or the last terminator        *)
(* (Taken), and what was received is what had to be received of the        *)
(* packets before (Passed).  With C, where the rest of a chunk is thrown   *)
(* away, the packet being read is also the last one sent.  A return at a   *)
(* terminator is then the end of a packet that must arrive, and is Receive *)
(* of the abstract connection, or a piece of one that need not (a stutter, *)
(* since no piece is another packet: PiecesAssumption).                    *)
(***************************************************************************)
EXTENDS LmpStreams, LmpProofs, FiniteSetTheorems

-----------------------------------------------------------------------------
(* Kept *)

Places(s, S) == {i \in DOMAIN s : s[i] \in S}
Rank(s, S, i) == Cardinality({j \in Places(s, S) : j <= i})

\* The ranks of the places number them from 1, in their order.
LEMMA RanksNumberPlaces ==
  ASSUME NEW T, NEW s \in Seq(T), NEW S
  PROVE  /\ IsFiniteSet(Places(s, S)) /\ Cardinality(Places(s, S)) \in Nat
         /\ \A i \in Places(s, S) : i \in 1 .. Len(s) /\ s[i] \in S
         /\ \A i \in Places(s, S) : Rank(s, S, i) \in 1 .. Cardinality(Places(s, S))
         /\ \A i, j \in Places(s, S) : Rank(s, S, i) = Rank(s, S, j) => i = j
         /\ \A n \in 1 .. Cardinality(Places(s, S)) :
              \E i \in Places(s, S) : Rank(s, S, i) = n
<1> DEFINE K == Places(s, S)
           UpTo(i) == {j \in K : j <= i}
<1>1. Len(s) \in Nat /\ DOMAIN s = 1 .. Len(s)
  BY LenProperties
<1>2. K \subseteq 1 .. Len(s) /\ \A i \in K : i \in 1 .. Len(s) /\ s[i] \in S
  BY <1>1 DEF Places
<1>3. IsFiniteSet(1 .. Len(s))
  BY <1>1, FS_Interval
<1>4. IsFiniteSet(K) /\ Cardinality(K) \in Nat
  <2> HIDE DEF K
  <2> QED  BY <1>2, <1>3, FS_Subset, FS_CardinalityType
<1>5. \A i \in K : Rank(s, S, i) = Cardinality(UpTo(i))
  BY DEF Rank
<1> HIDE DEF K
<1>6. ASSUME NEW i \in K
      PROVE  Cardinality(UpTo(i)) \in 1 .. Cardinality(K)
  <2>1. UpTo(i) \in SUBSET K /\ i \in UpTo(i)
    BY <1>1, <1>2
  <2> HIDE DEF UpTo
  <2>2. IsFiniteSet(UpTo(i)) /\ Cardinality(UpTo(i)) <= Cardinality(K)
    BY <1>4, <2>1, FS_Subset
  <2>3. Cardinality(UpTo(i)) \in Nat /\ Cardinality(UpTo(i)) # 0
    BY <2>1, <2>2, FS_CardinalityType, FS_EmptySet
  <2> QED  BY <1>4, <2>2, <2>3
<1>7. ASSUME NEW i \in K, NEW j \in K, i < j
      PROVE  Cardinality(UpTo(i)) # Cardinality(UpTo(j))
  <2>0. i \in Nat /\ j \in Nat /\ \A h \in K : h \in Nat
    BY <1>1, <1>2
  <2>1. UpTo(i) \in SUBSET UpTo(j) /\ j \in UpTo(j) /\ j \notin UpTo(i)
    <3>1. \A h \in K : h <= i => h <= j
      BY <1>7, <2>0
    <3>2. j <= j /\ ~(j <= i)
      BY <1>7, <2>0
    <3> QED  BY <3>1, <3>2
  <2>2. UpTo(j) \in SUBSET K
    OBVIOUS
  <2> HIDE DEF UpTo
  <2>3. IsFiniteSet(UpTo(j))
    BY <1>4, <2>2, FS_Subset
  <2> QED  BY <2>1, <2>3, FS_Subset
<1>8. \A i, j \in K : Cardinality(UpTo(i)) = Cardinality(UpTo(j)) => i = j
  <2> SUFFICES ASSUME NEW i \in K, NEW j \in K, i # j
               PROVE  Cardinality(UpTo(i)) # Cardinality(UpTo(j))
    OBVIOUS
  <2>1. i < j \/ j < i
    BY <1>1, <1>2
  <2> QED  BY <1>7, <2>1
<1> DEFINE f == [i \in K |-> Cardinality(UpTo(i))]
           c == Cardinality(K)
<1>9. f \in Injection(K, 1 .. c)
  <2>1. f \in [K -> 1 .. c] /\ \A i, j \in K : f[i] = f[j] => i = j
    BY <1>6, <1>8
  <2> HIDE DEF f, c
  <2> QED  BY <2>1 DEF Injection, IsInjective
<1>10. IsFiniteSet(1 .. c) /\ Cardinality(1 .. c) = c
  BY <1>4, FS_Interval
<1>11. f \in Surjection(K, 1 .. c)
  <2> HIDE DEF f, c
  <2>1. Cardinality(K) = Cardinality(1 .. c) <=> f \in Surjection(K, 1 .. c)
    BY <1>9, <1>10, FS_Injection
  <2> QED  BY <1>10, <2>1 DEF c
<1>12. \A n \in 1 .. c : \E i \in K : f[i] = n
  <2> HIDE DEF f, c
  <2> QED  BY <1>11 DEF Surjection
<1>13. \A i \in K : Rank(s, S, i) = f[i]
  BY <1>5
<1>14. \A i \in K : Rank(s, S, i) \in 1 .. c
  BY <1>5, <1>6
<1>15. \A i, j \in K : Rank(s, S, i) = Rank(s, S, j) => i = j
  BY <1>5, <1>8
<1> HIDE DEF f
<1>16. \A n \in 1 .. c : \E i \in K : Rank(s, S, i) = n
  BY <1>12, <1>13
<1> QED
  BY <1>2, <1>4, <1>14, <1>15, <1>16 DEF K

\* Kept is a sequence that has at the rank of a place what is there.
LEMMA KeptAtRank ==
  ASSUME NEW T, NEW s \in Seq(T), NEW S
  PROVE  /\ Kept(s, S) \in Seq(T)
         /\ Len(Kept(s, S)) = Cardinality(Places(s, S))
         /\ \A i \in Places(s, S) : Kept(s, S)[Rank(s, S, i)] = s[i]
<1> DEFINE K == Places(s, S)
           c == Cardinality(K)
           At(n) == {i \in K : Rank(s, S, i) = n}
<1>1. Kept(s, S) = [n \in 1 .. c |-> s[TheOne(At(n))]]
  BY DEF Kept, Places, Rank
<1>2. /\ c \in Nat
      /\ \A i \in K : i \in 1 .. Len(s) /\ Rank(s, S, i) \in 1 .. c
      /\ \A i, j \in K : Rank(s, S, i) = Rank(s, S, j) => i = j
      /\ \A n \in 1 .. c : \E i \in K : Rank(s, S, i) = n
  BY RanksNumberPlaces
<1>3. \A i \in 1 .. Len(s) : s[i] \in T
  BY ElementOfSeq
<1> HIDE DEF K, c
<1>4. ASSUME NEW n \in 1 .. c
      PROVE  TheOne(At(n)) \in At(n)
  <2>1. \E i : i \in At(n)
    BY <1>2
  <2> HIDE DEF At
  <2> QED  BY <2>1 DEF TheOne
<1>5. ASSUME NEW i \in K
      PROVE  TheOne(At(Rank(s, S, i))) = i
  <2>1. TheOne(At(Rank(s, S, i))) \in At(Rank(s, S, i))
    BY <1>2, <1>4
  <2> QED  BY <1>2, <2>1
<1>6. \A n \in 1 .. c : s[TheOne(At(n))] \in T
  <2> TAKE n \in 1 .. c
  <2>1. TheOne(At(n)) \in 1 .. Len(s)
    BY <1>2, <1>4
  <2> QED  BY <1>3, <2>1
<1> DEFINE f == [n \in 1 .. c |-> s[TheOne(At(n))]]
<1>7. f \in [1 .. c -> T]
  BY <1>6
<1>8. \A i \in K : f[Rank(s, S, i)] = s[i]
  BY <1>2, <1>5
<1>9. DOMAIN f = 1 .. c
  OBVIOUS
<1>10. Kept(s, S) = f
  BY <1>1
<1> HIDE DEF f, At
<1>11. f \in Seq(T) /\ Len(f) = c
  <2>1. f \in UNION {[1 .. n -> T] : n \in Nat}
    BY <1>2, <1>7
  <2>2. f \in Seq(T)
    BY <2>1, SeqDef, Zenon
  <2>3. DOMAIN f = 1 .. Len(f) /\ Len(f) \in Nat
    BY <2>2, LenProperties
  <2> QED  BY <1>2, <1>9, <2>2, <2>3
<1> QED  BY <1>8, <1>10, <1>11 DEF K, c

LEMMA KeptOfNothing ==
  ASSUME NEW S
  PROVE  Kept(<<>>, S) = <<>>
<1> DEFINE e == <<>>
<1>1. e \in Seq({}) /\ Len(e) = 0
  BY EmptySeq
<1>2. \A t \in Seq({}) : Len(t) = 0 => t = e
  BY EmptySeq
<1>3. DOMAIN e = 1 .. 0
  BY <1>1, LenProperties
<1> HIDE DEF e
<1>4. Places(e, S) = {}
  BY <1>3 DEF Places
<1>5. Kept(e, S) \in Seq({}) /\ Len(Kept(e, S)) = 0
  BY <1>1, <1>4, KeptAtRank, FS_EmptySet
<1> QED  BY <1>2, <1>5 DEF e

\* Kept grows with its argument.
LEMMA KeptOfAppend ==
  ASSUME NEW T, NEW s \in Seq(T), NEW S, NEW e \in T
  PROVE  Kept(Append(s, e), S) = IF e \in S THEN Append(Kept(s, S), e) ELSE Kept(s, S)
<1> DEFINE s2 == Append(s, e)
           n == Len(s)
           K == Places(s, S)
           K2 == Places(s2, S)
           k == Kept(s, S)
           k2 == Kept(s2, S)
           c == Cardinality(K)
<1>1. n \in Nat /\ DOMAIN s = 1 .. n
  BY LenProperties
<1>2. /\ s2 \in Seq(T) /\ Len(s2) = n + 1
      /\ \A i \in 1 .. n : s2[i] = s[i]
      /\ s2[n + 1] = e
  BY AppendProperties
<1> HIDE DEF s2
<1>3. DOMAIN s2 = 1 .. n + 1
  BY <1>2, LenProperties
<1> HIDE DEF n
<1>4. K \subseteq 1 .. n /\ K2 = IF e \in S THEN K \cup {n + 1} ELSE K
  <2>1. \A i \in 1 .. n + 1 : i \in 1 .. n \/ i = n + 1
    BY <1>1
  <2>2. \A i \in 1 .. n : i \in 1 .. n + 1
    BY <1>1
  <2>3. n + 1 \in 1 .. n + 1
    BY <1>1
  <2> QED  BY <1>1, <1>2, <1>3, <2>1, <2>2, <2>3 DEF Places
<1>5. n + 1 \notin K
  BY <1>1, <1>4
<1>6. ASSUME NEW i \in K
      PROVE  i \in K2 /\ Rank(s2, S, i) = Rank(s, S, i)
  <2>1. {j \in K2 : j <= i} = {j \in K : j <= i}
    BY <1>1, <1>4
  <2> QED  BY <1>4, <2>1 DEF Rank
<1>7. /\ k \in Seq(T) /\ Len(k) = c /\ c \in Nat /\ IsFiniteSet(K)
      /\ \A i \in K : k[Rank(s, S, i)] = s[i]
      /\ \A j \in 1 .. c : \E i \in K : Rank(s, S, i) = j
  BY KeptAtRank, RanksNumberPlaces
<1>8. /\ k2 \in Seq(T) /\ Len(k2) = Cardinality(K2)
      /\ \A i \in K2 : k2[Rank(s2, S, i)] = s2[i]
  BY <1>2, KeptAtRank
<1> HIDE DEF K, K2, k, k2, c
<1>9. \A j \in 1 .. c : k2[j] = k[j]
  <2> TAKE j \in 1 .. c
  <2>1. PICK i \in K : Rank(s, S, i) = j
    BY <1>7
  <2>2. k2[j] = s2[i] /\ k[j] = s[i] /\ s2[i] = s[i]
    BY <1>2, <1>4, <1>6, <1>7, <1>8, <2>1
  <2> QED  BY <2>2
<1>10. CASE e \notin S
  <2>1. Len(k2) = c
    BY <1>4, <1>8, <1>10 DEF c
  <2> QED  BY <1>7, <1>8, <1>9, <1>10, <2>1, SeqEqual DEF k, k2, s2
<1>11. CASE e \in S
  <2>1. Cardinality(K2) = c + 1
    BY <1>4, <1>5, <1>7, <1>11, FS_AddElement DEF c
  <2>0. \A j \in K2 : j <= n + 1
    <3>1. \A j \in K2 : j \in 1 .. n \/ j = n + 1
      BY <1>4, <1>11
    <3> QED  BY <1>1, <3>1
  <2>2. {j \in K2 : j <= n + 1} = K2
    BY <2>0
  <2>3. n + 1 \in K2 /\ Rank(s2, S, n + 1) = c + 1
    BY <1>4, <1>11, <2>1, <2>2 DEF Rank, K2
  <2>4. k2[c + 1] = e
    BY <1>2, <1>8, <2>3
  <2> DEFINE a == Append(k, e)
  <2>5. /\ a \in Seq(T) /\ Len(a) = c + 1
        /\ \A j \in 1 .. c : a[j] = k[j]
        /\ a[c + 1] = e
    BY <1>7, AppendProperties
  <2> HIDE DEF a
  <2>6. \A j \in 1 .. c + 1 : j \in 1 .. c \/ j = c + 1
    BY <1>7
  <2>7. \A j \in 1 .. c + 1 : k2[j] = a[j]
    BY <1>9, <2>4, <2>5, <2>6
  <2>8. k2 = a
    BY <1>8, <2>1, <2>5, <2>7, SeqEqual
  <2> QED  BY <1>11, <2>8 DEF a, k, k2, s2
<1> QED  BY <1>10, <1>11

LEMMA NextPrefix ==
  ASSUME NEW T, NEW s \in Seq(T), NEW m \in 0 .. Len(s) - 1
  PROVE  /\ SubSeq(s, 1, m) \in Seq(T) /\ Len(SubSeq(s, 1, m)) = m
         /\ \A i \in 1 .. m : SubSeq(s, 1, m)[i] = s[i]
         /\ SubSeq(s, 1, m + 1) = Append(SubSeq(s, 1, m), s[m + 1])
<1> DEFINE t == SubSeq(s, 1, m)
           u == SubSeq(s, 1, m + 1)
           a == Append(t, s[m + 1])
<1>1. Len(s) \in Nat /\ m \in Nat /\ m + 1 \in 1 .. Len(s)
  BY LenProperties
<1>2. \A i \in 1 .. m + 1 : s[i] \in T
  BY <1>1, ElementOfSeq
<1>3. \A i \in 1 .. m : s[i] \in T
  BY <1>1, <1>2
<1>4. t \in Seq(T) /\ Len(t) = m /\ \A i \in 1 .. m : t[i] = s[i]
  BY <1>1, <1>3, SubSeqProperties
<1>5. u \in Seq(T) /\ Len(u) = m + 1 /\ \A i \in 1 .. m + 1 : u[i] = s[i]
  BY <1>1, <1>2, SubSeqProperties
<1>6. s[m + 1] \in T
  BY <1>1, <1>2
<1> HIDE DEF t, u
<1>7. /\ a \in Seq(T) /\ Len(a) = m + 1
      /\ \A i \in 1 .. m : a[i] = t[i]
      /\ a[m + 1] = s[m + 1]
  BY <1>4, <1>6, AppendProperties
<1> HIDE DEF a
<1>8. \A i \in 1 .. m + 1 : u[i] = a[i]
  <2>1. \A i \in 1 .. m + 1 : i \in 1 .. m \/ i = m + 1
    BY <1>1
  <2> QED  BY <1>4, <1>5, <1>7, <2>1
<1>9. u = a
  BY <1>5, <1>7, <1>8, SeqEqual
<1> QED  BY <1>4, <1>9 DEF t, u, a

\* What is kept of a prefix is followed by the next that is kept.
LEMMA NextKept ==
  ASSUME NEW T, NEW s \in Seq(T), NEW S, NEW m \in 0 .. Len(s) - 1,
         s[m + 1] \in S
  PROVE  /\ Len(Kept(SubSeq(s, 1, m), S)) \in Nat
         /\ Len(Kept(SubSeq(s, 1, m), S)) < Len(Kept(s, S))
         /\ Kept(s, S)[Len(Kept(SubSeq(s, 1, m), S)) + 1] = s[m + 1]
<1> DEFINE t == SubSeq(s, 1, m)
           K == Places(s, S)
           P == Places(t, S)
           r == Cardinality(P)
<1>1. Len(s) \in Nat /\ m \in Nat /\ m + 1 \in 1 .. Len(s) /\ DOMAIN s = 1 .. Len(s)
  BY LenProperties
<1>2. t \in Seq(T) /\ Len(t) = m /\ \A i \in 1 .. m : t[i] = s[i]
  BY NextPrefix
<1> HIDE DEF t
<1>3. DOMAIN t = 1 .. m
  BY <1>2, LenProperties
<1>4. m + 1 \in K /\ P = {i \in K : i <= m} /\ P \subseteq 1 .. m
  BY <1>1, <1>2, <1>3 DEF Places
<1>5. {i \in K : i <= m + 1} = P \cup {m + 1}
  <2>1. \A i \in K : i \in 1 .. Len(s)
    BY <1>1 DEF Places
  <2>2. \A i \in 1 .. Len(s) : i <= m + 1 <=> i <= m \/ i = m + 1
    BY <1>1
  <2> HIDE DEF K, P
  <2> QED  BY <1>4, <2>1, <2>2
<1>6. IsFiniteSet(P) /\ r \in Nat /\ Len(Kept(t, S)) = r
  BY <1>2, RanksNumberPlaces, KeptAtRank
<1>7. m + 1 \notin P
  BY <1>1, <1>4
<1>8. Rank(s, S, m + 1) = r + 1
  <2> HIDE DEF P
  <2>1. Cardinality(P \cup {m + 1}) = r + 1
    BY <1>6, <1>7, FS_AddElement
  <2> QED  BY <1>5, <2>1 DEF Rank
<1>9. Kept(s, S)[r + 1] = s[m + 1]
  BY <1>4, <1>8, KeptAtRank
<1>10. r + 1 \in 1 .. Cardinality(K) /\ Cardinality(K) \in Nat
  BY <1>4, <1>8, RanksNumberPlaces
<1>11. r < Cardinality(K)
  BY <1>6, <1>10
<1>12. Len(Kept(s, S)) = Cardinality(K)
  BY KeptAtRank
<1> QED  BY <1>6, <1>9, <1>11, <1>12 DEF t

-----------------------------------------------------------------------------
(* Where the reader is *)

\* at[i] is where the frame of the i-th packet ends, counted from the first
\* byte that was not read: the wire holds the frames, up to where it was lost.
Laid(at) ==
  /\ at \in [0 .. Len(sent) -> Int]
  /\ \A i \in 1 .. Len(sent) : at[i] = at[i - 1] + Len(Frame(sent[i]))
  /\ \A i \in 1 .. Len(sent) : \A j \in 1 .. Len(Frame(sent[i])) :
       at[i - 1] + j \in 1 .. Len(wire) => wire[at[i - 1] + j] = Frame(sent[i])[j]
  /\ \A i \in 0 .. Len(sent) : at[i] <= at[Len(sent)]
  /\ Len(wire) <= at[Len(sent)]
  /\ link # "lost" => Len(wire) = at[Len(sent)]

\* The first m packets have been read, the next has not.
Reading(at, m) ==
  /\ at[m] <= 0
  /\ m < Len(sent) => at[m + 1] >= 1
  /\ reader = "c" => m >= Len(sent) - 1

\* The running call has taken what was read of the next frame, from its start
\* or from behind a terminator inside it.
Taken(at, m) ==
  IF m = Len(sent) THEN buffer = <<>>
  ELSE \E a \in 1 .. 1 - at[m] :
         /\ a = 1 \/ Frame(sent[m + 1])[a - 1] = Terminate
         /\ Len(buffer) = 1 - at[m] - a
         /\ \A j \in 1 .. Len(buffer) :
              buffer[j] = Frame(sent[m + 1])[a - 1 + j] /\ buffer[j] # Terminate

\* What was received is what had to be received of the first m packets.
Passed(m) == Kept(received, Readable) = Kept(SubSeq(sent, 1, m), Readable)

Position ==
  \E m \in 0 .. Len(sent) : \E at \in [0 .. Len(sent) -> Int] :
     Laid(at) /\ Reading(at, m) /\ Taken(at, m) /\ Passed(m)

SentInv ==
  \A i \in 1 .. Len(sent) :
    /\ sent[i] \in Packets /\ Serializable(sent[i])
    /\ reader = "c" => sent[i] \in CPackets

StreamTypeOK ==
  /\ TypeOK
  /\ reader \in {"go", "c"}
  /\ code \in CReader!Codes

StreamInv ==
  /\ StreamTypeOK
  /\ SentInv
  /\ NeverOversize
  /\ Len(buffer) < MaxSize
  /\ OnlyFullPacketsAreTooLarge
  /\ IF ended THEN buffer = <<>> /\ link # "open" ELSE Position

-----------------------------------------------------------------------------

\* What a packet that was sent is on the wire.
LEMMA SentFrame ==
  ASSUME NEW p \in Packet, Serializable(p)
  PROVE  /\ Frame(p) \in Seq(Byte)
         /\ Len(Frame(p)) \in MinSize .. MaxSize
         /\ Frame(p)[Len(Frame(p))] = Terminate
         /\ Whole(p) => \A i \in 1 .. Len(Frame(p)) - 1 : Frame(p)[i] # Terminate
         /\ Clean(p) <=> Whole(p) /\ Deserializable(Frame(p))
<1> DEFINE f == Frame(p)
           n == Len(p.payload)
<1>1. /\ f \in Seq(Byte) /\ n \in Nat
      /\ Len(f) = HeaderSize + n + 1
      /\ f[1] = p.version /\ f[2] = p.type
      /\ f[3] = p.arg /\ f[4] = p.flags
      /\ \A i \in 1 .. n : f[HeaderSize + i] = p.payload[i]
      /\ f[HeaderSize + n + 1] = Terminate
  BY FrameBytes
<1>2. /\ HeaderSize + n + 1 >= MinSize /\ HeaderSize + n + 1 <= MaxSize
      /\ p.version \in Versions /\ p.type \in Types /\ p.arg \in ArgsOf[p.type]
  BY DEF Serializable
<1>3. p.payload \in Seq(Byte) /\ DOMAIN p.payload = 1 .. n
  BY LenProperties DEF Packet
<1>4. Clean(p) <=> Whole(p) /\ Deserializable(f)
  BY WhatIsWrittenCanBeRead DEF Clean
<1> HIDE DEF f, n
<1>5. Len(f) \in MinSize .. MaxSize /\ f[Len(f)] = Terminate
  BY <1>1, <1>2, MaxSizeAssumption DEF HeaderSize, MinSize
<1>6. ASSUME Whole(p), NEW i \in 1 .. Len(f) - 1
      PROVE  f[i] # Terminate
  <2>1. p.version # Terminate /\ p.type # Terminate
    BY <1>2 DEF Versions, Types, TypeInit, TypeInvalid, Terminate
  <2>2. p.arg # Terminate
    <3>1. p.type \in 1 .. 5
      BY <1>2 DEF Types, TypeInit, TypeInvalid
    <3>2. ArgsOf[p.type] \subseteq 0 .. 6
      BY <3>1 DEF ArgsOf, ArgInitInit, ArgInitAccept, ArgPing, ArgSend, ArgTermClean
    <3> QED  BY <1>2, <3>2 DEF Terminate
  <2>3. p.flags # Terminate /\ \A j \in 1 .. n : p.payload[j] # Terminate
    BY <1>3, <1>6 DEF Whole
  <2>4. CASE i <= 4
    <3>1. i = 1 \/ i = 2 \/ i = 3 \/ i = 4
      BY <2>4
    <3> QED  BY <1>1, <2>1, <2>2, <2>3, <3>1
  <2>5. CASE i > 4
    <3>1. i - 4 \in 1 .. n /\ HeaderSize + (i - 4) = i
      BY <1>1, <2>5 DEF HeaderSize
    <3> QED  BY <1>1, <2>3, <3>1
  <2> QED  BY <2>4, <2>5
<1> QED  BY <1>1, <1>4, <1>5, <1>6 DEF f

LEMMA SentAreFrames ==
  ASSUME StreamTypeOK, SentInv, NEW i \in 1 .. Len(sent)
  PROVE  /\ sent[i] \in Packet /\ sent[i] \in Packets /\ Serializable(sent[i])
         /\ Frame(sent[i]) \in Seq(Byte)
         /\ Len(Frame(sent[i])) \in MinSize .. MaxSize
         /\ Len(Frame(sent[i])) \in Nat /\ Len(Frame(sent[i])) >= 1
         /\ Frame(sent[i])[Len(Frame(sent[i]))] = Terminate
<1>1. sent[i] \in Packet /\ Serializable(sent[i])
  BY PacketsAssumption DEF SentInv
<1>2. Len(Frame(sent[i])) \in MinSize .. MaxSize
  BY <1>1, SentFrame
<1>3. Len(Frame(sent[i])) \in Nat /\ Len(Frame(sent[i])) >= 1
  BY <1>2, MaxSizeAssumption DEF MinSize
<1> QED  BY <1>1, <1>2, <1>3, SentFrame DEF SentInv

\* The next byte is in the next frame, and so are those after it up to its end.
LEMMA NextOnWire ==
  ASSUME StreamTypeOK, SentInv, NEW m \in 0 .. Len(sent),
         NEW at \in [0 .. Len(sent) -> Int],
         Laid(at), Reading(at, m), wire # <<>>
  PROVE  /\ m \in 0 .. Len(sent) - 1 /\ m + 1 \in 1 .. Len(sent)
         /\ at[m] \in Int /\ at[m] <= 0
         /\ at[m + 1] \in Int /\ at[m + 1] >= 1
         /\ at[m + 1] = at[m] + Len(Frame(sent[m + 1]))
         /\ Len(wire) \in Nat /\ Len(wire) >= 1
         /\ \A j \in 1 .. Len(wire) :
              j <= at[m + 1] => wire[j] = Frame(sent[m + 1])[j - at[m]]
<1>1. Len(sent) \in Nat /\ m \in Int /\ m >= 0 /\ m <= Len(sent)
  BY LenProperties DEF StreamTypeOK, TypeOK, LinkTypeOK
<1>2. Len(wire) \in Nat /\ Len(wire) >= 1
  BY LenProperties, EmptySeq DEF StreamTypeOK, TypeOK, LinkTypeOK
<1>3. m # Len(sent)
  <2> SUFFICES ASSUME m = Len(sent) PROVE FALSE
    OBVIOUS
  <2>1. at[Len(sent)] <= 0 /\ Len(wire) <= at[Len(sent)] /\ at[Len(sent)] \in Int
    BY <1>1 DEF Reading, Laid
  <2> QED  BY <1>2, <2>1
<1>4. m \in 0 .. Len(sent) - 1 /\ m + 1 \in 1 .. Len(sent) /\ (m + 1) - 1 = m
  BY <1>1, <1>3
<1>5. /\ at[m] \in Int /\ at[m] <= 0
      /\ at[m + 1] \in Int /\ at[m + 1] >= 1
  BY <1>1, <1>3, <1>4 DEF Reading
<1> DEFINE f == Frame(sent[m + 1])
<1>6. at[m + 1] = at[m] + Len(f)
  BY <1>4 DEF Laid
<1>7. \A j \in 1 .. Len(f) : at[m] + j \in 1 .. Len(wire) => wire[at[m] + j] = f[j]
  BY <1>4 DEF Laid
<1>8. Len(f) \in Nat
  BY <1>4, SentAreFrames
<1> HIDE DEF f
<1>9. ASSUME NEW j \in 1 .. Len(wire), j <= at[m + 1]
      PROVE  wire[j] = f[j - at[m]]
  <2>1. j - at[m] \in 1 .. Len(f) /\ at[m] + (j - at[m]) = j
    BY <1>5, <1>6, <1>8, <1>9
  <2> QED  BY <1>7, <2>1
<1> QED  BY <1>2, <1>4, <1>5, <1>6, <1>9 DEF f

LEMMA LaidAfter ==
  ASSUME NEW at2, UNCHANGED <<sent, link>>,
         at2 \in [0 .. Len(sent) -> Int],
         \A i \in 1 .. Len(sent) : at2[i] = at2[i - 1] + Len(Frame(sent[i])),
         \A i \in 1 .. Len(sent) : \A j \in 1 .. Len(Frame(sent[i])) :
           at2[i - 1] + j \in 1 .. Len(wire')
             => wire'[at2[i - 1] + j] = Frame(sent[i])[j],
         \A i \in 0 .. Len(sent) : at2[i] <= at2[Len(sent)],
         Len(wire') <= at2[Len(sent)],
         link # "lost" => Len(wire') = at2[Len(sent)]
  PROVE  Laid(at2)'
<1> QED  BY DEF Laid

\* Bytes are read from the wire, up to the end of the next frame at most.
LEMMA TakingBytes ==
  ASSUME StreamTypeOK, SentInv, NEW m \in 0 .. Len(sent),
         NEW at \in [0 .. Len(sent) -> Int], Laid(at), Reading(at, m),
         NEW n \in 1 .. Len(wire), n <= at[m + 1],
         NEW at2, at2 = [i \in 0 .. Len(sent) |-> at[i] - n],
         NEW m2, m2 = IF n = at[m + 1] THEN m + 1 ELSE m,
         Len(wire') = Len(wire) - n,
         \A i \in 1 .. Len(wire) - n : wire'[i] = wire[i + n],
         UNCHANGED <<sent, link, reader>>
  PROVE  /\ m2 \in 0 .. Len(sent) /\ at2 \in [0 .. Len(sent) -> Int]
         /\ Laid(at2)' /\ Reading(at2, m2)'
<1>1. Len(sent) \in Nat /\ Len(wire) \in Nat
  BY LenProperties DEF StreamTypeOK, TypeOK, LinkTypeOK
<1>2. wire # <<>>
  BY <1>1, EmptySeq
<1>3. /\ m \in 0 .. Len(sent) - 1 /\ m + 1 \in 1 .. Len(sent)
      /\ at[m] \in Int /\ at[m] <= 0
      /\ at[m + 1] \in Int /\ at[m + 1] >= 1
  BY <1>2, NextOnWire
<1>4. at2 \in [0 .. Len(sent) -> Int] /\ \A i \in 0 .. Len(sent) : at2[i] = at[i] - n
  BY <1>1
<1>5. m2 \in 0 .. Len(sent)
  BY <1>1, <1>3
<1>6. Laid(at2)'
  <2>1. ASSUME NEW i \in 1 .. Len(sent)
        PROVE  at2[i] = at2[i - 1] + Len(Frame(sent[i]))
    <3>1. i - 1 \in 0 .. Len(sent) /\ i \in 0 .. Len(sent)
      BY <1>1
    <3>2. at[i] = at[i - 1] + Len(Frame(sent[i])) /\ at[i - 1] \in Int /\ at[i] \in Int
      BY <3>1 DEF Laid
    <3>3. Len(Frame(sent[i])) \in Nat
      BY SentAreFrames
    <3> QED  BY <1>1, <1>4, <3>1, <3>2, <3>3
  <2>2. ASSUME NEW i \in 1 .. Len(sent), NEW j \in 1 .. Len(Frame(sent[i])),
               at2[i - 1] + j \in 1 .. Len(wire) - n
        PROVE  wire'[at2[i - 1] + j] = Frame(sent[i])[j]
    <3>1. i - 1 \in 0 .. Len(sent) /\ at[i - 1] \in Int
      BY <1>1
    <3>2. at2[i - 1] = at[i - 1] - n
      BY <1>4, <3>1
    <3>3. at2[i - 1] + j + n = at[i - 1] + j /\ at[i - 1] + j \in 1 .. Len(wire)
      <4>1. at2[i - 1] + j \in 1 .. Len(wire) - n /\ n \in 1 .. Len(wire) /\ j \in Int
        BY <2>2
      <4>2. \A x, y, w \in Int : x - n + y \in 1 .. w - n
                => x - n + y + n = x + y /\ x + y \in 1 .. w
        <5>1. n \in Nat /\ n >= 1
          BY <1>1
        <5> QED  BY <5>1
      <4>3. Len(wire) \in Int
        BY <1>1
      <4> QED  BY <3>1, <3>2, <4>1, <4>2, <4>3
    <3>4. wire'[at2[i - 1] + j] = wire[at2[i - 1] + j + n]
      BY <2>2
    <3>5. wire[at[i - 1] + j] = Frame(sent[i])[j]
      BY <3>3 DEF Laid
    <3> QED  BY <3>3, <3>4, <3>5
  <2>3. /\ \A i \in 0 .. Len(sent) : at2[i] <= at2[Len(sent)]
        /\ Len(wire) - n <= at2[Len(sent)]
        /\ link # "lost" => Len(wire) - n = at2[Len(sent)]
    <3>1. at[Len(sent)] \in Int /\ at2[Len(sent)] = at[Len(sent)] - n
      BY <1>1, <1>4
    <3>2. /\ Len(wire) <= at[Len(sent)] /\ (link # "lost" => Len(wire) = at[Len(sent)])
          /\ \A i \in 0 .. Len(sent) : at[i] <= at[Len(sent)]
      BY DEF Laid
    <3>3. \A i \in 0 .. Len(sent) : at[i] \in Int /\ at2[i] = at[i] - n
      BY <1>4
    <3>4. n \in Nat
      BY <1>1
    <3>5. \A i \in 0 .. Len(sent) : at2[i] <= at2[Len(sent)]
      BY <3>1, <3>2, <3>3, <3>4
    <3> QED  BY <1>1, <3>1, <3>2, <3>4, <3>5
  <2> QED  BY <1>4, <2>1, <2>2, <2>3, LaidAfter
<1>7. Reading(at2, m2)'
  <2>1. CASE n = at[m + 1]
    <3>1. m2 = m + 1 /\ at2[m2] = 0
      BY <1>3, <1>4, <2>1
    <3>2. ASSUME m + 1 < Len(sent)
          PROVE  at2[m2 + 1] >= 1
      <4>1. (m + 1) + 1 \in 1 .. Len(sent) /\ ((m + 1) + 1) - 1 = m + 1
        BY <1>1, <1>3, <3>2
      <4>2. at[(m + 1) + 1] = at[m + 1] + Len(Frame(sent[(m + 1) + 1]))
        BY <4>1 DEF Laid
      <4>3. Len(Frame(sent[(m + 1) + 1])) \in Nat /\ Len(Frame(sent[(m + 1) + 1])) >= 1
        BY <4>1, SentAreFrames
      <4>4. at2[(m + 1) + 1] = at[(m + 1) + 1] - n
        BY <1>1, <1>4, <4>1
      <4> QED  BY <1>3, <2>1, <3>1, <4>2, <4>3, <4>4
    <3> QED  BY <1>1, <1>3, <3>1, <3>2 DEF Reading
  <2>2. CASE n # at[m + 1]
    <3>1. m2 = m /\ at2[m] = at[m] - n /\ at2[m + 1] = at[m + 1] - n
      BY <1>1, <1>3, <1>4, <2>2
    <3> QED  BY <1>1, <1>3, <2>2, <3>1 DEF Reading
  <2> QED  BY <2>1, <2>2
<1> QED  BY <1>4, <1>5, <1>6, <1>7

-----------------------------------------------------------------------------
(* The sender *)

LEMMA PrefixOfAppend ==
  ASSUME NEW T, NEW s \in Seq(T), NEW e \in T, NEW m \in 0 .. Len(s)
  PROVE  SubSeq(Append(s, e), 1, m) = SubSeq(s, 1, m)
<1> DEFINE u == Append(s, e)
<1>1. Len(s) \in Nat /\ \A i \in 1 .. Len(s) : s[i] \in T
  BY LenProperties, ElementOfSeq
<1>2. u \in Seq(T) /\ \A i \in 1 .. Len(s) : u[i] = s[i]
  BY AppendProperties
<1> HIDE DEF u
<1>3. m \in Nat /\ \A i \in 1 .. m : i \in 1 .. Len(s)
  BY <1>1
<1>4. /\ SubSeq(s, 1, m) \in Seq(T) /\ Len(SubSeq(s, 1, m)) = m
      /\ \A i \in 1 .. m : SubSeq(s, 1, m)[i] = s[i]
  <2>1. \A i \in 1 .. m : s[i] \in T
    BY <1>1, <1>3
  <2> QED  BY <1>3, <2>1, SubSeqProperties
<1>5. /\ SubSeq(u, 1, m) \in Seq(T) /\ Len(SubSeq(u, 1, m)) = m
      /\ \A i \in 1 .. m : SubSeq(u, 1, m)[i] = u[i]
  <2>1. \A i \in 1 .. m : u[i] \in T
    BY <1>1, <1>2, <1>3
  <2> QED  BY <1>3, <2>1, SubSeqProperties
<1>6. \A i \in 1 .. m : SubSeq(u, 1, m)[i] = SubSeq(s, 1, m)[i]
  BY <1>2, <1>3, <1>4, <1>5
<1>7. SubSeq(u, 1, m) = SubSeq(s, 1, m)
  BY <1>4, <1>5, <1>6, SeqEqual
<1> QED  BY <1>7 DEF u

LEMMA LaidAfterSending ==
  ASSUME NEW at2,
         at2 \in [0 .. Len(sent') -> Int],
         \A i \in 1 .. Len(sent') : at2[i] = at2[i - 1] + Len(Frame(sent'[i])),
         \A i \in 1 .. Len(sent') : \A j \in 1 .. Len(Frame(sent'[i])) :
           at2[i - 1] + j \in 1 .. Len(wire')
             => wire'[at2[i - 1] + j] = Frame(sent'[i])[j],
         \A i \in 0 .. Len(sent') : at2[i] <= at2[Len(sent')],
         Len(wire') = at2[Len(sent')], Len(wire') <= at2[Len(sent')]
  PROVE  Laid(at2)'
<1> QED  BY Zenon DEF Laid

LEMMA SendingKeepsPosition ==
  ASSUME StreamInv, NEW p \in Packets, SendPacket(p),
         reader = "c" => p \in CPackets /\ wire = <<>>,
         UNCHANGED <<buffer, received, reader, ended>>
  PROVE  /\ ~ended /\ Position'
         /\ SentInv' /\ sent' \in Seq(Packet) /\ wire' \in Seq(Byte)
<1> DEFINE L == Len(sent)
           f == Frame(p)
<1>1. /\ sent \in Seq(Packet) /\ wire \in Seq(Byte) /\ received \in Seq(Packet)
      /\ L \in Nat /\ Len(wire) \in Nat
  BY LenProperties DEF StreamInv, StreamTypeOK, TypeOK, LinkTypeOK
<1>2. p \in Packet /\ Serializable(p) /\ link = "open" /\ link' = "open"
  BY PacketsAssumption DEF SendPacket
<1>3. ~ended /\ ~ended'
  BY <1>2 DEF StreamInv
<1>4. PICK m \in 0 .. Len(sent) : \E at \in [0 .. Len(sent) -> Int] :
         Laid(at) /\ Reading(at, m) /\ Taken(at, m) /\ Passed(m)
  BY <1>3, Zenon DEF StreamInv, Position
<1>5. PICK at \in [0 .. Len(sent) -> Int] :
         Laid(at) /\ Reading(at, m) /\ Taken(at, m) /\ Passed(m)
  BY <1>4
<1>6. f \in Seq(Byte) /\ Len(f) \in Nat /\ Len(f) >= 1
  <2>1. f \in Seq(Byte) /\ Len(f) \in MinSize .. MaxSize
    BY <1>2, SentFrame
  <2> QED  BY <2>1, MaxSizeAssumption DEF MinSize
<1>7. /\ sent' = Append(sent, p) /\ sent' \in Seq(Packet) /\ Len(sent') = L + 1
      /\ \A i \in 1 .. L : sent'[i] = sent[i]
      /\ sent'[L + 1] = p
  <2>1. sent' = Append(sent, p)
    BY DEF SendPacket
  <2> QED  BY <1>1, <1>2, <2>1, AppendProperties
<1>8. /\ wire' \in Seq(Byte) /\ Len(wire') = Len(wire) + Len(f)
      /\ \A i \in 1 .. Len(wire) : wire'[i] = wire[i]
      /\ \A i \in 1 .. Len(f) : wire'[Len(wire) + i] = f[i]
  <2>1. wire' = wire \o f
    BY DEF SendPacket
  <2> HIDE DEF f
  <2>2. /\ wire' \in Seq(Byte) /\ Len(wire') = Len(wire) + Len(f)
        /\ \A i \in 1 .. Len(wire) + Len(f) :
             wire'[i] = IF i <= Len(wire) THEN wire[i] ELSE f[i - Len(wire)]
    BY <1>1, <1>6, <2>1, ConcatProperties
  <2>3. \A i \in 1 .. Len(wire) : i \in 1 .. Len(wire) + Len(f) /\ i <= Len(wire)
    BY <1>1, <1>6
  <2>4. \A i \in 1 .. Len(f) : /\ Len(wire) + i \in 1 .. Len(wire) + Len(f)
                               /\ ~(Len(wire) + i <= Len(wire))
                               /\ (Len(wire) + i) - Len(wire) = i
    BY <1>1, <1>6
  <2> QED  BY <2>2, <2>3, <2>4
<1>9. SentInv'
  <2> SUFFICES ASSUME NEW i \in 1 .. L + 1
               PROVE  /\ sent'[i] \in Packets /\ Serializable(sent'[i])
                      /\ reader = "c" => sent'[i] \in CPackets
    BY <1>7 DEF SentInv
  <2>1. CASE i \in 1 .. L
    BY <1>7, <2>1 DEF StreamInv, SentInv
  <2>2. CASE i = L + 1
    BY <1>2, <1>7, <2>2
  <2>3. i \in 1 .. L \/ i = L + 1
    BY <1>1
  <2> QED  BY <2>1, <2>2, <2>3, Zenon
<1>10. \A i \in 1 .. L : /\ Len(Frame(sent[i])) \in Nat
                         /\ at[i] = at[i - 1] + Len(Frame(sent[i]))
  BY <1>5, SentAreFrames DEF StreamInv, Laid
<1>11. /\ \A i \in 0 .. L : at[i] \in Int /\ at[i] <= at[L]
       /\ at[L] = Len(wire)
  BY <1>1, <1>2, <1>5 DEF Laid
<1>12. PICK at2 \in [0 .. L + 1 -> Int] :
          /\ \A i \in 0 .. L : at2[i] = at[i]
          /\ at2[L + 1] = Len(wire) + Len(f)
  <2> DEFINE g == [i \in 0 .. L + 1 |-> IF i <= L THEN at[i] ELSE Len(wire) + Len(f)]
  <2>1. /\ g \in [0 .. L + 1 -> Int]
        /\ \A i \in 0 .. L : g[i] = at[i]
        /\ g[L + 1] = Len(wire) + Len(f)
    BY <1>1, <1>6, <1>11
  <2> QED  BY <2>1
<1> HIDE DEF f, L
<1>13. \A i \in 1 .. L + 1 : \/ i \in 1 .. L /\ i - 1 \in 0 .. L /\ i \in 0 .. L
                             \/ i = L + 1 /\ i - 1 = L /\ L \in 0 .. L
  BY <1>1
<1>14. \A i \in 1 .. L + 1 : at2[i] = at2[i - 1] + Len(Frame(sent'[i]))
  <2> TAKE i \in 1 .. L + 1
  <2>1. CASE i \in 1 .. L /\ i - 1 \in 0 .. L /\ i \in 0 .. L
    BY <1>7, <1>10, <1>12, <2>1
  <2>2. CASE i = L + 1 /\ i - 1 = L /\ L \in 0 .. L
    BY <1>7, <1>11, <1>12, <2>2 DEF f
  <2> QED  BY <1>13, <2>1, <2>2
<1>15. ASSUME NEW i \in 1 .. L + 1, NEW j \in 1 .. Len(Frame(sent'[i])),
              at2[i - 1] + j \in 1 .. Len(wire')
       PROVE  wire'[at2[i - 1] + j] = Frame(sent'[i])[j]
  <2>1. CASE i \in 1 .. L /\ i - 1 \in 0 .. L /\ i \in 0 .. L
    <3>1. sent'[i] = sent[i] /\ at2[i - 1] = at[i - 1] /\ at[i - 1] \in Int
      BY <1>7, <1>11, <1>12, <2>1
    <3>2. j \in 1 .. Len(Frame(sent[i])) /\ Len(Frame(sent[i])) \in Nat
      BY <1>10, <2>1, <3>1
    <3>3. at[i - 1] + j <= at[i] /\ at[i] <= Len(wire)
      BY <1>10, <1>11, <2>1, <3>1, <3>2
    <3>4. at[i - 1] + j \in 1 .. Len(wire)
      <4>1. at[i] \in Int /\ at[i - 1] + j \in Int /\ at[i - 1] + j >= 1
        BY <1>11, <1>15, <2>1, <3>1, <3>2
      <4> QED  BY <1>1, <3>3, <4>1
    <3>5. wire[at[i - 1] + j] = Frame(sent[i])[j]
      BY <1>5, <2>1, <3>2, <3>4 DEF Laid, L
    <3> QED  BY <1>8, <3>1, <3>4, <3>5
  <2>2. CASE i = L + 1 /\ i - 1 = L /\ L \in 0 .. L
    <3>1. Frame(sent'[i]) = f /\ at2[i - 1] = Len(wire)
      BY <1>7, <1>11, <1>12, <2>2 DEF f
    <3> QED  BY <1>8, <3>1
  <2> QED  BY <1>13, <2>1, <2>2
<1>16. \A i \in 0 .. L + 1 : at2[i] <= at2[L + 1]
  <2> TAKE i \in 0 .. L + 1
  <2>1. i \in 0 .. L \/ i = L + 1
    BY <1>1
  <2> QED  BY <1>1, <1>6, <1>11, <1>12, <2>1
<1>17. Laid(at2)'
  <2>1. /\ at2 \in [0 .. Len(sent') -> Int]
        /\ \A i \in 1 .. Len(sent') : at2[i] = at2[i - 1] + Len(Frame(sent'[i]))
        /\ \A i \in 1 .. Len(sent') : \A j \in 1 .. Len(Frame(sent'[i])) :
             at2[i - 1] + j \in 1 .. Len(wire')
               => wire'[at2[i - 1] + j] = Frame(sent'[i])[j]
        /\ \A i \in 0 .. Len(sent') : at2[i] <= at2[Len(sent')]
        /\ Len(wire') = at2[Len(sent')]
    BY <1>7, <1>8, <1>12, <1>14, <1>15, <1>16
  <2>2. Len(sent') \in 0 .. Len(sent')
    BY <1>7, LenProperties
  <2>3. Len(wire') <= at2[Len(sent')]
    BY <2>1, <2>2
  <2> QED  BY <2>1, <2>3, LaidAfterSending
<1>18. m \in 0 .. L /\ at[m] \in Int /\ at[m] <= 0 /\ (m < L => at[m + 1] >= 1)
       /\ (reader = "c" => m >= L - 1)
  BY <1>5, <1>11 DEF Reading, L
<1>19. m = L => at[m] = 0
  BY <1>1, <1>11, <1>18
<1>20. Reading(at2, m)'
  <2>1. at2[m] <= 0
    BY <1>12, <1>18
  <2>2. m < L + 1 => at2[m + 1] >= 1
    <3>1. CASE m = L
      BY <1>1, <1>6, <1>12, <3>1
    <3>2. CASE m # L
      <4>1. m < L /\ m + 1 \in 0 .. L
        BY <1>1, <1>18, <3>2
      <4> QED  BY <1>12, <1>18, <4>1
    <3> QED  BY <3>1, <3>2
  <2>3. reader = "c" => m >= (L + 1) - 1
    <3> SUFFICES ASSUME reader = "c" PROVE m = L
      BY <1>1
    <3>1. Len(wire) = 0
      BY EmptySeq
    <3>2. m < L => m + 1 = L
      BY <1>1, <1>18
    <3> QED  BY <1>1, <1>11, <1>18, <3>1, <3>2
  <2> QED  BY <1>7, <2>1, <2>2, <2>3 DEF Reading
<1>21. Taken(at2, m)'
  <2>0. m # L + 1
    BY <1>1, <1>18
  <2> SUFFICES \E a \in 1 .. 1 - at2[m] :
                 /\ a = 1 \/ Frame(sent'[m + 1])[a - 1] = Terminate
                 /\ Len(buffer) = 1 - at2[m] - a
                 /\ \A j \in 1 .. Len(buffer) :
                      /\ buffer[j] = Frame(sent'[m + 1])[a - 1 + j]
                      /\ buffer[j] # Terminate
    BY <1>7, <2>0 DEF Taken
  <2>1. CASE m = L
    <3>1. buffer = <<>>
      BY <1>5, <2>1 DEF Taken, L
    <3>2. Len(buffer) = 0
      BY <3>1, EmptySeq
    <3>3. at2[m] = 0
      BY <1>12, <1>18, <1>19, <2>1
    <3>4. 1 \in 1 .. 1 - at2[m] /\ Len(buffer) = 1 - at2[m] - 1
          /\ \A j \in 1 .. Len(buffer) : FALSE
      BY <3>2, <3>3
    <3> QED  BY <3>4
  <2>2. CASE m # L
    <3>1. m + 1 \in 1 .. L /\ sent'[m + 1] = sent[m + 1] /\ at2[m] = at[m]
      BY <1>1, <1>7, <1>12, <1>18, <2>2
    <3> QED  BY <1>5, <2>2, <3>1 DEF Taken, L
  <2> QED  BY <2>1, <2>2
<1>22. Passed(m)'
  <2>1. SubSeq(sent', 1, m) = SubSeq(sent, 1, m)
    BY <1>1, <1>2, <1>7, PrefixOfAppend DEF L
  <2>2. Readable' = Readable
    BY DEF Readable
  <2> QED  BY <1>5, <2>1, <2>2 DEF Passed
<1>23. m \in 0 .. Len(sent') /\ at2 \in [0 .. Len(sent') -> Int]
  BY <1>1, <1>7, <1>12, <1>18
<1>24. Position'
  BY <1>17, <1>20, <1>21, <1>22, <1>23 DEF Position
<1> QED  BY <1>3, <1>7, <1>8, <1>9, <1>24

LEMMA LaidAfterLoss ==
  ASSUME NEW at, Laid(at), sent' = sent,
         Len(wire) \in Nat, Len(sent) \in Nat,
         Len(wire') \in 0 .. Len(wire),
         \A i \in 1 .. Len(wire') : wire'[i] = wire[i],
         link' = "lost" \/ (link # "lost" /\ Len(wire') = Len(wire))
  PROVE  Laid(at)'
<1>1. at[Len(sent)] \in Int /\ Len(wire') <= at[Len(sent)]
      /\ (link' # "lost" => Len(wire') = at[Len(sent)])
  BY DEF Laid
<1>2. ASSUME NEW i \in 1 .. Len(sent), NEW j \in 1 .. Len(Frame(sent[i])),
             at[i - 1] + j \in 1 .. Len(wire')
      PROVE  wire'[at[i - 1] + j] = Frame(sent[i])[j]
  <2>1. at[i - 1] + j \in 1 .. Len(wire)
    BY <1>2
  <2>2. wire[at[i - 1] + j] = Frame(sent[i])[j]
    BY <2>1 DEF Laid
  <2> QED  BY <1>2, <2>2
<1>3. /\ at \in [0 .. Len(sent) -> Int]
      /\ \A i \in 1 .. Len(sent) : at[i] = at[i - 1] + Len(Frame(sent[i]))
      /\ \A i \in 0 .. Len(sent) : at[i] <= at[Len(sent)]
  BY DEF Laid
<1> QED  BY <1>1, <1>2, <1>3 DEF Laid

\* The end of the sender changes nothing of what was read.
LEMMA EndingKeepsPosition ==
  ASSUME StreamInv, ~ended, Close \/ Lose,
         UNCHANGED <<buffer, received, reader, ended>>
  PROVE  Position' /\ wire' \in Seq(Byte)
<1>1. /\ wire \in Seq(Byte) /\ Len(wire) \in Nat /\ Len(sent) \in Nat
      /\ sent' = sent
  BY LenProperties
  DEF StreamInv, StreamTypeOK, TypeOK, LinkTypeOK, Close, Lose
<1>2. /\ wire' \in Seq(Byte) /\ Len(wire') \in 0 .. Len(wire)
      /\ \A i \in 1 .. Len(wire') : wire'[i] = wire[i]
      /\ link' = "lost" \/ (link # "lost" /\ Len(wire') = Len(wire))
  <2>1. CASE Close
    BY <1>1, <2>1 DEF Close
  <2>2. CASE Lose
    <3>1. PICK n \in 0 .. Len(wire) : wire' = SubSeq(wire, 1, n)
      BY <2>2 DEF Lose
    <3>2. n \in Nat /\ \A i \in 1 .. n : wire[i] \in Byte
      BY <1>1, ElementOfSeq
    <3>3. wire' \in Seq(Byte) /\ Len(wire') = n /\ \A i \in 1 .. n : wire'[i] = wire[i]
      BY <3>1, <3>2, SubSeqProperties
    <3> QED  BY <2>2, <3>3 DEF Lose
  <2> QED  BY <2>1, <2>2
<1>3. PICK m \in 0 .. Len(sent) : \E at \in [0 .. Len(sent) -> Int] :
         Laid(at) /\ Reading(at, m) /\ Taken(at, m) /\ Passed(m)
  BY Zenon DEF StreamInv, Position
<1>4. PICK at \in [0 .. Len(sent) -> Int] :
         Laid(at) /\ Reading(at, m) /\ Taken(at, m) /\ Passed(m)
  BY <1>3
<1>5. Laid(at)'
  BY <1>1, <1>2, <1>4, LaidAfterLoss
<1>6. Reading(at, m)'
  BY <1>1, <1>4 DEF Reading
<1>7. Taken(at, m)'
  BY <1>1, <1>4 DEF Taken
<1>8. Passed(m)'
  BY <1>1, <1>4 DEF Passed, Readable
<1> QED  BY <1>1, <1>2, <1>5, <1>6, <1>7, <1>8 DEF Position

-----------------------------------------------------------------------------
(* What a read means for the abstract connection *)

\* What is received and had not to be is not looked at.
LEMMA StrangersAreNotKept ==
  ASSUME StreamTypeOK, UNCHANGED reader,
         \/ received' = received
         \/ \E q \in Packet : q \notin Readable /\ received' = Append(received, q)
  PROVE  Kept(received, Readable)' = Kept(received, Readable)
<1>1. Readable' = Readable
  BY DEF Readable
<1>2. received \in Seq(Packet)
  BY DEF StreamTypeOK, TypeOK
<1>3. CASE received' = received
  BY <1>1, <1>3
<1>4. CASE \E q \in Packet : q \notin Readable /\ received' = Append(received, q)
  <2>1. PICK q \in Packet : q \notin Readable /\ received' = Append(received, q)
    BY <1>4
  <2>2. Kept(received', Readable) = Kept(received, Readable)
    BY <1>2, <2>1, KeptOfAppend
  <2> QED  BY <1>1, <2>2
<1> QED  BY <1>3, <1>4

LEMMA SkippedPacket ==
  ASSUME StreamTypeOK, NEW m \in 0 .. Len(sent) - 1, Passed(m),
         UNCHANGED <<sent, reader>>,
         sent[m + 1] \notin Readable,
         Kept(received, Readable)' = Kept(received, Readable)
  PROVE  Passed(m + 1)'
<1>1. Readable' = Readable
  BY DEF Readable
<1>2. sent \in Seq(Packet) /\ Len(sent) \in Nat /\ m + 1 \in 1 .. Len(sent)
  BY LenProperties DEF StreamTypeOK, TypeOK, LinkTypeOK
<1>3. sent[m + 1] \in Packet
  BY <1>2, ElementOfSeq
<1>4. SubSeq(sent, 1, m) \in Seq(Packet)
      /\ SubSeq(sent, 1, m + 1) = Append(SubSeq(sent, 1, m), sent[m + 1])
  BY <1>2, NextPrefix
<1>5. Kept(SubSeq(sent, 1, m + 1), Readable) = Kept(SubSeq(sent, 1, m), Readable)
  <2> DEFINE t == SubSeq(sent, 1, m)
             e == sent[m + 1]
             S == Readable
  <2>1. t \in Seq(Packet) /\ e \in Packet /\ e \notin S
    BY <1>3, <1>4
  <2>2. SubSeq(sent, 1, m + 1) = Append(t, e)
    BY <1>4
  <2> HIDE DEF t, e, S
  <2>3. Kept(Append(t, e), S) = Kept(t, S)
    BY <2>1, KeptOfAppend
  <2> QED  BY <2>2, <2>3 DEF t, S
<1> QED  BY <1>1, <1>5 DEF Passed

LEMMA ReceivedPacket ==
  ASSUME StreamTypeOK, NEW m \in 0 .. Len(sent) - 1, Passed(m),
         UNCHANGED <<sent, link, reader>>,
         sent[m + 1] \in Readable,
         received' = Append(received, sent[m + 1])
  PROVE  Passed(m + 1)' /\ Fifo!Receive
<1> DEFINE p == sent[m + 1]
           ks == Kept(sent, Readable)
           kr == Kept(received, Readable)
<1>1. Readable' = Readable
  BY DEF Readable
<1>2. /\ sent \in Seq(Packet) /\ received \in Seq(Packet)
      /\ Len(sent) \in Nat /\ m + 1 \in 1 .. Len(sent)
  BY LenProperties DEF StreamTypeOK, TypeOK, LinkTypeOK
<1>3. p \in Packet
  BY <1>2, ElementOfSeq
<1>4. SubSeq(sent, 1, m) \in Seq(Packet)
      /\ SubSeq(sent, 1, m + 1) = Append(SubSeq(sent, 1, m), p)
  BY <1>2, NextPrefix
<1>5. Kept(SubSeq(sent, 1, m + 1), Readable) = Append(Kept(SubSeq(sent, 1, m), Readable), p)
  BY <1>3, <1>4, KeptOfAppend
<1>6. Kept(received', Readable) = Append(kr, p)
  BY <1>2, <1>3, KeptOfAppend
<1>7. kr = Kept(SubSeq(sent, 1, m), Readable)
  BY DEF Passed
<1>8. Passed(m + 1)'
  BY <1>1, <1>5, <1>6, <1>7 DEF Passed
<1>9. Len(kr) < Len(ks) /\ ks[Len(kr) + 1] = p
  BY <1>2, <1>7, NextKept
<1>10. kr' = Append(kr, ks[Len(kr) + 1]) /\ ks' = ks /\ link' = link
  BY <1>1, <1>6, <1>9
<1> QED  BY <1>8, <1>9, <1>10 DEF Fifo!Receive

-----------------------------------------------------------------------------
(* The Go reader *)

\* The packet that lies behind a terminator read as part of the packet p: p
\* itself, if p is clean and this is its end, or nothing that has to arrive.
LEMMA PieceOfFrame ==
  ASSUME NEW p \in Packets, Serializable(p),
         NEW a \in 1 .. Len(Frame(p)), NEW z \in a .. Len(Frame(p)),
         a = 1 \/ Frame(p)[a - 1] = Terminate,
         Frame(p)[z] = Terminate,
         NEW read \in Seq(Byte), Len(read) = z - a + 1,
         \A j \in 1 .. Len(read) : read[j] = Frame(p)[a - 1 + j]
  PROVE  /\ z < Len(Frame(p)) => ~Whole(p)
         /\ Whole(p) => read = Frame(p) /\ Unframe(read) = p
                        /\ (Deserializable(read) <=> Clean(p))
         /\ ~Whole(p) => p \notin Cleans
                         /\ (Deserializable(read) => Unframe(read) \notin Cleans)
<1> DEFINE f == Frame(p)
<1>1. p \in Packet
  BY PacketsAssumption
<1>2. /\ f \in Seq(Byte) /\ Len(f) \in MinSize .. MaxSize
      /\ Whole(p) => \A i \in 1 .. Len(f) - 1 : f[i] # Terminate
      /\ Clean(p) <=> Whole(p) /\ Deserializable(f)
  BY <1>1, SentFrame
<1>3. Len(f) \in Nat /\ a \in Nat /\ a >= 1 /\ z \in Nat /\ a <= z /\ z <= Len(f)
  BY <1>2, LenProperties
<1>4. a = 1 \/ f[a - 1] = Terminate
  OBVIOUS
<1>5. f[z] = Terminate
  OBVIOUS
<1>6. \A j \in 1 .. Len(read) : read[j] = f[a - 1 + j]
  OBVIOUS
<1>7. Unframe(f) = p
  BY <1>1, FrameIsUndone
<1> HIDE DEF f
<1>8. ASSUME Whole(p) PROVE z = Len(f) /\ a = 1
  <2>1. z \notin 1 .. Len(f) - 1
    BY <1>2, <1>5, <1>8
  <2>2. a - 1 \in 1 .. Len(f) - 1 => f[a - 1] # Terminate
    BY <1>2, <1>8
  <2> QED  BY <1>3, <1>4, <2>1, <2>2
<1>9. ASSUME Whole(p) PROVE read = f
  <2>1. Len(read) = Len(f)
    BY <1>3, <1>8, <1>9
  <2>2. \A j \in 1 .. Len(read) : read[j] = f[j]
    <3> TAKE j \in 1 .. Len(read)
    <3>1. a - 1 + j = j
      BY <1>8, <1>9
    <3> QED  BY <1>6, <3>1
  <2> QED  BY <1>2, <2>1, <2>2, SeqEqual
<1>10. ASSUME ~Whole(p), Deserializable(read)
       PROVE  Unframe(read) \notin Cleans
  <2> SUFFICES ASSUME Unframe(read) \in Packets, Clean(Unframe(read))
               PROVE  FALSE
    BY DEF Cleans
  <2>1. Frame(Unframe(read)) = read
    BY <1>10, WhatIsReadCanBeWritten
  <2>2. a \in 1 .. Len(f) /\ z \in 1 .. Len(f)
    BY <1>3
  <2>3. Frame(Unframe(read)) # SubSeq(f, a, z)
    BY <1>4, <1>5, <1>10, <2>2, PiecesAssumption DEF f
  <2>4. /\ SubSeq(f, a, z) \in Seq(Byte) /\ Len(SubSeq(f, a, z)) = z - a + 1
        /\ \A j \in 1 .. z - a + 1 : SubSeq(f, a, z)[j] = f[a + j - 1]
    <3>1. \A i \in a .. z : f[i] \in Byte
      BY <1>2, <1>3, ElementOfSeq
    <3> QED  BY <1>3, <3>1, SubSeqProperties
  <2>5. \A j \in 1 .. Len(read) : read[j] = SubSeq(f, a, z)[j]
    <3> TAKE j \in 1 .. Len(read)
    <3>1. j \in 1 .. z - a + 1 /\ a + j - 1 = a - 1 + j
      BY <1>3
    <3> QED  BY <1>6, <2>4, <3>1
  <2>6. read = SubSeq(f, a, z)
    BY <2>4, <2>5, SeqEqual
  <2> QED  BY <2>1, <2>3, <2>6
<1>11. z < Len(f) => ~Whole(p)
  BY <1>3, <1>8
<1>12. ~Whole(p) => p \notin Cleans
  BY DEF Cleans, Clean
<1>13. Whole(p) => Unframe(read) = p /\ (Deserializable(read) <=> Clean(p))
  BY <1>2, <1>7, <1>9
<1> QED  BY <1>9, <1>10, <1>11, <1>12, <1>13 DEF f

Stutter == UNCHANGED <<Kept(sent, Readable), Kept(received, Readable), link>>

LEMMA SentStay ==
  ASSUME StreamInv, UNCHANGED <<sent, reader>>
  PROVE  /\ SentInv' /\ Readable' = Readable
         /\ Kept(sent, Readable)' = Kept(sent, Readable)
<1>1. Readable' = Readable
  BY DEF Readable
<1>2. SentInv'
  BY DEF StreamInv, SentInv
<1> QED  BY <1>1, <1>2

\* A byte moves on in the frame; the last one ends the packet.
LEMMA ReadByteKeepsInv ==
  ASSUME StreamInv, reader = "go", ReadByte, UNCHANGED <<reader, code>>
  PROVE  StreamInv' /\ (Fifo!Receive \/ Stutter)
<1> DEFINE read == Append(buffer, Head(wire))
<1>1. /\ sent \in Seq(Packet) /\ Len(sent) \in Nat
      /\ wire \in Seq(Byte) /\ wire # <<>> /\ Len(wire) \in Nat /\ Len(wire) >= 1
      /\ buffer \in Seq(Byte) /\ Len(buffer) \in Nat
      /\ received \in Seq(Packet)
      /\ ~ended /\ ended' = ended /\ sent' = sent /\ link' = link
  BY LenProperties, EmptySeq
  DEF StreamInv, StreamTypeOK, TypeOK, LinkTypeOK, ReadByte
<1>2. /\ Head(wire) = wire[1] /\ Head(wire) \in Byte
      /\ wire' \in Seq(Byte) /\ Len(wire') = Len(wire) - 1
      /\ \A i \in 1 .. Len(wire) - 1 : wire'[i] = wire[i + 1]
  BY <1>1, HeadTailProperties DEF ReadByte, Unread
<1>3. PICK m \in 0 .. Len(sent) : \E at \in [0 .. Len(sent) -> Int] :
         Laid(at) /\ Reading(at, m) /\ Taken(at, m) /\ Passed(m)
  BY <1>1, Zenon DEF StreamInv, Position
<1>4. PICK at \in [0 .. Len(sent) -> Int] :
         Laid(at) /\ Reading(at, m) /\ Taken(at, m) /\ Passed(m)
  BY <1>3
<1> DEFINE p == sent[m + 1]
           f == Frame(p)
           z == 1 - at[m]
<1>5. /\ m \in 0 .. Len(sent) - 1 /\ m + 1 \in 1 .. Len(sent)
      /\ at[m] \in Int /\ at[m] <= 0
      /\ at[m + 1] \in Int /\ at[m + 1] >= 1
      /\ at[m + 1] = at[m] + Len(f)
      /\ wire[1] = f[z]
  <2>1. 1 \in 1 .. Len(wire)
    BY <1>1
  <2> QED  BY <1>1, <1>4, <2>1, NextOnWire DEF StreamInv
<1>6. /\ p \in Packet /\ p \in Packets /\ Serializable(p)
      /\ f \in Seq(Byte) /\ Len(f) \in Nat /\ Len(f) <= MaxSize /\ f[Len(f)] = Terminate
  <2>1. Len(f) \in MinSize .. MaxSize
    BY <1>5, SentAreFrames DEF StreamInv
  <2> QED  BY <1>5, <2>1, SentAreFrames DEF StreamInv
<1> HIDE DEF f
<1>7. z \in 1 .. Len(f) /\ z \in Nat /\ (z = Len(f) <=> at[m + 1] = 1)
  BY <1>5, <1>6
<1>8. PICK a \in 1 .. z :
         /\ a = 1 \/ f[a - 1] = Terminate
         /\ Len(buffer) = z - a
         /\ \A j \in 1 .. Len(buffer) : buffer[j] = f[a - 1 + j] /\ buffer[j] # Terminate
  <2>1. m # Len(sent)
    BY <1>1, <1>5
  <2> QED  BY <1>4, <2>1 DEF Taken, f
<1>9. /\ read \in Seq(Byte) /\ Len(read) = z - a + 1
      /\ read[Len(read)] = wire[1]
      /\ \A j \in 1 .. Len(buffer) : read[j] = buffer[j]
      /\ \A j \in 1 .. Len(read) : read[j] = f[a - 1 + j]
  <2>1. /\ read \in Seq(Byte) /\ Len(read) = Len(buffer) + 1
        /\ \A j \in 1 .. Len(buffer) : read[j] = buffer[j]
        /\ read[Len(buffer) + 1] = wire[1]
    BY <1>1, <1>2, AppendProperties
  <2> HIDE DEF read, z
  <2>2. Len(read) = z - a + 1
    BY <1>7, <1>8, <2>1
  <2>3. ASSUME NEW j \in 1 .. Len(read) PROVE read[j] = f[a - 1 + j]
    <3>1. j \in 1 .. Len(buffer) \/ (j = Len(buffer) + 1 /\ a - 1 + j = z)
      BY <1>1, <1>7, <1>8, <2>1
    <3> QED  BY <1>5, <1>8, <2>1, <3>1
  <2> QED  BY <2>1, <2>2, <2>3
<1>10. wire[1] # Terminate => z < Len(f)
  BY <1>5, <1>6, <1>7
<1>11. ~Full(read)
  <2> SUFFICES ASSUME wire[1] # Terminate PROVE ~(Len(read) >= MaxSize)
    BY <1>9 DEF Full
  <2>1. a \in Nat /\ a >= 1
    BY <1>7, <1>8
  <2> HIDE DEF read, z
  <2> QED  BY <1>6, <1>7, <1>9, <1>10, <2>1, MaxSizeAssumption
<1>12. /\ buffer' = IF wire[1] = Terminate THEN <<>> ELSE read
       /\ oversize' = oversize
       /\ received' = IF wire[1] = Terminate /\ Deserializable(read)
                      THEN Append(received, Unframe(read)) ELSE received
  <2>1. wire[1] = Terminate <=> Head(wire) = Terminate
    BY <1>2
  <2>2. buffer' = IF Head(wire) = Terminate \/ Full(read) THEN <<>> ELSE read
    BY Zenon DEF ReadByte
  <2>3. oversize' = (oversize \/ Full(read))
    BY Zenon DEF ReadByte
  <2>4. received' = IF Head(wire) = Terminate /\ Deserializable(read)
                    THEN Append(received, Unframe(read)) ELSE received
    BY Zenon DEF ReadByte
  <2>5. oversize = FALSE
    BY DEF StreamInv, StreamTypeOK, TypeOK, NeverOversize
  <2> HIDE DEF read
  <2> QED  BY <1>11, <2>1, <2>2, <2>3, <2>4, <2>5, Zenon
<1> HIDE DEF read
<1>13. Deserializable(read) => Unframe(read) \in Packet
  BY <1>9, UnframeFields DEF Deserializable
<1>14. /\ StreamTypeOK' /\ NeverOversize' /\ OnlyFullPacketsAreTooLarge'
       /\ buffer' \in Seq(Byte)
  <2>1. buffer' \in Seq(Byte)
    BY <1>9, <1>12, EmptySeq
  <2>2. received' \in Seq(Packet)
    BY <1>1, <1>12, <1>13, AppendProperties
  <2>3. NeverOversize'
    BY <1>12 DEF NeverOversize, StreamInv
  <2>4. OnlyFullPacketsAreTooLarge'
    BY DEF OnlyFullPacketsAreTooLarge
  <2> QED
    BY <1>1, <1>2, <1>12, <2>1, <2>2, <2>3, <2>4
    DEF StreamInv, StreamTypeOK, TypeOK, LinkTypeOK
<1>15. Len(buffer') < MaxSize
  <2>1. CASE wire[1] = Terminate
    <3>1. Len(buffer') = 0
      BY <1>12, <2>1, EmptySeq
    <3> QED  BY <3>1, MaxSizeAssumption
  <2>2. CASE wire[1] # Terminate
    <3>1. buffer' = read
      BY <1>12, <2>2
    <3>2. Len(read) \in Nat /\ ~(Len(read) >= MaxSize)
      BY <1>9, <1>11, <2>2, LenProperties DEF Full
    <3> QED  BY <3>1, <3>2, MaxSizeAssumption
  <2> QED  BY <2>1, <2>2
<1>16. /\ SentInv' /\ Readable' = Readable /\ Readable = Cleans
       /\ Kept(sent, Readable)' = Kept(sent, Readable)
  BY <1>1, SentStay DEF Readable
<1>17. PICK at2 : at2 = [i \in 0 .. Len(sent) |-> at[i] - 1]
  OBVIOUS
<1>18. PICK m2 : m2 = IF 1 = at[m + 1] THEN m + 1 ELSE m
  OBVIOUS
<1>19. /\ m2 \in 0 .. Len(sent) /\ at2 \in [0 .. Len(sent) -> Int]
       /\ Laid(at2)' /\ Reading(at2, m2)'
  <2>1. 1 \in 1 .. Len(wire) /\ 1 <= at[m + 1]
    BY <1>1, <1>5
  <2> QED
    BY <1>1, <1>2, <1>4, <1>17, <1>18, <2>1, TakingBytes DEF StreamInv
<1>20. \A i \in 0 .. Len(sent) : at2[i] = at[i] - 1
  BY <1>17
<1>21. m \in 0 .. Len(sent) /\ at2[m] = 0 - z
  BY <1>1, <1>5, <1>20
<1> HIDE DEF z
<1>22. Taken(at2, m2)' /\ (z < Len(f) => m2 = m) /\ (z = Len(f) => m2 = m + 1)
  <2>0. /\ z < Len(f) => m2 = m
        /\ z = Len(f) => m2 = m + 1
    BY <1>6, <1>7, <1>18
  <2>1. CASE wire[1] # Terminate
    <3>1. m2 = m /\ m # Len(sent) /\ a \in 1 .. 1 - at2[m]
      BY <1>1, <1>5, <1>7, <1>8, <1>10, <1>21, <2>0, <2>1
    <3>2. buffer' = read
      BY <1>12, <2>1
    <3>3. Len(read) = 1 - at2[m] - a
      BY <1>7, <1>8, <1>9, <1>21
    <3>4. ASSUME NEW j \in 1 .. Len(read)
          PROVE  read[j] = f[a - 1 + j] /\ read[j] # Terminate
      <4>1. j \in 1 .. Len(buffer) \/ j = Len(read)
        BY <1>1, <1>7, <1>8, <1>9
      <4> QED  BY <1>8, <1>9, <2>1, <4>1
    <3>5. a = 1 \/ f[a - 1] = Terminate
      BY <1>8
    <3> QED
      BY <1>1, <2>0, <3>1, <3>2, <3>3, <3>4, <3>5 DEF Taken, f
  <2>2. CASE wire[1] = Terminate /\ z < Len(f)
    <3>1. m2 = m /\ m # Len(sent) /\ z + 1 \in 1 .. 1 - at2[m] /\ (z + 1) - 1 = z
      BY <1>1, <1>5, <1>7, <1>21, <2>0, <2>2
    <3>2. Len(buffer') = 0
      BY <1>12, <2>2, EmptySeq
    <3>3. Len(buffer') = 1 - at2[m] - (z + 1)
      BY <1>7, <1>21, <3>2
    <3>4. \A j \in 1 .. Len(buffer') : FALSE
      BY <3>2
    <3>5. f[(z + 1) - 1] = Terminate
      BY <1>5, <2>2, <3>1
    <3> QED
      BY <1>1, <2>0, <3>1, <3>3, <3>4, <3>5 DEF Taken, f
  <2>3. CASE wire[1] = Terminate /\ z = Len(f)
    <3>1. m2 = m + 1 /\ at2[m + 1] = 0
      BY <1>1, <1>5, <1>7, <1>20, <2>0, <2>3
    <3>2. buffer' = <<>> /\ Len(buffer') = 0
      BY <1>12, <2>3, EmptySeq
    <3>3. 1 \in 1 .. 1 - at2[m2] /\ Len(buffer') = 1 - at2[m2] - 1
      BY <3>1, <3>2
    <3>4. \A j \in 1 .. Len(buffer') : FALSE
      BY <3>2
    <3> QED
      BY <1>1, <2>0, <3>2, <3>3, <3>4 DEF Taken
  <2>4. z < Len(f) \/ z = Len(f)
    BY <1>6, <1>7
  <2> QED  BY <2>1, <2>2, <2>3, <2>4
<1>23. Passed(m2)' /\ (Fifo!Receive \/ Stutter)
  <2>1. ASSUME z < Len(f), Kept(received, Readable)' = Kept(received, Readable)
        PROVE  Passed(m2)' /\ Stutter
    <3>1. m2 = m
      BY <1>22, <2>1
    <3>2. Kept(received', Readable') = Kept(received, Readable)
      BY <2>1
    <3>3. Kept(received, Readable) = Kept(SubSeq(sent, 1, m), Readable)
      BY <1>4 DEF Passed
    <3>4. Passed(m)'
      BY <1>1, <1>16, <3>2, <3>3 DEF Passed
    <3> QED  BY <1>1, <1>16, <2>1, <3>1, <3>4 DEF Stutter
  <2>2. CASE wire[1] # Terminate
    <3>1. received' = received
      BY <1>12, <2>2
    <3> QED  BY <1>10, <1>16, <2>1, <2>2, <3>1
  <2>3. CASE wire[1] = Terminate
    <3>1. /\ z < Len(f) => ~Whole(p)
          /\ Whole(p) => Unframe(read) = p /\ (Deserializable(read) <=> Clean(p))
          /\ ~Whole(p) => p \notin Cleans
                          /\ (Deserializable(read) => Unframe(read) \notin Cleans)
      <4>1. /\ a \in 1 .. Len(f) /\ z \in a .. Len(f) /\ f[z] = Terminate
            /\ a = 1 \/ f[a - 1] = Terminate
        BY <1>5, <1>6, <1>7, <1>8, <2>3
      <4> QED  BY <1>6, <1>9, <4>1, PieceOfFrame DEF f
    <3>2. ASSUME ~Whole(p)
          PROVE  Kept(received, Readable)' = Kept(received, Readable)
      <4>1. \/ received' = received
            \/ \E q \in Packet : q \notin Readable /\ received' = Append(received, q)
        BY <1>12, <1>13, <1>16, <3>1, <3>2
      <4> QED  BY <4>1, StrangersAreNotKept DEF StreamInv
    <3>3. CASE z < Len(f)
      BY <2>1, <3>1, <3>2, <3>3
    <3>4. CASE z = Len(f) /\ p \in Readable
      <4>1. Whole(p) /\ Clean(p)
        BY <1>16, <3>4 DEF Cleans, Clean
      <4>2. received' = Append(received, p)
        BY <1>12, <2>3, <3>1, <4>1
      <4>3. Passed(m + 1)' /\ Fifo!Receive
        BY <1>1, <1>4, <1>5, <3>4, <4>2, ReceivedPacket DEF StreamInv
      <4>4. m2 = m + 1
        BY <1>22, <3>4
      <4> QED  BY <4>3, <4>4
    <3>5. CASE z = Len(f) /\ p \notin Readable
      <4>1. Whole(p) => received' = received
        BY <1>6, <1>12, <1>16, <3>1, <3>5 DEF Cleans
      <4>2. Kept(received, Readable)' = Kept(received, Readable)
        BY <1>16, <3>2, <4>1
      <4>3. Passed(m + 1)'
        BY <1>1, <1>4, <1>5, <3>5, <4>2, SkippedPacket DEF StreamInv
      <4>4. m2 = m + 1
        BY <1>22, <3>5
      <4> QED  BY <1>1, <1>16, <4>2, <4>3, <4>4 DEF Stutter
    <3>6. z < Len(f) \/ z = Len(f)
      BY <1>6, <1>7
    <3> QED  BY <3>3, <3>4, <3>5, <3>6
  <2> QED  BY <2>2, <2>3
<1>24. Position'
  BY <1>1, <1>19, <1>22, <1>23 DEF Position
<1> QED  BY <1>1, <1>14, <1>15, <1>16, <1>23, <1>24 DEF StreamInv

-----------------------------------------------------------------------------
(* The C reader *)

\* The verdict on what a serializer wrote is about its payload, if anything.
LEMMA VerdictOnFrame ==
  ASSUME NEW p \in Packet, Serializable(p)
  PROVE  CDeserializeError(Frame(p)) \in {"NONE", "BAD_PAYLOAD"}
<1> DEFINE f == Frame(p)
<1>1. /\ Len(p.payload) \in Nat
      /\ Len(f) = HeaderSize + Len(p.payload) + 1
      /\ f[1] = p.version /\ f[2] = p.type /\ f[3] = p.arg
      /\ f[HeaderSize + Len(p.payload) + 1] = Terminate
  BY FrameBytes
<1>2. ~(Len(f) < MinSize \/ Len(f) > MaxSize)
  <2>1. Len(f) \in MinSize .. MaxSize
    BY SentFrame
  <2> QED  BY <1>1, <2>1, MaxSizeAssumption DEF MinSize
<1>3. f[1] \in Versions /\ f[2] \in Types /\ f[3] \in ArgsOf[f[2]] /\ f[Len(f)] = Terminate
  BY <1>1 DEF Serializable
<1> HIDE DEF f
<1>4. CDeserializeError(f) \in {"NONE", "BAD_PAYLOAD"}
  BY <1>2, <1>3 DEF CDeserializeError
<1> QED  BY <1>4 DEF f

\* The sender waits, so the wire holds nothing behind the next frame; and the
\* call has taken all of it that was read.
LEMMA OneFrameOnWire ==
  ASSUME StreamInv, reader = "c", wire # <<>>, NEW m \in 0 .. Len(sent),
         NEW at \in [0 .. Len(sent) -> Int],
         Laid(at), Reading(at, m), Taken(at, m)
  PROVE  /\ Len(wire) <= at[m + 1]
         /\ sent[m + 1] \in Packets /\ Serializable(sent[m + 1]) /\ Whole(sent[m + 1])
         /\ \A i \in 1 .. Len(Frame(sent[m + 1])) - 1 :
              Frame(sent[m + 1])[i] # Terminate
         /\ Len(buffer) = 0 - at[m]
         /\ \A j \in 1 .. Len(buffer) : buffer[j] = Frame(sent[m + 1])[j]
<1> DEFINE p == sent[m + 1]
           f == Frame(p)
<1>1. Len(sent) \in Nat /\ buffer \in Seq(Byte) /\ Len(buffer) \in Nat
  BY LenProperties DEF StreamInv, StreamTypeOK, TypeOK, LinkTypeOK
<1>2. /\ m \in 0 .. Len(sent) - 1 /\ m + 1 \in 1 .. Len(sent)
      /\ at[m] \in Int /\ at[m] <= 0 /\ at[m + 1] >= 1
      /\ at[m + 1] = at[m] + Len(f)
  BY NextOnWire DEF StreamInv
<1>3. m + 1 = Len(sent)
  BY <1>1, <1>2 DEF Reading
<1>4. Len(wire) <= at[m + 1]
  BY <1>3 DEF Laid
<1>5. /\ p \in Packet /\ p \in Packets /\ Serializable(p) /\ p \in CPackets
      /\ Len(f) \in Nat
  BY <1>2, SentAreFrames DEF StreamInv, SentInv
<1>6. Whole(p)
  BY <1>5, CPacketsAssumption
<1>7. \A i \in 1 .. Len(f) - 1 : f[i] # Terminate
  BY <1>5, <1>6, SentFrame
<1>8. m # Len(sent)
  BY <1>1, <1>2
<1>9. PICK a \in 1 .. 1 - at[m] :
         /\ a = 1 \/ f[a - 1] = Terminate
         /\ Len(buffer) = 1 - at[m] - a
         /\ \A j \in 1 .. Len(buffer) : buffer[j] = f[a - 1 + j]
  BY <1>8 DEF Taken
<1> HIDE DEF f
<1>10. a = 1
  <2>1. a - 1 \in 1 .. Len(f) - 1 => FALSE
    BY <1>7, <1>9, <1>5, <1>2
  <2> QED  BY <1>2, <1>5, <1>9, <2>1
<1>11. Len(buffer) = 0 - at[m]
  BY <1>2, <1>9, <1>10
<1>12. \A j \in 1 .. Len(buffer) : buffer[j] = f[j]
  <2> TAKE j \in 1 .. Len(buffer)
  <2>1. a - 1 + j = j
    BY <1>10
  <2> QED  BY <1>9, <2>1
<1> QED  BY <1>4, <1>5, <1>6, <1>7, <1>11, <1>12 DEF f

\* LmpCStream reads with the codec of this module.
LEMMA SameLibrary ==
  /\ CReader!Terminate = Terminate
  /\ \A b : CReader!CDeserializeError(b) = CDeserializeError(b)
  /\ \A b : CReader!Unframe(b) = Unframe(b)
  /\ \A p : CReader!Serializable(p) = Serializable(p)
  /\ \A p : CReader!Frame(p) = Frame(p)
<1>1. /\ CReader!Terminate = Terminate /\ CReader!PayloadEmpty = PayloadEmpty
      /\ CReader!HeaderSize = HeaderSize /\ CReader!MinSize = MinSize
      /\ CReader!Versions = Versions
  BY DEF CReader!Terminate, Terminate, CReader!PayloadEmpty, PayloadEmpty,
         CReader!HeaderSize, HeaderSize, CReader!MinSize, MinSize,
         CReader!Versions, Versions
<1>2. /\ CReader!Types = Types /\ CReader!BareTypes = BareTypes
  BY DEF CReader!Types, Types, CReader!BareTypes, BareTypes,
         CReader!TypeInit, TypeInit, CReader!TypeInvalid, TypeInvalid
<1>3. CReader!ArgsOf = ArgsOf
  BY DEF CReader!ArgsOf, ArgsOf, CReader!ArgInitInit, ArgInitInit,
         CReader!ArgInitAccept, ArgInitAccept, CReader!ArgPing, ArgPing,
         CReader!ArgSend, ArgSend, CReader!ArgTermClean, ArgTermClean
<1>4. \A b : CReader!CPayloadIsBad(b) = CPayloadIsBad(b)
  BY <1>1, <1>2, Zenon DEF CReader!CPayloadIsBad, CPayloadIsBad
<1>5. \A b : CReader!CDeserializeError(b) = CDeserializeError(b)
  BY <1>1, <1>2, <1>3, <1>4, Zenon DEF CReader!CDeserializeError, CDeserializeError
<1>6. \A b : CReader!Unframe(b) = Unframe(b)
  BY <1>1 DEF CReader!Unframe, Unframe
<1>7. \A p : CReader!Serializable(p) = Serializable(p)
  BY <1>1, <1>2, <1>3, Zenon DEF CReader!Serializable, Serializable
<1>8. \A p : CReader!Frame(p) = Frame(p)
  BY <1>1 DEF CReader!Frame, Frame
<1> QED  BY <1>1, <1>5, <1>6, <1>7, <1>8

\* A chunk moves on in the frame; one that holds its end ends the call there.
LEMMA RecvKeepsInv ==
  ASSUME StreamInv, reader = "c", CReader!Recv, UNCHANGED <<reader, oversize>>
  PROVE  StreamInv' /\ (Fifo!Receive \/ Stutter)
<1>1. /\ sent \in Seq(Packet) /\ Len(sent) \in Nat
      /\ wire \in Seq(Byte) /\ wire # <<>> /\ Len(wire) \in Nat /\ Len(wire) >= 1
      /\ buffer \in Seq(Byte) /\ Len(buffer) \in Nat
      /\ received \in Seq(Packet)
      /\ ~ended /\ ended' = ended /\ sent' = sent /\ link' = link
  BY LenProperties, EmptySeq
  DEF StreamInv, StreamTypeOK, TypeOK, LinkTypeOK, CReader!Recv
<1>2. PICK n \in 1 .. Len(wire) :
         LET chunk == SubSeq(wire, 1, n)
         IN /\ IF CReader!Stops(chunk) = {}
               THEN /\ buffer' = buffer \o chunk
                    /\ UNCHANGED <<received, code>>
               ELSE CReader!Return(buffer \o SubSeq(chunk, 1, CReader!Min(CReader!Stops(chunk))))
            /\ wire' = SubSeq(wire, n + 1, Len(wire))
  BY DEF CReader!Recv
<1>3. PICK m \in 0 .. Len(sent) : \E at \in [0 .. Len(sent) -> Int] :
         Laid(at) /\ Reading(at, m) /\ Taken(at, m) /\ Passed(m)
  BY <1>1, Zenon DEF StreamInv, Position
<1>4. PICK at \in [0 .. Len(sent) -> Int] :
         Laid(at) /\ Reading(at, m) /\ Taken(at, m) /\ Passed(m)
  BY <1>3
<1> DEFINE p == sent[m + 1]
           f == Frame(p)
           chunk == SubSeq(wire, 1, n)
           b == buffer \o chunk
<1>5. /\ m \in 0 .. Len(sent) - 1 /\ m + 1 \in 1 .. Len(sent)
      /\ at[m] \in Int /\ at[m] <= 0
      /\ at[m + 1] \in Int /\ at[m + 1] >= 1
      /\ at[m + 1] = at[m] + Len(f)
      /\ \A j \in 1 .. Len(wire) : j <= at[m + 1] => wire[j] = f[j - at[m]]
  BY <1>1, <1>4, NextOnWire DEF StreamInv
<1>6. /\ p \in Packet /\ p \in Packets /\ Serializable(p)
      /\ f \in Seq(Byte) /\ Len(f) \in Nat /\ Len(f) <= MaxSize /\ f[Len(f)] = Terminate
  <2>1. Len(f) \in MinSize .. MaxSize
    BY <1>5, SentAreFrames DEF StreamInv
  <2> QED  BY <1>5, <2>1, SentAreFrames DEF StreamInv
<1>7. /\ Len(wire) <= at[m + 1] /\ Whole(p)
      /\ \A i \in 1 .. Len(f) - 1 : f[i] # Terminate
      /\ Len(buffer) = 0 - at[m]
      /\ \A j \in 1 .. Len(buffer) : buffer[j] = f[j]
  BY <1>1, <1>4, OneFrameOnWire
<1> HIDE DEF f
<1>8. n \in Nat /\ n >= 1 /\ n <= Len(wire) /\ n <= at[m + 1]
      /\ Len(buffer) + n <= Len(f)
      /\ (n = at[m + 1] <=> Len(buffer) + n = Len(f))
  BY <1>1, <1>5, <1>6, <1>7
<1>9. /\ chunk \in Seq(Byte) /\ Len(chunk) = n /\ DOMAIN chunk = 1 .. n
      /\ \A i \in 1 .. n : chunk[i] = f[Len(buffer) + i]
  <2>1. ASSUME NEW i \in 1 .. n
        PROVE  i \in 1 .. Len(wire) /\ i <= at[m + 1] /\ i - at[m] = Len(buffer) + i
    <3>1. /\ n \in Nat /\ n <= Len(wire) /\ n <= at[m + 1] /\ Len(wire) \in Nat
          /\ at[m] \in Int /\ at[m + 1] \in Int /\ Len(buffer) = 0 - at[m]
      BY <1>1, <1>5, <1>7, <1>8
    <3> QED  BY <3>1
  <2>2. \A i \in 1 .. n : wire[i] \in Byte /\ wire[i] = f[Len(buffer) + i]
    BY <1>1, <1>5, <2>1, ElementOfSeq
  <2>3. chunk \in Seq(Byte) /\ Len(chunk) = n /\ \A i \in 1 .. n : chunk[i] = wire[i]
    BY <1>8, <2>2, SubSeqProperties
  <2> HIDE DEF chunk
  <2> QED  BY <2>2, <2>3, LenProperties
<1>10. wire' \in Seq(Byte) /\ Len(wire') = Len(wire) - n
       /\ \A i \in 1 .. Len(wire) - n : wire'[i] = wire[i + n]
  <2> DEFINE rest == SubSeq(wire, n + 1, Len(wire))
  <2>1. \A i \in n + 1 .. Len(wire) : wire[i] \in Byte
    BY <1>1, <1>8, ElementOfSeq
  <2>2. /\ rest \in Seq(Byte)
        /\ Len(rest) = IF n + 1 <= Len(wire) THEN Len(wire) - (n + 1) + 1 ELSE 0
        /\ \A i \in 1 .. Len(wire) - (n + 1) + 1 : rest[i] = wire[n + 1 + i - 1]
    BY <1>1, <1>8, <2>1, SubSeqProperties
  <2>3. wire' = rest
    BY <1>2
  <2> HIDE DEF rest
  <2>4. Len(rest) = Len(wire) - n
    BY <1>1, <1>8, <2>2
  <2>5. \A i \in 1 .. Len(wire) - n :
           i \in 1 .. Len(wire) - (n + 1) + 1 /\ n + 1 + i - 1 = i + n
    BY <1>1, <1>8
  <2> QED  BY <2>2, <2>3, <2>4, <2>5
<1> HIDE DEF chunk
<1>11. /\ b \in Seq(Byte) /\ Len(b) = Len(buffer) + n
       /\ \A j \in 1 .. Len(buffer) + n : b[j] = f[j]
  <2>1. /\ b \in Seq(Byte) /\ Len(b) = Len(buffer) + n
        /\ \A j \in 1 .. Len(buffer) + n :
             b[j] = IF j <= Len(buffer) THEN buffer[j] ELSE chunk[j - Len(buffer)]
    BY <1>1, <1>9, ConcatProperties
  <2> HIDE DEF b
  <2>2. ASSUME NEW j \in 1 .. Len(buffer) + n PROVE b[j] = f[j]
    <3>1. CASE j <= Len(buffer)
      BY <1>1, <1>7, <2>1, <3>1
    <3>2. CASE j > Len(buffer)
      <4>1. j - Len(buffer) \in 1 .. n /\ Len(buffer) + (j - Len(buffer)) = j
        BY <1>1, <1>8, <3>2
      <4> QED  BY <1>1, <1>8, <1>9, <2>1, <3>2, <4>1
    <3> QED  BY <1>1, <1>8, <3>1, <3>2
  <2> QED  BY <2>1, <2>2
<1> HIDE DEF b
<1>12. CReader!Stops(chunk) = IF Len(buffer) + n = Len(f) THEN {n} ELSE {}
  <2>1. CReader!Stops(chunk)
          = {i \in 1 .. n : Len(buffer) + i >= BufferSize \/ chunk[i] = Terminate}
    <3>1. DOMAIN chunk = 1 .. n
      BY <1>9
    <3>2. CReader!Stops(chunk)
            = {i \in DOMAIN chunk : Len(buffer) + i >= BufferSize \/ chunk[i] = Terminate}
      BY SameLibrary, Zenon DEF CReader!Stops
    <3> QED  BY <3>1, <3>2
  <2>2. ASSUME NEW i \in 1 .. n, Len(buffer) + i < Len(f)
        PROVE  ~(Len(buffer) + i >= BufferSize) /\ chunk[i] # Terminate
    <3>1. Len(buffer) + i \in 1 .. Len(f) - 1 /\ Len(buffer) + i < MaxSize
      BY <1>1, <1>6, <1>8, <2>2, MaxSizeAssumption
    <3>2. chunk[i] # Terminate
      BY <1>7, <1>9, <3>1
    <3> QED  BY <3>1, <3>2, <1>1, BufferSizeAssumption, MaxSizeAssumption
  <2>3. ASSUME NEW i \in 1 .. n, ~(Len(buffer) + i < Len(f))
        PROVE  i = n /\ Len(buffer) + n = Len(f) /\ chunk[i] = Terminate
    <3>1. i = n /\ Len(buffer) + n = Len(f)
      BY <1>1, <1>6, <1>8, <2>3
    <3> QED  BY <1>6, <1>9, <3>1
  <2>4. CASE Len(buffer) + n = Len(f)
    <3>1. n \in 1 .. n /\ ~(Len(buffer) + n < Len(f))
      BY <1>6, <1>8, <2>4
    <3> QED  BY <2>1, <2>2, <2>3, <2>4, <3>1
  <2>5. CASE Len(buffer) + n # Len(f)
    BY <2>1, <2>2, <2>3, <2>5
  <2> QED  BY <2>4, <2>5
<1>13. /\ SentInv' /\ Readable' = Readable /\ Readable = Fitting
       /\ Kept(sent, Readable)' = Kept(sent, Readable)
  BY <1>1, SentStay DEF Readable
<1>14. PICK at2 : at2 = [i \in 0 .. Len(sent) |-> at[i] - n]
  OBVIOUS
<1>15. PICK m2 : m2 = IF n = at[m + 1] THEN m + 1 ELSE m
  OBVIOUS
<1>16. /\ m2 \in 0 .. Len(sent) /\ at2 \in [0 .. Len(sent) -> Int]
       /\ Laid(at2)' /\ Reading(at2, m2)'
  BY <1>1, <1>4, <1>8, <1>10, <1>14, <1>15, TakingBytes DEF StreamInv
<1>17. /\ \A i \in 0 .. Len(sent) : at2[i] = at[i] - n
       /\ m \in 0 .. Len(sent) /\ at2[m] = at[m] - n
  BY <1>1, <1>5, <1>14
<1>18. CASE Len(buffer) + n # Len(f)
  <2>1. buffer' = b /\ received' = received /\ code' = code
    BY <1>2, <1>12, <1>18 DEF chunk, b
  <2>2. m2 = m /\ m # Len(sent)
    BY <1>1, <1>5, <1>8, <1>15, <1>18
  <2>3. StreamTypeOK' /\ NeverOversize' /\ OnlyFullPacketsAreTooLarge'
    BY <1>1, <1>10, <1>11, <2>1
    DEF StreamInv, StreamTypeOK, TypeOK, LinkTypeOK, NeverOversize,
        OnlyFullPacketsAreTooLarge
  <2>4. Len(buffer') < MaxSize
    <3>1. Len(b) < MaxSize
      BY <1>1, <1>6, <1>8, <1>11, <1>18, MaxSizeAssumption
    <3> QED  BY <2>1, <3>1
  <2>5. Taken(at2, m)'
    <3>1. 1 \in 1 .. 1 - at2[m] /\ Len(b) = 1 - at2[m] - 1
      BY <1>1, <1>5, <1>7, <1>8, <1>11, <1>17
    <3>2. ASSUME NEW j \in 1 .. Len(b)
          PROVE  b[j] = f[1 - 1 + j] /\ b[j] # Terminate
      <4>1. j \in 1 .. Len(f) - 1 /\ 1 - 1 + j = j /\ j \in 1 .. Len(buffer) + n
        BY <1>1, <1>6, <1>8, <1>11, <1>18
      <4> QED  BY <1>7, <1>11, <4>1
    <3> QED  BY <1>1, <2>1, <2>2, <3>1, <3>2 DEF Taken, f
  <2>6. Passed(m)' /\ Stutter
    BY <1>1, <1>4, <1>13, <2>1 DEF Passed, Stutter
  <2>7. Position'
    BY <1>1, <1>16, <2>2, <2>5, <2>6 DEF Position
  <2> QED  BY <1>1, <1>13, <2>3, <2>4, <2>6, <2>7 DEF StreamInv
<1>19. CASE Len(buffer) + n = Len(f)
  <2> DEFINE error == IF Len(f) >= BufferSize THEN "BAD_SIZE" ELSE CDeserializeError(f)
  <2>1. b = f
    BY <1>6, <1>11, <1>19, SeqEqual
  <2>2. CReader!Return(f)
    <3>1. CReader!Stops(chunk) = {n}
      BY <1>12, <1>19
    <3>2. CReader!Min(CReader!Stops(chunk)) = n
      BY <1>8, <3>1 DEF CReader!Min
    <3>3. SubSeq(chunk, 1, n) = chunk
      <4>1. \A i \in 1 .. n : chunk[i] \in Byte
        BY <1>9, ElementOfSeq
      <4>2. /\ SubSeq(chunk, 1, n) \in Seq(Byte) /\ Len(SubSeq(chunk, 1, n)) = n
            /\ \A i \in 1 .. n : SubSeq(chunk, 1, n)[i] = chunk[i]
        BY <1>8, <4>1, SubSeqProperties
      <4> QED  BY <1>9, <4>2, SeqEqual
    <3>4. CReader!Return(buffer \o SubSeq(chunk, 1, CReader!Min(CReader!Stops(chunk))))
      BY <1>2, <3>1 DEF chunk
    <3> QED  BY <2>1, <3>2, <3>3, <3>4 DEF b
  <2>3. /\ buffer' = <<>> /\ code' = error
        /\ received' = IF error = "NONE" THEN Append(received, Unframe(f)) ELSE received
    <3>1. \A e : e = (IF Len(f) >= BufferSize THEN "BAD_SIZE" ELSE CDeserializeError(f)) =>
            /\ buffer' = <<>> /\ code' = e
            /\ received' = IF e = "NONE" THEN Append(received, Unframe(f)) ELSE received
      BY <2>2, SameLibrary, Zenon DEF CReader!Return
    <3> QED  BY <3>1
  <2>4. Unframe(f) = p
    BY <1>6, FrameIsUndone DEF f
  <2>5. /\ CDeserializeError(f) \in {"NONE", "BAD_PAYLOAD"}
        /\ CDeserializeError(f) = "NONE" <=> Clean(p)
    <3>1. CDeserializeError(f) \in {"NONE", "BAD_PAYLOAD"}
      BY <1>6, VerdictOnFrame DEF f
    <3>2. CDeserializeError(f) = "NONE" <=> Deserializable(f)
      BY <1>6, SameVerdict
    <3>3. Clean(p) <=> Deserializable(f)
      BY <1>6, <1>7, SentFrame DEF f
    <3> QED  BY <3>1, <3>2, <3>3
  <2>6. /\ error \in {"NONE", "BAD_PAYLOAD", "BAD_SIZE"}
        /\ error = "NONE" <=> Clean(p) /\ Len(f) < BufferSize
        /\ error = "BAD_SIZE" => Len(f) >= BufferSize
    <3>1. Len(f) >= BufferSize <=> ~(Len(f) < BufferSize)
      BY <1>6, BufferSizeAssumption
    <3> QED  BY <2>5, <3>1
  <2> HIDE DEF error
  <2>7. error = "NONE" <=> p \in Readable
    BY <1>6, <1>13, <2>6 DEF Fitting, Cleans, f
  <2>8. received' = IF p \in Readable THEN Append(received, p) ELSE received
    BY <2>3, <2>4, <2>7
  <2>9. received' \in Seq(Packet)
    BY <1>1, <1>6, <2>8, AppendProperties
  <2>10. StreamTypeOK' /\ NeverOversize'
    <3>1. code' \in CReader!Codes
      BY <2>3, <2>6 DEF CReader!Codes
    <3>2. buffer' \in Seq(Byte)
      BY <2>3, EmptySeq
    <3> QED
      BY <1>1, <1>10, <2>9, <3>1, <3>2
      DEF StreamInv, StreamTypeOK, TypeOK, LinkTypeOK, NeverOversize
  <2>11. OnlyFullPacketsAreTooLarge'
    <3>1. /\ code' \in CReader!Codes
          /\ code' \notin {"BAD_VERSION", "BAD_TYPE", "BAD_ARG", "BAD_TERMINATE"}
      BY <2>3, <2>6 DEF CReader!Codes
    <3>2. code' = "BAD_SIZE" => \E i \in DOMAIN sent : Len(Frame(sent[i])) >= BufferSize
      <4>1. m + 1 \in DOMAIN sent
        BY <1>1, <1>5, LenProperties
      <4> QED  BY <2>3, <2>6, <4>1 DEF f
    <3>3. ASSUME NEW i \in DOMAIN received'
          PROVE  Len(Frame(received'[i])) < BufferSize
      <4>1. /\ DOMAIN received = 1 .. Len(received) /\ Len(received) \in Nat
            /\ \A j \in DOMAIN received : Len(Frame(received[j])) < BufferSize
        BY <1>1, LenProperties DEF StreamInv, OnlyFullPacketsAreTooLarge
      <4>2. CASE p \notin Readable
        BY <2>8, <3>3, <4>1, <4>2
      <4>3. CASE p \in Readable
        <5>1. /\ DOMAIN received' = 1 .. Len(received) + 1
              /\ \A j \in 1 .. Len(received) : received'[j] = received[j]
              /\ received'[Len(received) + 1] = p
          <6>1. received' = Append(received, p)
            BY <2>8, <4>3
          <6>2. /\ Append(received, p) \in Seq(Packet)
                /\ Len(Append(received, p)) = Len(received) + 1
                /\ \A j \in 1 .. Len(received) : Append(received, p)[j] = received[j]
                /\ Append(received, p)[Len(received) + 1] = p
            BY <1>1, <1>6, AppendProperties
          <6> QED  BY <6>1, <6>2, LenProperties
        <5>2. Len(f) < BufferSize
          BY <2>6, <2>7, <4>3
        <5>3. i \in 1 .. Len(received) \/ i = Len(received) + 1
          BY <3>3, <4>1, <5>1
        <5> QED  BY <4>1, <5>1, <5>2, <5>3 DEF f
      <4> QED  BY <4>2, <4>3
    <3> QED  BY <1>1, <3>1, <3>2, <3>3 DEF OnlyFullPacketsAreTooLarge
  <2>12. Len(buffer') = 0 /\ Len(buffer') < MaxSize
    <3>1. Len(buffer') = 0
      BY <2>3, EmptySeq
    <3> QED  BY <3>1, MaxSizeAssumption
  <2>13. m2 = m + 1 /\ at2[m + 1] = 0
    BY <1>1, <1>5, <1>8, <1>15, <1>17, <1>19
  <2>14. Taken(at2, m2)'
    <3>1. 1 \in 1 .. 1 - at2[m2] /\ Len(buffer') = 1 - at2[m2] - 1
      BY <2>12, <2>13
    <3>2. \A j \in 1 .. Len(buffer') : FALSE
      BY <2>12
    <3> QED  BY <1>1, <2>3, <3>1, <3>2 DEF Taken
  <2>15. Passed(m + 1)' /\ (Fifo!Receive \/ Stutter)
    <3>1. CASE p \in Readable
      <4>1. received' = Append(received, p)
        BY <2>8, <3>1
      <4> QED  BY <1>1, <1>4, <1>5, <3>1, <4>1, ReceivedPacket DEF StreamInv
    <3>2. CASE p \notin Readable
      <4>1. Kept(received, Readable)' = Kept(received, Readable)
        BY <1>13, <2>8, <3>2
      <4>2. Passed(m + 1)'
        BY <1>1, <1>4, <1>5, <3>2, <4>1, SkippedPacket DEF StreamInv
      <4> QED  BY <1>1, <1>13, <4>1, <4>2 DEF Stutter
    <3> QED  BY <3>1, <3>2
  <2>16. Position'
    BY <1>1, <1>16, <2>13, <2>14, <2>15 DEF Position
  <2> QED  BY <1>1, <1>13, <2>10, <2>11, <2>12, <2>15, <2>16 DEF StreamInv
<1> QED  BY <1>18, <1>19

\* The end of the stream ends the reader, in the middle of a frame or not.
LEMMA EndOfStreamKeepsInv ==
  ASSUME StreamInv, link # "open", ended' = TRUE, buffer' = <<>>,
         UNCHANGED <<sent, wire, link, received, oversize, reader>>,
         code' = code \/ code' = "BAD_INPUT"
  PROVE  StreamInv' /\ Stutter
<1>1. buffer' \in Seq(Byte) /\ Len(buffer') = 0
  BY EmptySeq
<1>2. code \in CReader!Codes /\ code' \in CReader!Codes
  BY DEF StreamInv, StreamTypeOK, CReader!Codes
<1>3. StreamTypeOK' /\ NeverOversize'
  BY <1>1, <1>2 DEF StreamInv, StreamTypeOK, TypeOK, LinkTypeOK, NeverOversize
<1>4. OnlyFullPacketsAreTooLarge'
  BY <1>2 DEF StreamInv, OnlyFullPacketsAreTooLarge
<1>5. Len(buffer') < MaxSize
  BY <1>1, MaxSizeAssumption
<1>6. SentInv' /\ Readable' = Readable /\ Kept(sent, Readable)' = Kept(sent, Readable)
  BY SentStay
<1>7. Stutter
  BY <1>6 DEF Stutter
<1> QED  BY <1>3, <1>4, <1>5, <1>6, <1>7 DEF StreamInv

\* What the sender does leaves the reader alone.
LEMMA ReaderIsLeftAlone ==
  ASSUME StreamInv, Len(sent) \in Nat,
         UNCHANGED <<buffer, received, oversize, ended, reader, code>>,
         sent' = sent \/ (\E p \in Packet : sent' = Append(sent, p)),
         sent' \in Seq(Packet), wire' \in Seq(Byte), link' \in {"open", "closed", "lost"}
  PROVE  /\ StreamTypeOK' /\ NeverOversize' /\ Len(buffer') < MaxSize
         /\ OnlyFullPacketsAreTooLarge'
<1>1. StreamTypeOK' /\ NeverOversize' /\ Len(buffer') < MaxSize
  BY DEF StreamInv, StreamTypeOK, TypeOK, LinkTypeOK, NeverOversize
<1>2. \A i \in DOMAIN sent : i \in DOMAIN sent' /\ sent'[i] = sent[i]
  <2>1. CASE sent' = sent
    BY <2>1
  <2>2. CASE \E p \in Packet : sent' = Append(sent, p)
    <3>1. PICK p \in Packet : sent' = Append(sent, p)
      BY <2>2
    <3>2. sent \in Seq(Packet)
      BY DEF StreamInv, StreamTypeOK, TypeOK, LinkTypeOK
    <3>3. /\ sent' \in Seq(Packet) /\ Len(sent') = Len(sent) + 1
          /\ \A i \in 1 .. Len(sent) : sent'[i] = sent[i]
      BY <3>1, <3>2, AppendProperties
    <3>4. DOMAIN sent = 1 .. Len(sent) /\ DOMAIN sent' = 1 .. Len(sent')
      BY <3>2, <3>3, LenProperties
    <3> QED  BY <3>3, <3>4
  <2> QED  BY <2>1, <2>2
<1>3. OnlyFullPacketsAreTooLarge'
  <2>1. ASSUME \E i \in DOMAIN sent : Len(Frame(sent[i])) >= BufferSize
        PROVE  \E i \in DOMAIN sent' : Len(Frame(sent'[i])) >= BufferSize
    BY <1>2, <2>1
  <2> QED  BY <2>1 DEF StreamInv, OnlyFullPacketsAreTooLarge
<1> QED  BY <1>1, <1>3

\* The sender's step: a packet that must arrive is sent on the abstract
\* connection, the others are not seen there.
LEMMA SendingKeepsInv ==
  ASSUME StreamInv, NEW p \in Packets, SendPacket(p),
         reader = "c" => p \in CPackets /\ wire = <<>>,
         UNCHANGED <<buffer, received, oversize, ended, reader, code>>
  PROVE  StreamInv' /\ ((\E q \in Cleans : Fifo!Send(q)) \/ Stutter)
<1>1. /\ p \in Packet /\ sent' = Append(sent, p) /\ link = "open" /\ link' = "open"
      /\ sent \in Seq(Packet) /\ Len(sent) \in Nat
  BY PacketsAssumption, LenProperties
  DEF SendPacket, StreamInv, StreamTypeOK, TypeOK, LinkTypeOK
<1>2. /\ ~ended /\ Position'
      /\ SentInv' /\ sent' \in Seq(Packet) /\ wire' \in Seq(Byte)
  BY SendingKeepsPosition
<1>3. /\ StreamTypeOK' /\ NeverOversize' /\ Len(buffer') < MaxSize
      /\ OnlyFullPacketsAreTooLarge'
  BY <1>1, <1>2, ReaderIsLeftAlone
<1>4. StreamInv'
  BY <1>2, <1>3 DEF StreamInv
<1>5. Readable' = Readable
  BY DEF Readable
<1>6. /\ Kept(received, Readable)' = Kept(received, Readable)
      /\ Kept(sent, Readable)'
           = IF p \in Readable THEN Append(Kept(sent, Readable), p)
             ELSE Kept(sent, Readable)
  BY <1>1, <1>5, KeptOfAppend
<1>7. CASE p \in Readable
  <2>1. p \in Cleans
    BY <1>7 DEF Readable, Fitting
  <2>2. Fifo!Send(p)
    BY <1>1, <1>6, <1>7 DEF Fifo!Send
  <2> QED  BY <1>4, <2>1, <2>2
<1>8. CASE p \notin Readable
  <2>1. Stutter
    BY <1>1, <1>6, <1>8 DEF Stutter
  <2> QED  BY <1>4, <2>1
<1> QED  BY <1>7, <1>8

LEMMA EndingKeepsInv ==
  ASSUME StreamInv, Close \/ Lose,
         UNCHANGED <<buffer, received, oversize, ended, reader, code>>
  PROVE  StreamInv' /\ (Fifo!Close \/ Fifo!Lose)
<1>1. /\ sent' = sent /\ sent \in Seq(Packet) /\ Len(sent) \in Nat
      /\ wire \in Seq(Byte) /\ Len(wire) \in Nat
      /\ link' \in {"closed", "lost"}
  BY LenProperties DEF StreamInv, StreamTypeOK, TypeOK, LinkTypeOK, Close, Lose
<1>2. wire' \in Seq(Byte)
  <2>1. CASE Close
    BY <1>1, <2>1 DEF Close
  <2>2. CASE Lose
    <3>1. PICK n \in 0 .. Len(wire) : wire' = SubSeq(wire, 1, n)
      BY <2>2 DEF Lose
    <3>2. n \in Nat /\ \A i \in 1 .. n : wire[i] \in Byte
      BY <1>1, ElementOfSeq
    <3> QED  BY <3>1, <3>2, SubSeqProperties
  <2> QED  BY <2>1, <2>2
<1>3. /\ StreamTypeOK' /\ NeverOversize' /\ Len(buffer') < MaxSize
      /\ OnlyFullPacketsAreTooLarge'
  BY <1>1, <1>2, ReaderIsLeftAlone
<1>4. SentInv' /\ Readable' = Readable /\ Kept(sent, Readable)' = Kept(sent, Readable)
  BY <1>1, SentStay
<1>5. IF ended' THEN buffer' = <<>> /\ link' # "open" ELSE Position'
  <2>1. CASE ended
    BY <1>1, <2>1 DEF StreamInv
  <2>2. CASE ~ended
    BY <2>2, EndingKeepsPosition
  <2> QED  BY <2>1, <2>2
<1>6. StreamInv'
  BY <1>3, <1>4, <1>5 DEF StreamInv
<1>7. UNCHANGED <<Kept(sent, Readable), Kept(received, Readable)>>
  BY <1>4
<1>8. Fifo!Close \/ Fifo!Lose
  BY <1>7 DEF Close, Lose, Fifo!Close, Fifo!Lose
<1> QED  BY <1>6, <1>8

-----------------------------------------------------------------------------
(* The connection *)

LEMMA StreamInitInv == StreamInit => StreamInv /\ Fifo!Init
<1> SUFFICES ASSUME StreamInit PROVE StreamInv /\ Fifo!Init
  OBVIOUS
<1>1. /\ sent = <<>> /\ wire = <<>> /\ buffer = <<>> /\ received = <<>>
      /\ link = "open" /\ ~ended /\ ~oversize /\ oversize \in BOOLEAN /\ ended \in BOOLEAN
      /\ code = "NONE" /\ reader \in {"go", "c"}
  BY DEF StreamInit, Init, LinkInit
<1>2. /\ sent \in Seq(Packet) /\ wire \in Seq(Byte)
      /\ buffer \in Seq(Byte) /\ received \in Seq(Packet)
      /\ Len(sent) = 0 /\ Len(wire) = 0 /\ Len(buffer) = 0
      /\ DOMAIN received = {} /\ SubSeq(sent, 1, 0) = <<>>
  <2>1. DOMAIN received = 1 .. 0
    BY <1>1, EmptySeq, LenProperties
  <2> QED  BY <1>1, <2>1, EmptySeq
<1>3. StreamTypeOK /\ SentInv /\ NeverOversize /\ Len(buffer) < MaxSize
      /\ OnlyFullPacketsAreTooLarge
  BY <1>1, <1>2, MaxSizeAssumption
  DEF StreamTypeOK, TypeOK, LinkTypeOK, SentInv, NeverOversize,
      OnlyFullPacketsAreTooLarge, CReader!Codes
<1>4. PICK at : at = [i \in 0 .. 0 |-> 0]
  OBVIOUS
<1>5. /\ at \in [0 .. Len(sent) -> Int] /\ 0 \in 0 .. Len(sent)
      /\ \A i \in 0 .. Len(sent) : at[i] = 0
  BY <1>2, <1>4
<1>6. Laid(at) /\ Reading(at, 0) /\ Taken(at, 0)
  BY <1>1, <1>2, <1>5 DEF Laid, Reading, Taken
<1>7. Passed(0)
  BY <1>1, <1>2, KeptOfNothing DEF Passed
<1>8. Position
  BY <1>5, <1>6, <1>7 DEF Position
<1>9. Fifo!Init
  BY <1>1, KeptOfNothing DEF Fifo!Init
<1> QED  BY <1>1, <1>3, <1>8, <1>9 DEF StreamInv

LEMMA StreamStep ==
  StreamInv /\ [StreamNext]_streamVars => StreamInv' /\ [Fifo!Next]_(Fifo!vars)
<1> SUFFICES ASSUME StreamInv, [StreamNext]_streamVars
             PROVE  StreamInv' /\ (Fifo!Next \/ Stutter)
  BY DEF Stutter, Fifo!vars
<1>1. CASE GoStep /\ LinkNext /\ UNCHANGED <<buffer, received, oversize, ended>>
  <2>1. ASSUME NEW p \in Packets, SendPacket(p)
        PROVE  StreamInv' /\ ((\E q \in Cleans : Fifo!Send(q)) \/ Stutter)
    BY <1>1, <2>1, SendingKeepsInv DEF GoStep
  <2>2. ASSUME Close \/ Lose
        PROVE  StreamInv' /\ (Fifo!Close \/ Fifo!Lose)
    BY <1>1, <2>2, EndingKeepsInv DEF GoStep
  <2> QED  BY <1>1, <2>1, <2>2 DEF LinkNext, Fifo!Next
<1>2. CASE GoStep /\ ReadByte
  BY <1>2, ReadByteKeepsInv DEF GoStep, Fifo!Next
<1>3. CASE GoStep /\ ReadEOF
  BY <1>3, EndOfStreamKeepsInv DEF GoStep, ReadEOF
<1>4. CASE /\ CStep /\ UNCHANGED <<buffer, received, code, ended>>
           /\ \/ CReader!MaySend /\ \E p \in CPackets : CReader!SendPacket(p)
              \/ CReader!Close
              \/ CReader!Lose
  <2>1. ASSUME NEW p \in CPackets, CReader!SendPacket(p), CReader!MaySend
        PROVE  StreamInv' /\ ((\E q \in Cleans : Fifo!Send(q)) \/ Stutter)
    <3>1. p \in Packets /\ wire = <<>> /\ SendPacket(p)
      BY <2>1, SameLibrary, CPacketsAssumption
      DEF CReader!SendPacket, SendPacket, CReader!MaySend
    <3> QED  BY <1>4, <3>1, SendingKeepsInv DEF CStep
  <2>2. ASSUME CReader!Close \/ CReader!Lose
        PROVE  StreamInv' /\ (Fifo!Close \/ Fifo!Lose)
    <3>1. Close \/ Lose
      BY <2>2 DEF CReader!Close, Close, CReader!Lose, Lose
    <3> QED  BY <1>4, <3>1, EndingKeepsInv DEF CStep
  <2> QED  BY <1>4, <2>1, <2>2 DEF Fifo!Next
<1>5. CASE CStep /\ CReader!Recv
  BY <1>5, RecvKeepsInv DEF CStep, Fifo!Next
<1>6. CASE CStep /\ CReader!RecvEnd
  BY <1>6, EndOfStreamKeepsInv DEF CStep, CReader!RecvEnd
<1>7. CASE UNCHANGED streamVars
  <2>1. UNCHANGED <<sent, wire, link, buffer, received, oversize, ended, reader, code>>
    BY <1>7 DEF streamVars, vars
  <2>2. Stutter
    BY <2>1 DEF Stutter, Readable
  <2>3. StreamInv'
    <3>1. StreamTypeOK' /\ NeverOversize' /\ OnlyFullPacketsAreTooLarge'
      BY <2>1 DEF StreamInv, StreamTypeOK, TypeOK, LinkTypeOK, NeverOversize,
         OnlyFullPacketsAreTooLarge
    <3>2. SentInv'
      BY <2>1 DEF StreamInv, SentInv
    <3>3. ASSUME NEW m \in 0 .. Len(sent), NEW at \in [0 .. Len(sent) -> Int],
                 Laid(at), Reading(at, m), Taken(at, m), Passed(m)
          PROVE  Laid(at)' /\ Reading(at, m)' /\ Taken(at, m)' /\ Passed(m)'
      <4>1. Laid(at)'
        BY <2>1, <3>3 DEF Laid
      <4>2. Reading(at, m)' /\ Taken(at, m)'
        BY <2>1, <3>3 DEF Reading, Taken
      <4>3. Passed(m)'
        BY <2>1, <3>3 DEF Passed, Readable
      <4> QED  BY <4>1, <4>2, <4>3
    <3>4. Position => Position'
      BY <2>1, <3>3 DEF Position
    <3> QED  BY <2>1, <3>1, <3>2, <3>4 DEF StreamInv
  <2> QED  BY <2>2, <2>3
<1>8. CASE GoStep
  BY <1>1, <1>2, <1>3, <1>8 DEF GoStep, Next
<1>9. CASE CStep
  BY <1>4, <1>5, <1>6, <1>9 DEF CStep, CReader!Next
<1> QED  BY <1>7, <1>8, <1>9 DEF StreamNext

\* The types: neither reader ever keeps or returns anything but bytes and
\* packets.
THEOREM TypeCorrect == StreamSpec => []TypeOK
<1>1. StreamInv => TypeOK
  BY DEF StreamInv, StreamTypeOK
<1> QED  BY <1>1, StreamInitInv, StreamStep, PTL DEF StreamSpec

\* ReadPacket never gives up on what SendPacket wrote because of its size.
THEOREM NeverOversizeTheorem == StreamSpec => []NeverOversize
<1>1. StreamInv => NeverOversize
  BY DEF StreamInv
<1> QED  BY <1>1, StreamInitInv, StreamStep, PTL DEF StreamSpec

\* buffer[size] of both readers is in the buffer when the next byte is written.
THEOREM IndexInRange == StreamSpec => [](Len(buffer) < MaxSize)
<1>1. StreamInv => Len(buffer) < MaxSize
  BY DEF StreamInv
<1> QED  BY <1>1, StreamInitInv, StreamStep, PTL DEF StreamSpec

\* lmp_net_recv_packet refuses nothing of what a library wrote but a packet
\* that leaves no byte of its buffer free.
THEOREM OnlyFullPacketsAreTooLargeTheorem == StreamSpec => []OnlyFullPacketsAreTooLarge
<1>1. StreamInv => OnlyFullPacketsAreTooLarge
  BY DEF StreamInv
<1> QED  BY <1>1, StreamInitInv, StreamStep, PTL DEF StreamSpec

\* Whatever TCP makes of the stream, either reader is the abstract connection
\* for the packets that must arrive: whole, once, in their order.
THEOREM FifoTheorem == StreamSpec => Fifo!Init /\ [][Fifo!Next]_(Fifo!vars)
<1> QED  BY StreamInitInv, StreamStep, PTL DEF StreamSpec
=============================================================================

---------------------------- MODULE LayoutProofs ----------------------------
(***************************************************************************)
(* The arithmetic of Chunking, for every size of upload and of chunk, and  *)
(* from it that the file of an upload on an SMB share (SmbLayout) is whole *)
(* when it is renamed, and found by the path the database has.             *)
(***************************************************************************)
EXTENDS SmbLayout, TLAPS

\* Division with remainder.
LEMMA DivMod ==
    ASSUME NEW a \in Nat, NEW c \in Nat \ {0}
    PROVE  /\ a \div c \in Nat
           /\ (a % c) \in 0 .. c - 1
           /\ a = c * (a \div c) + (a % c)
  BY SMT

LEMMA DivUnique ==
    ASSUME NEW a \in Nat, NEW c \in Nat \ {0}, NEW q \in Nat, NEW r \in 0 .. c - 1, a = c * q + r
    PROVE  a \div c = q
  BY SMT

\* A product grows with its second factor.
LEMMA TimesMonotone ==
    ASSUME NEW c \in Nat, NEW m \in Int, NEW n \in Int, m <= n
    PROVE  c * m <= c * n
  BY SMT

\* total_parts is the quotient, and one more when there is a remainder.
LEMMA CountOfParts ==
    ASSUME NEW t \in Nat \ {0}, NEW c \in Nat \ {0}
    PROVE  TotalPartsOf(t, c) =
             (t \div c) + (IF t % c = 0 THEN 0 ELSE 1)
<1> DEFINE q == t \div c
           r == t % c
<1>1. q \in Nat /\ r \in 0 .. c - 1 /\ t = c * q + r
  BY DivMod
<1>2. SUFFICES (t + c - 1) \div c = q + (IF r = 0 THEN 0 ELSE 1)
  BY DEF TotalPartsOf
<1> HIDE DEF q, r
<1>3. t + c - 1 \in Nat
  OBVIOUS
<1>4. CASE r = 0
  <2>1. t + c - 1 = c * q + (c - 1)
    BY <1>1, <1>4
  <2>2. c - 1 \in 0 .. c - 1
    OBVIOUS
  <2>3. (t + c - 1) \div c = q
    BY <1>1, <1>3, <2>1, <2>2, DivUnique
  <2> QED BY <1>1, <1>4, <2>3
<1>5. CASE r # 0
  <2>1. t + c - 1 = c * (q + 1) + (r - 1)
    BY <1>1, <1>5
  <2>2. q + 1 \in Nat /\ r - 1 \in 0 .. c - 1
    BY <1>1, <1>5
  <2>3. (t + c - 1) \div c = q + 1
    BY <1>3, <2>1, <2>2, DivUnique
  <2> QED BY <1>5, <2>3
<1> QED BY <1>4, <1>5

\* The parts lie end to end: the first begins at byte 0, each of the others
\* where the one before it ends, and the last ends with the upload.  None is
\* empty or longer than a chunk.
THEOREM PartsEndToEnd ==
    ASSUME NEW t \in Nat \ {0}, NEW c \in Nat \ {0},
           NEW p \in Parts(t, c)
    PROVE  /\ ExpectedSize(t, c, p) \in 1 .. c
           /\ Offset(c, 0) = 0
           /\ Offset(c, p) + ExpectedSize(t, c, p) =
                IF p + 1 \in Parts(t, c) THEN Offset(c, p + 1) ELSE t
<1> DEFINE q == t \div c
           r == t % c
           n == TotalPartsOf(t, c)
<1>1. q \in Nat /\ r \in 0 .. c - 1 /\ t = c * q + r
  BY DivMod
<1>2. n = q + (IF r = 0 THEN 0 ELSE 1)
  BY CountOfParts
<1>3. ExpectedSize(t, c, p) = IF p = n - 1 /\ r # 0 THEN r ELSE c
  BY DEF ExpectedSize
<1>4. Parts(t, c) = 0 .. n - 1
  BY DEF Parts
<1> HIDE DEF q, r, n
<1>5. n \in Nat /\ p \in 0 .. n - 1
  BY <1>1, <1>2, <1>4
<1>6. ExpectedSize(t, c, p) \in 1 .. c /\ Offset(c, 0) = 0
  BY <1>1, <1>3 DEF Offset
<1>7. CASE p + 1 \in Parts(t, c)
  <2>1. ExpectedSize(t, c, p) = c
    BY <1>3, <1>4, <1>5, <1>7
  <2>2. (p + 1) * c = p * c + c
    BY <1>5
  <2> QED BY <1>6, <1>7, <2>1, <2>2 DEF Offset
<1>8. CASE p + 1 \notin Parts(t, c)
  <2>1. p = n - 1
    BY <1>4, <1>5, <1>8
  <2>2. CASE r # 0
    <3>1. p = q /\ ExpectedSize(t, c, p) = r
      BY <1>1, <1>2, <1>3, <2>1, <2>2
    <3> QED BY <1>1, <1>6, <1>8, <3>1 DEF Offset
  <2>3. CASE r = 0
    <3>1. q = p + 1 /\ ExpectedSize(t, c, p) = c /\ t = c * q
      BY <1>1, <1>2, <1>3, <1>5, <2>1, <2>3
    <3>2. c * (p + 1) = p * c + c
      BY <1>5
    <3> QED BY <1>6, <1>8, <3>1, <3>2 DEF Offset
  <2> QED BY <2>2, <2>3
<1> QED BY <1>6, <1>7, <1>8

\* A finalization that finds fewer bytes than the upload has resumes at a part
\* there is, and at or before the end of what is there: it leaves no gap.
THEOREM ResumeLeavesNoGap ==
    ASSUME NEW t \in Nat \ {0}, NEW c \in Nat \ {0}, NEW e \in 0 .. t - 1
    PROVE  /\ FirstMissingPart(e, c) \in Parts(t, c)
           /\ Offset(c, FirstMissingPart(e, c)) <= e
           /\ e < Offset(c, FirstMissingPart(e, c)) + c
<1> DEFINE q == t \div c
           r == t % c
           n == TotalPartsOf(t, c)
           f == e \div c
           g == e % c
<1>1. q \in Nat /\ r \in 0 .. c - 1 /\ t = c * q + r
  BY DivMod
<1>2. f \in Nat /\ g \in 0 .. c - 1 /\ e = c * f + g
  <2>1. e \in Nat
    OBVIOUS
  <2> QED BY <2>1, DivMod
<1>3. n = q + (IF r = 0 THEN 0 ELSE 1)
  BY CountOfParts
<1>4. FirstMissingPart(e, c) = f /\ Parts(t, c) = 0 .. n - 1
  BY DEF FirstMissingPart, Parts
<1> HIDE DEF q, r, n, f, g
<1>5. Offset(c, f) = c * f
  BY <1>2 DEF Offset
<1>6. f <= n - 1
  <2>1. SUFFICES ASSUME n <= f PROVE FALSE
    BY <1>1, <1>2, <1>3
  <2>2. c * n <= c * f
    BY <1>1, <1>2, <1>3, <2>1, TimesMonotone
  <2>3. t <= c * n
    <3>1. CASE r = 0
      BY <1>1, <1>3, <3>1
    <3>2. CASE r # 0
      <4>1. c * (q + 1) = c * q + c
        BY <1>1
      <4> QED BY <1>1, <1>3, <3>2, <4>1
    <3> QED BY <3>1, <3>2
  <2> QED BY <1>1, <1>2, <1>3, <2>2, <2>3
<1> QED BY <1>1, <1>2, <1>3, <1>4, <1>5, <1>6

\* No part reaches beyond the upload.
LEMMA PartWithin ==
    ASSUME NEW t \in Nat \ {0}, NEW c \in Nat \ {0}, NEW p \in Parts(t, c)
    PROVE  /\ Offset(c, p) \in Nat
           /\ ExpectedSize(t, c, p) \in 1 .. c
           /\ Offset(c, p) + ExpectedSize(t, c, p) <= t
<1> DEFINE n == TotalPartsOf(t, c)
<1>1. n \in Nat /\ Parts(t, c) = 0 .. n - 1
  <2>1. t \div c \in Nat
    BY DivMod
  <2> QED BY <2>1, CountOfParts DEF Parts
<1> HIDE DEF n
<1>2. p \in Nat /\ p <= n - 1 /\ n - 1 \in Parts(t, c) /\ n \notin Parts(t, c) /\ n - 1 \in Nat
  BY <1>1
<1>3. Offset(c, n - 1) + ExpectedSize(t, c, n - 1) = t /\ ExpectedSize(t, c, n - 1) \in 1 .. c
  <2>1. (n - 1) + 1 = n
    BY <1>1
  <2> QED BY <1>2, <2>1, PartsEndToEnd
<1>4. Offset(c, p) \in Nat /\ Offset(c, n - 1) \in Nat
  BY <1>2 DEF Offset
<1>5. ExpectedSize(t, c, p) \in 1 .. c
  BY PartsEndToEnd
<1>6. CASE p = n - 1
  BY <1>3, <1>4, <1>6
<1>7. CASE p # n - 1
  <2>1. p + 1 \in Parts(t, c) /\ p + 1 <= n - 1
    BY <1>1, <1>2, <1>7
  <2>2. Offset(c, p) + ExpectedSize(t, c, p) = Offset(c, p + 1)
    BY <2>1, PartsEndToEnd
  <2>3. c * (p + 1) <= c * (n - 1)
    BY <1>1, <1>2, <2>1, TimesMonotone
  <2>4. Offset(c, p + 1) <= Offset(c, n - 1)
    BY <1>1, <1>2, <2>3 DEF Offset
  <2>5. Offset(c, p + 1) \in Nat
    BY <1>2 DEF Offset
  <2> QED BY <1>3, <1>4, <1>5, <2>2, <2>4, <2>5
<1> QED BY <1>4, <1>5, <1>6, <1>7

\* Each byte of the upload is in a part.
LEMMA PartOfByte ==
    ASSUME NEW t \in Nat \ {0}, NEW c \in Nat \ {0}, NEW b \in 0 .. t - 1
    PROVE  \E p \in Parts(t, c) : b \in Bytes(Offset(c, p), ExpectedSize(t, c, p))
<1> DEFINE f == FirstMissingPart(b, c)
<1>1. f \in Parts(t, c) /\ Offset(c, f) <= b /\ b < Offset(c, f) + c
  BY ResumeLeavesNoGap
<1> HIDE DEF f
<1>2. f \in Nat
  <2>1. t \div c \in Nat
    BY DivMod
  <2> QED BY <1>1, <2>1, CountOfParts DEF Parts
<1>3. Offset(c, f) \in Nat /\ ExpectedSize(t, c, f) \in 1 .. c
  BY <1>1, PartWithin
<1>4. b < Offset(c, f) + ExpectedSize(t, c, f)
  <2>1. CASE f + 1 \in Parts(t, c)
    <3>1. Offset(c, f) + ExpectedSize(t, c, f) = Offset(c, f + 1)
      BY <1>1, <2>1, PartsEndToEnd
    <3>2. Offset(c, f + 1) = Offset(c, f) + c
      BY <1>2 DEF Offset
    <3> QED BY <1>1, <3>1, <3>2
  <2>2. CASE f + 1 \notin Parts(t, c)
    <3>1. Offset(c, f) + ExpectedSize(t, c, f) = t
      BY <1>1, <2>2, PartsEndToEnd
    <3> QED BY <3>1
  <2> QED BY <2>1, <2>2
<1>5. b \in Bytes(Offset(c, f), ExpectedSize(t, c, f))
  BY <1>1, <1>3, <1>4 DEF Bytes
<1> QED BY <1>1, <1>5

\* Of two parts the earlier ends where the later begins, or before.
LEMMA PartsApart ==
    ASSUME NEW t \in Nat \ {0}, NEW c \in Nat \ {0},
           NEW p \in Parts(t, c), NEW q \in Parts(t, c), p < q
    PROVE  Bytes(Offset(c, p), ExpectedSize(t, c, p))
             \cap Bytes(Offset(c, q), ExpectedSize(t, c, q)) = {}
<1>1. p \in Nat /\ q \in Nat
  <2>1. t \div c \in Nat
    BY DivMod
  <2> QED BY <2>1, CountOfParts DEF Parts
<1>2. c * (p + 1) <= c * q
  BY <1>1, TimesMonotone
<1>3. Offset(c, p) + c <= Offset(c, q)
  BY <1>1, <1>2 DEF Offset
<1>4. /\ Offset(c, p) \in Nat /\ ExpectedSize(t, c, p) \in 1 .. c
      /\ Offset(c, q) \in Nat /\ ExpectedSize(t, c, q) \in 1 .. c
  BY PartWithin
<1> QED BY <1>3, <1>4 DEF Bytes

-----------------------------------------------------------------------------
\* What stays true of an upload on the share: a write ends within the upload; an
\* attempt that trusted no gap has all bytes before the part it writes next; and
\* the next part begins where the last one it wrote ends.
TypesInv ==
    /\ total \in Nat \ {0} /\ chunk \in Nat \ {0}
    /\ base \in Bases /\ target \in Targets
    /\ eof \in 0 .. total /\ bytes \subseteq 0 .. eof - 1
    /\ stream \in [next : 0 .. TotalPartsOf(total, chunk), at : Nat, sound : BOOLEAN]

StreamInv ==
    /\ stream.at = IF stream.next \in Parts(total, chunk) THEN Offset(chunk, stream.next) ELSE total
    /\ state = "streaming" /\ stream.sound => 0 .. stream.at - 1 \subseteq bytes

LayoutInv == TypesInv /\ StreamInv /\ ResumeCompletes

\* There is a part, and the parts are counted from 0.
LEMMA SomePart ==
    ASSUME NEW t \in Nat \ {0}, NEW c \in Nat \ {0}
    PROVE  /\ TotalPartsOf(t, c) \in Nat \ {0}
           /\ Parts(t, c) = 0 .. TotalPartsOf(t, c) - 1
<1>1. t \div c \in Nat /\ t = c * (t \div c) + (t % c)
  BY DivMod
<1>2. TotalPartsOf(t, c) \in Nat
  BY <1>1, CountOfParts
<1>3. 0 \in 0 .. t - 1
  OBVIOUS
<1>4. FirstMissingPart(0, c) \in Parts(t, c)
  BY <1>3, ResumeLeavesNoGap
<1> QED BY <1>2, <1>4 DEF Parts

LEMMA LayoutInit == Init => LayoutInv
<1> SUFFICES ASSUME Init PROVE LayoutInv
  OBVIOUS
<1>1. total \in Nat \ {0} /\ chunk \in Nat \ {0} /\ base \in Bases /\ target \in Targets
  BY BoundsAssumption DEF Init
<1>2. TotalPartsOf(total, chunk) \in Nat \ {0} /\ 0 \in Parts(total, chunk)
  BY <1>1, SomePart
<1>3. bytes = {} /\ eof = 0 /\ stream = [next |-> 0, at |-> 0, sound |-> TRUE]
  BY DEF Init
<1>4. TypesInv
  BY <1>1, <1>2, <1>3 DEF TypesInv
<1>5. StreamInv
  BY <1>1, <1>2, <1>3 DEF StreamInv, Offset, Init
<1> QED BY <1>4, <1>5 DEF LayoutInv, ResumeCompletes, Init

\* A write that ends within the upload keeps the end of file and the bytes there.
LEMMA WriteWithin ==
    ASSUME NEW t \in Nat, NEW e \in 0 .. t, NEW e1, NEW there \in SUBSET (0 .. e - 1), NEW there1,
           NEW from \in Nat, NEW n \in Nat \ {0}, from + n <= t,
           there1 = there \cup (from .. from + n - 1),
           e1 = IF e < from + n THEN from + n ELSE e
    PROVE  /\ e1 \in 0 .. t /\ there1 \subseteq 0 .. e1 - 1
           /\ there \subseteq there1
           /\ from .. from + n - 1 \subseteq there1
  OBVIOUS

LEMMA WriteKeeps ==
    ASSUME TypesInv, NEW from \in Nat, NEW n \in Nat \ {0}, from + n <= total,
           WriteBytes(from, n)
    PROVE  /\ eof' \in 0 .. total /\ bytes' \subseteq 0 .. eof' - 1
           /\ bytes \subseteq bytes'
           /\ from .. from + n - 1 \subseteq bytes'
<1>1. bytes' = bytes \cup (from .. from + n - 1) /\ eof' = IF eof < from + n THEN from + n ELSE eof
  BY DEF WriteBytes, Bytes
<1>2. total \in Nat /\ eof \in 0 .. total /\ bytes \in SUBSET (0 .. eof - 1)
  BY DEF TypesInv
<1> QED BY <1>1, <1>2, WriteWithin

LEMMA LayoutStep == LayoutInv /\ [Next]_layoutVars => LayoutInv'
<1> SUFFICES ASSUME LayoutInv, [Next]_layoutVars PROVE LayoutInv'
  OBVIOUS
<1> USE DEF LayoutInv
<1>1. total \in Nat \ {0} /\ chunk \in Nat \ {0}
  BY DEF TypesInv
<1>2. UNCHANGED parameters
  BY DEF Next, layoutVars, SyncPart, Attempt, StreamPart, StreamFails, Rename, Delete
<1>3. total' = total /\ chunk' = chunk /\ base' = base /\ target' = target
  BY <1>2 DEF parameters
<1> DEFINE n == TotalPartsOf(total, chunk)
<1>4. n \in Nat \ {0} /\ Parts(total, chunk) = 0 .. n - 1
  BY <1>1, SomePart
<1>5. ASSUME NEW p \in Parts(total, chunk), NEW k \in 1 .. Size(p), SyncPart(p, k)
      PROVE  LayoutInv'
  <2>1. Offset(chunk, p) \in Nat /\ Size(p) \in Nat /\ Offset(chunk, p) + Size(p) <= total
    BY <1>1, PartWithin DEF Size
  <2>2. k \in Nat \ {0} /\ Offset(chunk, p) + k <= total /\ WriteBytes(Offset(chunk, p), k)
    BY <1>1, <1>5, <2>1 DEF SyncPart
  <2>3. eof' \in 0 .. total /\ bytes' \subseteq 0 .. eof' - 1 /\ bytes \subseteq bytes'
    BY <2>1, <2>2, WriteKeeps
  <2>4. stream' = stream /\ state' = state /\ state # "final"
    BY <1>5 DEF SyncPart
  <2>5. TypesInv'
    BY <1>3, <2>3, <2>4 DEF TypesInv
  <2>6. StreamInv'
    BY <1>3, <2>3, <2>4 DEF StreamInv
  <2> QED BY <2>4, <2>5, <2>6 DEF ResumeCompletes
<1>6. CASE Attempt
  <2>1. PICK size \in {eof, 0} :
          stream' = [next  |-> IF size >= total THEN n ELSE FirstMissingPart(size, chunk),
                     at    |-> IF size >= total THEN size
                               ELSE Offset(chunk, FirstMissingPart(size, chunk)),
                     sound |-> 0 .. size - 1 \subseteq bytes]
    BY <1>6 DEF Attempt
  <2>2. bytes' = bytes /\ eof' = eof /\ state' = "streaming"
    BY <1>6 DEF Attempt
  <2>3. size \in 0 .. total
    BY <1>1 DEF TypesInv
  <2>4. stream'.sound \in BOOLEAN /\ (stream'.sound => 0 .. size - 1 \subseteq bytes)
    BY <2>1
  <2>5. CASE size >= total
    <3>1. stream'.next = n /\ stream'.at = total /\ size = total
      BY <1>1, <2>1, <2>3, <2>5
    <3>2. stream' \in [next : 0 .. n, at : Nat, sound : BOOLEAN]
      BY <1>1, <1>4, <2>1, <2>3, <2>5
    <3>3. TypesInv'
      BY <1>3, <2>2, <3>2 DEF TypesInv
    <3>4. n \notin Parts(total, chunk)
      BY <1>4
    <3>5. StreamInv'
      BY <1>3, <2>2, <2>4, <3>1, <3>4 DEF StreamInv
    <3> QED BY <2>2, <3>3, <3>5 DEF ResumeCompletes
  <2>6. CASE size < total
    <3> DEFINE first == FirstMissingPart(size, chunk)
    <3>1. stream' = [next |-> first, at |-> Offset(chunk, first), sound |-> 0 .. size - 1 \subseteq bytes]
      BY <1>1, <2>1, <2>3, <2>6
    <3>2. size \in 0 .. total - 1
      BY <1>1, <2>3, <2>6
    <3>3. first \in Parts(total, chunk) /\ Offset(chunk, first) <= size
      BY <1>1, <3>2, ResumeLeavesNoGap
    <3>4. first \in 0 .. n /\ Offset(chunk, first) \in Nat
      BY <1>1, <1>4, <3>3 DEF Offset
    <3> HIDE DEF first
    <3>5. stream' \in [next : 0 .. n, at : Nat, sound : BOOLEAN]
      BY <3>1, <3>4
    <3>6. TypesInv'
      BY <1>3, <2>2, <3>5 DEF TypesInv
    <3>7. 0 .. Offset(chunk, first) - 1 \subseteq 0 .. size - 1
      BY <3>2, <3>3, <3>4
    <3>8. StreamInv'
      BY <1>3, <2>2, <3>1, <3>3, <3>7 DEF StreamInv
    <3> QED BY <2>2, <3>6, <3>8 DEF ResumeCompletes
  <2> QED BY <1>1, <2>3, <2>5, <2>6
<1>7. CASE StreamPart
  <2> DEFINE p == stream.next
  <2>1. p \in Parts(total, chunk) /\ state = "streaming" /\ state' = state
    BY <1>7 DEF StreamPart
  <2>2. stream' = [next |-> p + 1, at |-> stream.at + Size(p), sound |-> stream.sound]
    BY <1>7 DEF StreamPart, TypesInv
  <2>3. stream.at = Offset(chunk, p)
    BY <2>1 DEF StreamInv
  <2>4. /\ Offset(chunk, p) \in Nat /\ Size(p) \in Nat \ {0} /\ Offset(chunk, p) + Size(p) <= total
    BY <1>1, <2>1, PartWithin DEF Size
  <2>5. Offset(chunk, p) + Size(p) = IF p + 1 \in Parts(total, chunk) THEN Offset(chunk, p + 1) ELSE total
    BY <1>1, <2>1, PartsEndToEnd DEF Size
  <2>6. WriteBytes(stream.at, Size(p))
    BY <1>7 DEF StreamPart
  <2>7. /\ eof' \in 0 .. total /\ bytes' \subseteq 0 .. eof' - 1 /\ bytes \subseteq bytes'
        /\ stream.at .. stream.at + Size(p) - 1 \subseteq bytes'
    BY <2>3, <2>4, <2>6, WriteKeeps
  <2>8. p + 1 \in 0 .. n
    BY <1>4, <2>1
  <2>9. stream.sound \in BOOLEAN
    BY DEF TypesInv
  <2> HIDE DEF p
  <2>10. stream' \in [next : 0 .. n, at : Nat, sound : BOOLEAN]
    BY <2>2, <2>3, <2>4, <2>8, <2>9
  <2>11. TypesInv'
    BY <1>3, <2>7, <2>10 DEF TypesInv
  <2>12. ASSUME NEW end, end = stream.at + Size(p), stream.sound
         PROVE  0 .. end - 1 \subseteq bytes'
    <3>1. SUFFICES ASSUME NEW b \in 0 .. end - 1 PROVE b \in bytes'
      OBVIOUS
    <3>2. stream.at \in Nat /\ end \in Nat
      BY <2>3, <2>4, <2>12
    <3>3. CASE b < stream.at
      <4>1. b \in 0 .. stream.at - 1
        BY <3>2, <3>3
      <4> QED BY <2>1, <2>7, <2>12, <4>1 DEF StreamInv
    <3>4. CASE b >= stream.at
      <4>1. b \in stream.at .. end - 1
        BY <3>2, <3>4
      <4>2. Size(p) \in Nat /\ stream.at .. stream.at + Size(p) - 1 \subseteq bytes'
        BY <2>4, <2>7
      <4> QED BY <2>12, <3>2, <4>1, <4>2
    <3> QED BY <3>2, <3>3, <3>4
  <2>13. StreamInv'
    <3>1. /\ stream'.next = p + 1 /\ stream'.at = stream.at + Size(p)
          /\ stream'.sound = stream.sound
      BY <2>2
    <3>2. stream'.at = IF stream'.next \in Parts(total, chunk)
                        THEN Offset(chunk, stream'.next) ELSE total
      BY <2>3, <2>5, <3>1
    <3>3. stream'.sound => 0 .. stream'.at - 1 \subseteq bytes'
      BY <2>12, <3>1
    <3> QED BY <1>3, <3>2, <3>3 DEF StreamInv
  <2> QED BY <2>1, <2>11, <2>13 DEF ResumeCompletes
<1>8. CASE StreamFails
  <2>1. state' = "partial" /\ stream' = stream
    BY <1>8 DEF StreamFails
  <2>2. eof' \in 0 .. total /\ bytes' \subseteq 0 .. eof' - 1
    <3>1. CASE UNCHANGED <<bytes, eof>>
      BY <3>1 DEF TypesInv
    <3>2. CASE /\ stream.next \in Parts(total, chunk)
               /\ \E k \in 1 .. Size(stream.next) : WriteBytes(stream.at, k)
      <4>1. PICK k \in 1 .. Size(stream.next) : WriteBytes(stream.at, k)
        BY <3>2
      <4>2. stream.at = Offset(chunk, stream.next)
        BY <3>2 DEF StreamInv
      <4>3. /\ stream.at \in Nat /\ Size(stream.next) \in Nat
            /\ stream.at + Size(stream.next) <= total
        BY <1>1, <3>2, <4>2, PartWithin DEF Size
      <4>4. k \in Nat \ {0} /\ stream.at + k <= total
        BY <1>1, <4>1, <4>3
      <4> QED BY <4>1, <4>3, <4>4, WriteKeeps
    <3> QED BY <1>8, <3>1, <3>2 DEF StreamFails
  <2>3. TypesInv'
    BY <1>3, <2>1, <2>2 DEF TypesInv
  <2>4. StreamInv'
    BY <1>3, <2>1 DEF StreamInv
  <2> QED BY <2>1, <2>3, <2>4 DEF ResumeCompletes
<1>9. CASE Rename
  <2>1. /\ state = "streaming" /\ stream.next = n
        /\ state' = IF stream.sound THEN "final" ELSE "gapped"
        /\ bytes' = bytes /\ eof' = eof /\ stream' = stream
    BY <1>9 DEF Rename
  <2>2. TypesInv'
    BY <1>3, <2>1 DEF TypesInv
  <2>3. StreamInv'
    BY <1>3, <2>1 DEF StreamInv
  <2>4. ASSUME stream.sound PROVE bytes = 0 .. total - 1 /\ eof = total
    <3>1. stream.at = total
      BY <1>4, <2>1 DEF StreamInv
    <3>2. 0 .. total - 1 \subseteq bytes
      BY <2>1, <2>4, <3>1 DEF StreamInv
    <3>3. eof \in 0 .. total /\ bytes \subseteq 0 .. eof - 1
      BY DEF TypesInv
    <3>4. total - 1 \in 0 .. eof - 1
      BY <1>1, <3>2, <3>3
    <3>5. eof = total
      BY <1>1, <3>3, <3>4
    <3> QED BY <3>2, <3>3, <3>5
  <2>5. ResumeCompletes'
    BY <1>3, <2>1, <2>4 DEF ResumeCompletes
  <2> QED BY <2>2, <2>3, <2>5
<1>10. CASE Delete
  <2>1. state' \notin {"final", "streaming"} /\ bytes' = bytes /\ eof' = eof /\ stream' = stream
    BY <1>10 DEF Delete
  <2>2. TypesInv'
    BY <1>3, <2>1 DEF TypesInv
  <2>3. StreamInv'
    BY <1>3, <2>1 DEF StreamInv
  <2> QED BY <2>1, <2>2, <2>3 DEF ResumeCompletes
<1>11. CASE UNCHANGED layoutVars
  BY <1>11 DEF layoutVars, parameters, TypesInv, StreamInv, ResumeCompletes
<1> QED BY <1>5, <1>6, <1>7, <1>8, <1>9, <1>10, <1>11 DEF Next

\* Wherever syncs and attempts broke off, in whatever order, and however long the
\* upload: the file that is renamed is whole, unless the last attempt trusted a
\* gap.
THEOREM FinalFileWhole == Spec => []ResumeCompletes
<1>1. LayoutInv => ResumeCompletes
  BY DEF LayoutInv
<1> QED BY <1>1, LayoutInit, LayoutStep, PTL DEF Spec

\* The sizes in the tokens tile the file of every upload.
THEOREM TokensTile == Spec => []PartsTile
<1>1. LayoutInv => PartsTile
  <2>1. SUFFICES ASSUME total \in Nat \ {0}, chunk \in Nat \ {0} PROVE PartsTile
    BY DEF LayoutInv, TypesInv
  <2>2. ASSUME NEW p \in Parts(total, chunk)
        PROVE  Bytes(Offset(chunk, p), Size(p)) \subseteq 0 .. total - 1
    <3>1. /\ Offset(chunk, p) \in Nat /\ Size(p) \in Nat
          /\ Offset(chunk, p) + Size(p) <= total
      BY <2>1, PartWithin DEF Size
    <3> QED BY <2>1, <3>1 DEF Bytes
  <2>3. ASSUME NEW b \in 0 .. total - 1
        PROVE  \E p \in Parts(total, chunk) : b \in Bytes(Offset(chunk, p), Size(p))
    BY <2>1, <2>3, PartOfByte DEF Size
  <2>4. UNION {Bytes(Offset(chunk, p), Size(p)) : p \in Parts(total, chunk)} = 0 .. total - 1
    BY <2>2, <2>3
  <2>5. ASSUME NEW p \in Parts(total, chunk), NEW q \in Parts(total, chunk), p # q
        PROVE  Bytes(Offset(chunk, p), Size(p)) \cap Bytes(Offset(chunk, q), Size(q)) = {}
    <3>1. p \in Nat /\ q \in Nat
      <4>1. Parts(total, chunk) = 0 .. TotalPartsOf(total, chunk) - 1
        BY <2>1, SomePart
      <4> QED BY <4>1
    <3>2. p < q \/ q < p
      BY <2>5, <3>1
    <3>3. ASSUME p < q PROVE Bytes(Offset(chunk, p), Size(p)) \cap Bytes(Offset(chunk, q), Size(q)) = {}
      BY <2>1, <3>3, PartsApart DEF Size
    <3>4. ASSUME q < p PROVE Bytes(Offset(chunk, p), Size(p)) \cap Bytes(Offset(chunk, q), Size(q)) = {}
      BY <2>1, <3>4, PartsApart DEF Size
    <3> QED BY <3>2, <3>3, <3>4
  <2> QED BY <2>4, <2>5 DEF PartsTile
<1> QED BY <1>1, LayoutInit, LayoutStep, PTL DEF Spec

-----------------------------------------------------------------------------
\* delete_file makes another path of the one it is given only of the names that
\* repeat the base path.
LEMMA PathsThatDiffer ==
    ASSUME NEW b \in Bases, NEW d \in Targets,
           NormalizedPath(b, ResponsePath(d, FileName)) # StoredPath(b, d, FileName)
    PROVE  /\ b # <<>>
           /\ \/ IsPrefix(b, Directory(d))
              \/ FilesBase(b) /\ IsPrefix(<<"files">>, Directory(d))
<1> DEFINE D == Directory(d)
           path == D \o <<FileName>>
           Name == STRING \cup {FileName, "files"}
<1>1. b \in Seq(Name) /\ (\A i \in DOMAIN b : b[i] # FileName)
  BY NamesAssumption
<1>2. D \in Seq(Name)
  <2>1. CASE d = NoTarget
    BY <2>1 DEF Directory
  <2>2. CASE d # NoTarget
    BY <2>2, NamesAssumption DEF Directory
  <2> QED BY <2>1, <2>2
<1>3. FileName \in Name /\ FileName # "files"
  BY DEF FileName
<1>4. ResponsePath(d, FileName) = path /\ StoredPath(b, d, FileName) = (b \o D) \o <<FileName>>
  BY DEF ResponsePath, StoredPath
<1> HIDE DEF D, Name
<1>5. /\ path \in Seq(Name) /\ Len(path) = Len(D) + 1
      /\ path[Len(D) + 1] = FileName
      /\ \A i \in 1 .. Len(D) : path[i] = D[i]
  BY <1>2, <1>3
<1>6. (b \o D) \o <<FileName>> = b \o path
  BY <1>1, <1>2, <1>3
<1>7. CASE IsPrefix(b, path)
  <2>1. NormalizedPath(b, path) = path
    BY <1>7 DEF NormalizedPath
  <2>2. b # <<>>
    <3>1. SUFFICES ASSUME b = <<>> PROVE FALSE
      OBVIOUS
    <3>2. b \o path = path
      BY <1>5, <3>1
    <3> QED BY <1>4, <1>6, <2>1, <3>2
  <2>3. Len(b) <= Len(path) /\ SubSeq(b, 1, Len(b)) = SubSeq(path, 1, Len(b))
    BY <1>7 DEF IsPrefix
  <2>4. \A i \in 1 .. Len(b) : b[i] = path[i]
    BY <1>1, <1>5, <2>3
  <2>5. Len(b) <= Len(D)
    <3>1. SUFFICES ASSUME Len(b) = Len(D) + 1 PROVE FALSE
      BY <1>1, <1>2, <1>5, <2>3
    <3>2. Len(b) \in DOMAIN b /\ Len(b) \in 1 .. Len(b)
      BY <1>1, <1>2, <3>1
    <3> QED BY <1>1, <1>5, <2>4, <3>1, <3>2
  <2>6. \A i \in 1 .. Len(b) : b[i] = D[i]
    BY <1>1, <1>2, <1>5, <2>4, <2>5
  <2>7. SubSeq(b, 1, Len(b)) = SubSeq(D, 1, Len(b))
    BY <1>1, <1>2, <2>5, <2>6
  <2>8. IsPrefix(b, D)
    BY <2>5, <2>7 DEF IsPrefix
  <2> QED BY <2>2, <2>8 DEF D
<1>8. CASE ~IsPrefix(b, path) /\ FilesBase(b) /\ path[1] = "files"
  <2>1. Len(D) >= 1 /\ D[1] = "files"
    BY <1>2, <1>3, <1>5, <1>8
  <2>2. IsPrefix(<<"files">>, D)
    BY <1>2, <2>1 DEF IsPrefix
  <2> QED BY <1>8, <2>2 DEF D, FilesBase
<1>9. CASE ~IsPrefix(b, path) /\ ~(FilesBase(b) /\ path[1] = "files")
  <2>1. NormalizedPath(b, path) = b \o path
    BY <1>9 DEF NormalizedPath
  <2> QED BY <1>4, <1>6, <2>1
<1> QED BY <1>7, <1>8, <1>9

\* Whatever the base path and the client's directory are, a cancel leaves the
\* final file only for names that repeat the base path.
THEOREM DeleteMissesOnlyRepeats == Spec => []DeleteFindsFile
<1> DEFINE Names == base \in Bases /\ target \in Targets
<1>1. Init => Names /\ DeleteFindsFile
  BY DEF Init, DeleteFindsFile
<1>2. Names /\ DeleteFindsFile /\ [Next]_layoutVars => (Names /\ DeleteFindsFile)'
  <2> SUFFICES ASSUME Names, DeleteFindsFile, [Next]_layoutVars
               PROVE  (Names /\ DeleteFindsFile)'
    OBVIOUS
  <2>1. base' = base /\ target' = target
    BY DEF Next, layoutVars, parameters, SyncPart, Attempt, StreamPart, StreamFails, Rename, Delete
  <2>2. CASE Delete
    <3>1. CASE state' = "missed"
      <4>1. NormalizedPath(base, ResponsePath(target, FileName)) # StoredPath(base, target, FileName)
        BY <2>2, <3>1 DEF Delete
      <4> QED BY <2>1, <4>1, PathsThatDiffer DEF DeleteFindsFile
    <3>2. CASE state' # "missed"
      BY <2>1, <3>2 DEF DeleteFindsFile
    <3> QED BY <3>1, <3>2
  <2>3. CASE ~Delete
    <3>1. state' = "missed" => state = "missed"
      BY <2>3 DEF Next, layoutVars, SyncPart, Attempt, StreamPart, StreamFails, Rename
    <3> QED BY <2>1, <3>1 DEF DeleteFindsFile
  <2> QED BY <2>2, <2>3
<1> QED BY <1>1, <1>2, PTL DEF Spec
=============================================================================

----------------------------- MODULE PrdtProofs -----------------------------
(***************************************************************************)
(* The descriptor table is what it should be, modulo the range of a 32-bit *)
(* address, for every boundary, address space, size of the table, count    *)
(* and 64-bit address of the buffer, whatever the DMA memory held at first *)
(* and whatever earlier commands left in it; and for a buffer within the   *)
(* 32-bit addresses it describes the transfer to its last byte.            *)
(***************************************************************************)
EXTENDS Prdt, TLAPS

\* A remainder is below the divisor.
LEMMA RemainderBelow ==
  ASSUME NEW a \in Nat, NEW b \in Nat, b > 0
  PROVE  a % b \in 0..(b - 1)
OBVIOUS

\* A count that fits is stored as it is, and a full boundary as 0.
LEMMA StoredCount ==
  ASSUME NEW b \in Nat, NEW n \in 1..b
  PROVE  n % b = IF n = b THEN 0 ELSE n
OBVIOUS

\* The wrap of a sum is its remainder.
LEMMA WrapRemainder ==
  ASSUME NEW n \in Nat, n < 2 * AddressSpace
  PROVE  /\ n % AddressSpace = Wrap(n)
         /\ Wrap(n) \in 0..(AddressSpace - 1)
<1>1. AddressSpace \in Nat /\ AddressSpace > 0
  BY PrdtAssumption
<1>2. ASSUME NEW q \in Int, NEW rest \in 0..(AddressSpace - 1),
             n = q * AddressSpace + rest
      PROVE  n % AddressSpace = rest
  BY <1>1, <1>2
<1>3. CASE n < AddressSpace
  <2>1. n = 0 * AddressSpace + n
    BY <1>1
  <2> QED
    BY <1>1, <1>2, <1>3, <2>1 DEF Wrap
<1>4. CASE n >= AddressSpace
  <2>1. n = 1 * AddressSpace + (n - AddressSpace)
    BY <1>1
  <2> QED
    BY <1>1, <1>2, <1>4, <2>1 DEF Wrap
<1> QED
  BY <1>1, <1>3, <1>4

\* The buffer begins somewhere in the 32-bit addresses, as the table sees it.
LEMMA StartFacts ==
  ASSUME TypeOK
  PROVE  /\ Start \in 0..(AddressSpace - 1)
         /\ Start = Truncate(base)
         /\ base < AddressSpace => Start = base
<1>1. base \in Nat /\ AddressSpace \in Nat /\ AddressSpace > 0
  BY PrdtAssumption DEF TypeOK, Bases
<1>2. base < AddressSpace => base % AddressSpace = base
  <2> SUFFICES ASSUME base < AddressSpace PROVE base % AddressSpace = base
    OBVIOUS
  <2>1. base % AddressSpace = Wrap(base)
    BY <1>1, WrapRemainder
  <2> QED
    BY <2>1 DEF Wrap
<1> QED
  BY <1>1, <1>2, RemainderBelow DEF Start, Truncate

\* Less than the address space is ever moved, so an address wraps at most once.
LEMMA MovedBound ==
  ASSUME NEW s \in 0..(AddressSpace - 1), NEW n \in 0..MaxCount,
         NEW rest \in Nat, rest <= n
  PROVE  s + (n - rest) \in Nat /\ s + (n - rest) < 2 * AddressSpace
BY PrdtAssumption

\* The piece a turn takes is what is left up to the boundary or to the end of
\* the transfer, whichever comes first.
LEMMA PieceFacts ==
  ASSUME TypeOK
  PROVE  /\ MaxPiece(prdt_address) \in 1..Boundary
         /\ Piece \in 0..Boundary
         /\ Piece <= prdt_count
         /\ Piece <= MaxPiece(prdt_address)
         /\ prdt_count > 0 => Piece > 0
<1>1. prdt_address % Boundary \in 0..(Boundary - 1)
  BY PrdtAssumption, RemainderBelow DEF TypeOK
<1>2. MaxPiece(prdt_address) \in 1..Boundary
  BY <1>1, PrdtAssumption DEF MaxPiece
<1> QED
  BY <1>2, PrdtAssumption DEF Piece, TypeOK

-----------------------------------------------------------------------------
(***************************************************************************)
(* Inside the loop: the entries before i are right and lead up to          *)
(* prdt_address; from there on, prdt_count bytes are left.                 *)
(***************************************************************************)
Filling == pc = "fill" /\ count > 0

\* The bytes that descriptors cover.
Moved == count - prdt_count

RestInv ==
  Filling =>
    /\ prdt_count > 0
    /\ prdt_count <= count
    /\ prdt_address = Wrap(Start + Moved)

\* Entry k begins where the one before ends.
Follows(k) ==
  prdt[k].address = (prdt[k-1].address + Size(prdt[k-1])) % AddressSpace

ChainInv ==
  Filling =>
    /\ i = 0 => prdt_address = Start
    /\ i > 0 =>
         /\ prdt[0].address = Start
         /\ prdt_address = (prdt[i-1].address + Size(prdt[i-1])) % AddressSpace
    /\ \A k \in 1..(i-1) : Follows(k)

BoundaryInv ==
  Filling =>
    \A k \in 0..(i-1) : (prdt[k].address % Boundary) + Size(prdt[k]) <= Boundary

\* Without a byte to move, the loop ends in its first turn.
EmptyInv ==
  pc = "fill" /\ count = 0 => i = 0 /\ prdt_count = 0

PrdtInv ==
  /\ TypeOK
  /\ RestInv
  /\ ChainInv
  /\ BoundaryInv
  /\ EmptyInv
  /\ Contiguous
  /\ CoversCount
  /\ WithinBoundary

\* What a turn of the loop leaves in entry i, and what it keeps.
LEMMA WrittenPrd ==
  ASSUME TypeOK, prdt_count > 0, NEW r \in SUBSET ReservedBits, WritePrd(r)
  PROVE  /\ prdt'[i].address = prdt_address
         /\ Size(prdt'[i]) = Piece
         /\ (prdt'[i].address % Boundary) + Size(prdt'[i]) <= Boundary
         /\ \A k \in 0..(NumPrds - 1) : k # i => prdt'[k] = prdt[k]
         /\ prdt' \in [0..(NumPrds - 1) -> Prd]
<1>1. Piece \in 1..Boundary /\ Piece <= MaxPiece(prdt_address)
  BY PieceFacts, PrdtAssumption DEF TypeOK
<1>2. prdt'[i] = [address |-> prdt_address, count |-> Piece % Boundary,
                  reserved |-> r]
  BY DEF WritePrd, TypeOK
<1>3. Piece % Boundary = IF Piece = Boundary THEN 0 ELSE Piece
  BY <1>1, StoredCount, PrdtAssumption
<1>4. Size(prdt'[i]) = Piece
  BY <1>1, <1>2, <1>3 DEF Size
<1>5. prdt_address % Boundary \in 0..(Boundary - 1)
  BY PrdtAssumption, RemainderBelow DEF TypeOK
<1>6. (prdt'[i].address % Boundary) + Size(prdt'[i]) <= Boundary
  BY <1>1, <1>2, <1>4, <1>5, PrdtAssumption DEF MaxPiece
<1>7. \A k \in 0..(NumPrds - 1) : k # i => prdt'[k] = prdt[k]
  BY DEF WritePrd, TypeOK
<1>8. prdt'[i] \in Prd
  <2>1. Piece % Boundary \in 0..(Boundary - 1)
    BY <1>1, RemainderBelow, PrdtAssumption
  <2>2. prdt_address \in 0..(AddressSpace - 1)
    BY DEF TypeOK
  <2> QED
    BY <1>2, <2>1, <2>2 DEF Prd
<1>9. prdt' \in [0..(NumPrds - 1) -> Prd]
  BY <1>2, <1>8 DEF WritePrd, TypeOK
<1> QED
  BY <1>2, <1>4, <1>6, <1>7, <1>9

LEMMA InitPrdtInv == Init => PrdtInv
<1> SUFFICES ASSUME Init PROVE PrdtInv
  OBVIOUS
<1>1. TypeOK
  BY PrdtAssumption DEF Init, TypeOK
<1> QED
  BY <1>1
  DEF Init, PrdtInv, RestInv, ChainInv, BoundaryInv, EmptyInv, Filling,
      Contiguous, CoversCount, WithinBoundary, Prepared

\* The start of a preparation: no entry is written yet.
LEMMA PreparePrdtInv ==
  ASSUME PrdtInv, NEW n \in 0..MaxCount, Prepare(n)
  PROVE  PrdtInv'
<1>0. TypeOK /\ Start \in 0..(AddressSpace - 1) /\ prdt_address' = Start
  BY StartFacts DEF PrdtInv, Prepare
<1>1. /\ count' = n /\ i' = 0 /\ prdt_count' = n /\ pc' = "fill"
      /\ UNCHANGED <<prdt, base>>
  BY DEF Prepare
<1>2. TypeOK'
  BY <1>0, <1>1, PrdtAssumption DEF TypeOK
<1>3. Start' = Start
  BY <1>1 DEF Start
<1>4. RestInv'
  <2>1. Moved' = 0
    BY <1>1 DEF Moved
  <2>2. Wrap(Start + 0) = Start
    BY <1>0, PrdtAssumption DEF Wrap
  <2>3. (Wrap(Start + Moved))' = Wrap(Start + 0)
    BY <1>3, <2>1 DEF Wrap
  <2> QED
    BY <1>0, <1>1, <2>2, <2>3 DEF RestInv, Filling
<1>5. ChainInv' /\ BoundaryInv' /\ EmptyInv'
  BY <1>0, <1>1, <1>3 DEF ChainInv, BoundaryInv, EmptyInv, Filling
<1>6. Contiguous' /\ CoversCount' /\ WithinBoundary'
  BY <1>1 DEF Contiguous, CoversCount, WithinBoundary, Prepared
<1> QED
  BY <1>2, <1>4, <1>5, <1>6 DEF PrdtInv

\* What a turn of the loop with something to cover does: the written entry lies
\* between the one before it and the address the turn leaves, which is again
\* where the bytes that are covered end.
LEMMA Turn ==
  ASSUME PrdtInv, Filling, prdt_count > 0,
         NEW r \in SUBSET ReservedBits, WritePrd(r), UNCHANGED <<base, count>>
  PROVE  /\ prdt'[i].address = prdt_address
         /\ Size(prdt'[i]) = Piece
         /\ prdt_address' = (prdt_address + Piece) % AddressSpace
         /\ prdt_address' = Wrap(Start + (count - prdt_count'))
         /\ prdt_address' \in 0..(AddressSpace - 1)
         /\ prdt_count' = prdt_count - Piece
         /\ prdt_count' \in 0..MaxCount /\ prdt_count' <= count
         /\ prdt' \in [0..(NumPrds - 1) -> Prd]
         /\ prdt'[0].address = Start
         /\ \A k \in 1..i : Follows(k)'
         /\ \A k \in 0..i :
              (prdt'[k].address % Boundary) + Size(prdt'[k]) <= Boundary
         /\ \A k \in 0..(NumPrds - 1) : k # i => prdt'[k] = prdt[k]
<1>0. TypeOK /\ i \in 0..(NumPrds - 1) /\ Start \in 0..(AddressSpace - 1)
  BY StartFacts DEF PrdtInv, TypeOK
<1>1. /\ prdt'[i].address = prdt_address
      /\ Size(prdt'[i]) = Piece
      /\ (prdt'[i].address % Boundary) + Size(prdt'[i]) <= Boundary
      /\ \A k \in 0..(NumPrds - 1) : k # i => prdt'[k] = prdt[k]
      /\ prdt' \in [0..(NumPrds - 1) -> Prd]
  BY <1>0, WrittenPrd
<1>2. Piece \in 1..Boundary /\ Piece <= prdt_count
  BY <1>0, PieceFacts, PrdtAssumption DEF TypeOK
<1>3. /\ prdt_count <= count /\ prdt_address = Wrap(Start + Moved)
      /\ ChainInv /\ BoundaryInv
  BY DEF PrdtInv, RestInv
<1>4. /\ prdt_address' = Wrap(prdt_address + Piece)
      /\ prdt_count' = prdt_count - Piece
  BY DEF WritePrd
<1>5. /\ prdt_count' \in 0..MaxCount /\ prdt_count' <= count
      /\ prdt_address + Piece \in Nat
      /\ prdt_address + Piece < 2 * AddressSpace
  BY <1>0, <1>2, <1>3, <1>4, PrdtAssumption DEF TypeOK
<1>6. /\ prdt_address' = (prdt_address + Piece) % AddressSpace
      /\ prdt_address' \in 0..(AddressSpace - 1)
  BY <1>4, <1>5, WrapRemainder
<1>7. prdt_address' = Wrap(Start + (count - prdt_count'))
  BY <1>0, <1>2, <1>3, <1>4, <1>5, PrdtAssumption DEF Wrap, Moved, TypeOK
<1>8. prdt'[0].address = Start /\ \A k \in 1..i : Follows(k)'
  <2>1. CASE i = 0
    BY <1>1, <1>3, <2>1 DEF ChainInv
  <2>2. CASE i > 0
    <3>1. prdt'[0] = prdt[0] /\ prdt'[i-1] = prdt[i-1]
      BY <1>0, <1>1, <2>2, PrdtAssumption
    <3>2. prdt'[i].address
            = (prdt'[i-1].address + Size(prdt'[i-1])) % AddressSpace
      BY <1>1, <1>3, <2>2, <3>1 DEF ChainInv, Follows
    <3>3. ASSUME NEW k \in 1..(i-1) PROVE Follows(k)'
      <4>1. prdt'[k] = prdt[k] /\ prdt'[k-1] = prdt[k-1]
        BY <1>0, <1>1, PrdtAssumption
      <4> QED
        BY <1>3, <4>1 DEF ChainInv, Follows
    <3> QED
      <4>1. ASSUME NEW k \in 1..i PROVE Follows(k)'
        <5>1. k = i \/ k \in 1..(i-1)
          BY <1>0
        <5> QED
          BY <3>2, <3>3, <5>1 DEF Follows
      <4> QED
        BY <1>3, <2>2, <3>1, <4>1 DEF ChainInv
  <2> QED
    BY <1>0, <2>1, <2>2
<1>9. \A k \in 0..i :
        (prdt'[k].address % Boundary) + Size(prdt'[k]) <= Boundary
  <2>1. ASSUME NEW k \in 0..(i-1)
        PROVE  (prdt'[k].address % Boundary) + Size(prdt'[k]) <= Boundary
    <3>1. prdt'[k] = prdt[k]
      BY <1>0, <1>1, PrdtAssumption
    <3> QED
      BY <1>3, <3>1 DEF BoundaryInv
  <2> QED
    BY <1>0, <1>1, <2>1
<1> QED
  BY <1>1, <1>4, <1>5, <1>6, <1>7, <1>8, <1>9

\* A turn after which the loop ends, because the table is full or nothing is
\* left: the three properties hold of the table.
LEMMA FinishedTurn ==
  ASSUME PrdtInv, Filling, prdt_count > 0,
         NEW r \in SUBSET ReservedBits, WritePrd(r),
         UNCHANGED <<base, count, i>>, pc' = "ready",
         i + 1 < NumPrds => prdt_count' = 0
  PROVE  PrdtInv'
<1>0. TypeOK /\ i \in 0..(NumPrds - 1) /\ Start \in 0..(AddressSpace - 1)
  BY StartFacts DEF PrdtInv, TypeOK
<1>1. /\ prdt'[i].address = prdt_address
      /\ Size(prdt'[i]) = Piece
      /\ prdt_address' = (prdt_address + Piece) % AddressSpace
      /\ prdt_address' = Wrap(Start + (count - prdt_count'))
      /\ prdt_address' \in 0..(AddressSpace - 1)
      /\ prdt_count' \in 0..MaxCount /\ prdt_count' <= count
      /\ prdt' \in [0..(NumPrds - 1) -> Prd]
      /\ prdt'[0].address = Start
      /\ \A k \in 1..i : Follows(k)'
      /\ \A k \in 0..i :
           (prdt'[k].address % Boundary) + Size(prdt'[k]) <= Boundary
  BY Turn
<1>2. TypeOK'
  BY <1>0, <1>1 DEF TypeOK
<1>3. RestInv' /\ ChainInv' /\ BoundaryInv' /\ EmptyInv'
  BY DEF RestInv, ChainInv, BoundaryInv, EmptyInv, Filling
<1>4. Contiguous'
  BY <1>1 DEF Contiguous, Start, Follows
<1>5. CoversCount'
  <2>1. Start + (count - prdt_count') \in Nat
        /\ Start + (count - prdt_count') < 2 * AddressSpace
    <3>1. prdt_count' \in Nat /\ prdt_count' <= count /\ count \in 0..MaxCount
      BY <1>0, <1>1 DEF TypeOK
    <3> QED
      BY <1>0, <3>1, MovedBound
  <2>2. prdt_address' = (Start + (count - prdt_count')) % AddressSpace
    BY <1>1, <2>1, WrapRemainder
  <2>3. (prdt'[i].address + Size(prdt'[i])) % AddressSpace = prdt_address'
    BY <1>1
  <2> QED
    BY <2>2, <2>3 DEF CoversCount, Start
<1>6. WithinBoundary'
  BY <1>1 DEF WithinBoundary
<1> QED
  BY <1>2, <1>3, <1>4, <1>5, <1>6 DEF PrdtInv

\* A turn that leaves something to cover.
LEMMA NextPrdPrdtInv ==
  ASSUME PrdtInv, NextPrd
  PROVE  PrdtInv'
<1>0. TypeOK /\ i \in 0..(NumPrds - 1)
  BY DEF PrdtInv, TypeOK
<1>1. /\ pc = "fill" /\ prdt_count > Piece /\ WritePrd({})
      /\ UNCHANGED <<base, count>>
      /\ {} \in SUBSET ReservedBits
  BY DEF NextPrd
<1>2. prdt_count > 0 /\ Filling
  <2>1. prdt_count > 0
    BY <1>0, <1>1, PieceFacts, PrdtAssumption DEF TypeOK
  <2>2. count # 0
    BY <1>1, <2>1 DEF PrdtInv, EmptyInv
  <2> QED
    BY <1>0, <1>1, <2>1, <2>2 DEF Filling, TypeOK
<1>3. CASE i + 1 < NumPrds /\ i' = i + 1 /\ pc' = "fill"
  <2>1. /\ prdt'[i].address = prdt_address
        /\ Size(prdt'[i]) = Piece
        /\ prdt_address' = (prdt_address + Piece) % AddressSpace
        /\ prdt_address' = Wrap(Start + (count - prdt_count'))
        /\ prdt_address' \in 0..(AddressSpace - 1)
        /\ prdt_count' = prdt_count - Piece
        /\ prdt_count' \in 0..MaxCount /\ prdt_count' <= count
        /\ prdt' \in [0..(NumPrds - 1) -> Prd]
        /\ prdt'[0].address = Start
        /\ \A k \in 1..i : Follows(k)'
        /\ \A k \in 0..i :
             (prdt'[k].address % Boundary) + Size(prdt'[k]) <= Boundary
    BY <1>1, <1>2, Turn
  <2>2. TypeOK'
    <3>1. i' \in 0..(NumPrds - 1)
      BY <1>0, <1>3, PrdtAssumption
    <3> QED
      BY <1>0, <1>1, <1>3, <2>1, <3>1 DEF TypeOK
  <2>3. prdt_count' > 0
    BY <1>0, <1>1, <2>1, PieceFacts, PrdtAssumption DEF TypeOK
  <2>4. RestInv' /\ EmptyInv'
    BY <1>1, <1>2, <2>1, <2>3
    DEF RestInv, EmptyInv, Filling, Moved, Start, Wrap
  <2>5. ChainInv'
    <3>1. i' > 0 /\ i' - 1 = i
      BY <1>0, <1>3, PrdtAssumption
    <3> QED
      BY <1>1, <2>1, <3>1 DEF ChainInv, Follows, Start
  <2>6. BoundaryInv'
    BY <1>0, <1>3, <2>1, PrdtAssumption DEF BoundaryInv
  <2>7. Contiguous' /\ CoversCount' /\ WithinBoundary'
    BY <1>3 DEF Contiguous, CoversCount, WithinBoundary, Prepared
  <2> QED
    BY <2>2, <2>4, <2>5, <2>6, <2>7 DEF PrdtInv
<1>4. CASE i + 1 = NumPrds /\ i' = i /\ pc' = "ready"
  <2>1. ~(i + 1 < NumPrds)
    BY <1>0, <1>4, PrdtAssumption
  <2> QED
    BY <1>1, <1>2, <1>4, <2>1, FinishedTurn
<1> QED
  BY <1>3, <1>4, <1>0, PrdtAssumption DEF NextPrd

\* The turn that ends the transfer.  Without a byte to move nothing is claimed.
LEMMA LastPrdPrdtInv ==
  ASSUME PrdtInv, LastPrd
  PROVE  PrdtInv'
<1>0. TypeOK
  BY DEF PrdtInv
<1>1. /\ pc = "fill" /\ prdt_count <= Piece
      /\ WritePrd(SetLast(prdt[i].reserved))
      /\ pc' = "ready"
      /\ UNCHANGED <<base, count, i>>
  BY DEF LastPrd
<1>2. Piece = prdt_count /\ Piece \in 0..Boundary
  BY <1>0, <1>1, PieceFacts, PrdtAssumption DEF TypeOK
<1>3. SetLast(prdt[i].reserved) \in SUBSET ReservedBits
  BY DEF SetLast
<1>4. CASE count = 0
  <2>1. prdt_count = 0
    BY <1>1, <1>4 DEF PrdtInv, EmptyInv
  <2>2. Piece = 0 /\ Piece % Boundary = 0
    BY <1>2, <2>1, PrdtAssumption
  <2>3. prdt' \in [0..(NumPrds - 1) -> Prd]
    BY <1>0, <1>1, <1>3, <2>2, PrdtAssumption DEF WritePrd, TypeOK, Prd
  <2>4. TypeOK'
    BY <1>0, <1>1, <2>1, <2>2, <2>3, PrdtAssumption
    DEF TypeOK, WritePrd, Wrap
  <2>5. Contiguous' /\ CoversCount' /\ WithinBoundary'
    BY <1>1, <1>4 DEF Contiguous, CoversCount, WithinBoundary, Prepared
  <2>6. RestInv' /\ ChainInv' /\ BoundaryInv' /\ EmptyInv'
    BY <1>1 DEF RestInv, ChainInv, BoundaryInv, EmptyInv, Filling
  <2> QED
    BY <2>4, <2>5, <2>6 DEF PrdtInv
<1>5. CASE count > 0
  <2>1. Filling /\ prdt_count > 0
    BY <1>1, <1>5 DEF PrdtInv, RestInv, Filling
  <2>2. prdt_count' = 0
    BY <1>0, <1>1, <1>2 DEF WritePrd, TypeOK
  <2> QED
    BY <1>1, <1>3, <2>1, <2>2, FinishedTurn
<1> QED
  BY <1>0, <1>4, <1>5 DEF TypeOK

-----------------------------------------------------------------------------
\* PrdtInv holds in every reachable state.
THEOREM PrdtInvariant == Spec => []PrdtInv
<1>1. PrdtInv /\ [Next]_vars => PrdtInv'
  <2> SUFFICES ASSUME PrdtInv, [Next]_vars PROVE PrdtInv'
    OBVIOUS
  <2>1. CASE UNCHANGED vars
    BY <2>1
    DEF vars, PrdtInv, TypeOK, RestInv, ChainInv, BoundaryInv, EmptyInv,
        Filling, Moved, Start, Wrap, Follows, Contiguous, CoversCount,
        WithinBoundary, Prepared, Size
  <2> QED
    BY <2>1, PreparePrdtInv, NextPrdPrdtInv, LastPrdPrdtInv DEF Next
<1> QED
  BY <1>1, InitPrdtInv, PTL DEF Spec

\* Every field keeps to its width: addresses to 32 bits, counts to 16.
THEOREM TypeCorrect == Spec => []TypeOK
<1>1. PrdtInv => TypeOK
  BY DEF PrdtInv
<1> QED
  BY <1>1, PrdtInvariant, PTL

\* Modulo 2^32, the descriptors of a prepared table are one unbroken run of
\* memory that begins at the DMA buffer.
THEOREM ContiguousHolds == Spec => []Contiguous
<1>1. PrdtInv => Contiguous
  BY DEF PrdtInv
<1> QED
  BY <1>1, PrdtInvariant, PTL

\* Modulo 2^32, they end where the transfer ends, unless the table is full.
THEOREM CoversCountHolds == Spec => []CoversCount
<1>1. PrdtInv => CoversCount
  BY DEF PrdtInv
<1> QED
  BY <1>1, PrdtInvariant, PTL

\* No descriptor of a prepared table crosses a boundary.
THEOREM WithinBoundaryHolds == Spec => []WithinBoundary
<1>1. PrdtInv => WithinBoundary
  BY DEF PrdtInv
<1> QED
  BY <1>1, PrdtInvariant, PTL

-----------------------------------------------------------------------------
(***************************************************************************)
(* A buffer within the 32-bit addresses.  How much the table holds: after  *)
(* its first descriptor every turn that does not end the transfer takes a  *)
(* full boundary.                                                          *)
(***************************************************************************)
Low == Start + count <= AddressSpace

StrideInv ==
  Filling /\ Low /\ i > 0 =>
    /\ prdt_address % Boundary = 0
    /\ Moved + (Start % Boundary) = i * Boundary

\* No address wraps before the last descriptor.
LowInv ==
  (Filling \/ Prepared) /\ Low =>
    \A k \in 0..(i-1) : prdt[k].address + Size(prdt[k]) < AddressSpace

\* The descriptors end where the bytes moved end, and a transfer that is cut
\* short did not fit the table.
FullInv ==
  Prepared /\ Low =>
    /\ prdt[i].address + Size(prdt[i]) = Start + Moved
    /\ prdt_count = 0 \/ (Start % Boundary) + count > NumPrds * Boundary

LowParts == StrideInv /\ LowInv /\ FullInv

LEMMA NextBoundary ==
  ASSUME NEW a \in Nat, NEW b \in Nat, b > 0 PROVE (a + (b - (a % b))) % b = 0
<1> DEFINE q == a \div b
           r == a % b
<1>1. q \in Nat /\ r \in 0..b - 1 /\ a = b * q + r
  OBVIOUS
<1> HIDE DEF q, r
<1>2. b * (q + 1) = b * q + b /\ b * q \in Int
  BY <1>1
<1>3. a + (b - r) = b * (q + 1)
  BY <1>1, <1>2
<1>4. \A m \in Nat : (b * m) % b = 0
  OBVIOUS
<1>5. (b * (q + 1)) % b = 0
  BY <1>1, <1>4
<1> QED
  BY <1>3, <1>5 DEF r

\* A turn with something to cover, of a buffer that does not wrap.
LEMMA LowTurn ==
  ASSUME PrdtInv, LowParts, Filling, Low, prdt_count > 0,
         NEW r \in SUBSET ReservedBits, WritePrd(r), UNCHANGED <<base, count>>
  PROVE  /\ prdt_address = Start + Moved
         /\ prdt'[i].address + Size(prdt'[i]) = Start + (count - prdt_count')
         /\ Start + (count - prdt_count') \in 0..AddressSpace
         /\ prdt_count' > 0 => Start + (count - prdt_count') < AddressSpace
         /\ \A k \in 0..(i-1) : prdt'[k].address + Size(prdt'[k]) < AddressSpace
<1>0. /\ Start \in 0..(AddressSpace - 1) /\ count \in 0..MaxCount
      /\ prdt_count \in 0..MaxCount /\ i \in 0..(NumPrds - 1) /\ TypeOK
      /\ prdt_address \in 0..(AddressSpace - 1)
  BY StartFacts DEF PrdtInv, TypeOK
<1>1. Piece \in 1..Boundary /\ Piece <= prdt_count
  BY <1>0, PieceFacts, PrdtAssumption
<1>2. prdt_count <= count /\ prdt_address = Wrap(Start + Moved)
  BY DEF PrdtInv, RestInv
<1>3. /\ prdt'[i].address = prdt_address
      /\ Size(prdt'[i]) = Piece
      /\ prdt_count' = prdt_count - Piece
      /\ \A k \in 0..(NumPrds - 1) : k # i => prdt'[k] = prdt[k]
  BY Turn
<1>4. prdt_address = Start + Moved
  BY <1>0, <1>2, PrdtAssumption DEF Wrap, Low, Moved
<1>5. prdt'[i].address + Size(prdt'[i]) = Start + (count - prdt_count')
  BY <1>0, <1>1, <1>3, <1>4, PrdtAssumption DEF Moved
<1>6. /\ Start + (count - prdt_count') \in 0..AddressSpace
      /\ prdt_count' > 0 => Start + (count - prdt_count') < AddressSpace
  BY <1>0, <1>1, <1>2, <1>3, PrdtAssumption DEF Low
<1>7. ASSUME NEW k \in 0..(i-1)
      PROVE  prdt'[k].address + Size(prdt'[k]) < AddressSpace
  <2>1. prdt'[k] = prdt[k]
    BY <1>0, <1>3, PrdtAssumption
  <2> QED
    BY <2>1 DEF LowParts, LowInv
<1> QED
  BY <1>4, <1>5, <1>6, <1>7

\* A turn that does not end the transfer reaches the next boundary.
LEMMA StrideStep ==
  ASSUME PrdtInv, LowParts, Filling, Low, prdt_count > Piece,
         WritePrd({}), UNCHANGED <<base, count>>
  PROVE  /\ (prdt_address + Piece) % Boundary = 0
         /\ (count - prdt_count') + (Start % Boundary) = (i + 1) * Boundary
<1>0. /\ TypeOK /\ Start \in 0..(AddressSpace - 1) /\ i \in Nat
      /\ count \in Nat /\ prdt_count \in Nat /\ prdt_address \in Nat
      /\ Boundary \in Nat /\ Boundary > 0 /\ AddressSpace \in Nat
  BY StartFacts, PrdtAssumption DEF PrdtInv, TypeOK
<1>1. Piece \in 0..Boundary /\ Piece = MaxPiece(prdt_address)
  BY <1>0, PieceFacts DEF Piece
<1>2. Piece = Boundary - (prdt_address % Boundary)
  BY <1>1 DEF MaxPiece
<1>3. (prdt_address + Piece) % Boundary = 0
  <2>1. (prdt_address + (Boundary - (prdt_address % Boundary))) % Boundary = 0
    BY <1>0, NextBoundary, Zenon
  <2> QED
    BY <1>2, <2>1, Zenon
<1>4. count - prdt_count' = Moved + Piece
  BY <1>0, <1>1 DEF WritePrd, Moved
<1>5. (i + 1) * Boundary = i * Boundary + Boundary /\ i * Boundary \in Nat
  <2>1. \A a, b \in Nat : (a + 1) * b = a * b + b /\ a * b \in Nat
    OBVIOUS
  <2> QED
    BY <1>0, <2>1
<1>6. Start % Boundary \in 0..(Boundary - 1) /\ Moved \in Int
  BY <1>0, RemainderBelow DEF Moved
<1>7. CASE i = 0
  <2>1. prdt_address = Start
    BY <1>7 DEF PrdtInv, ChainInv
  <2>2. Moved = 0
    <3>1. prdt_count <= count /\ prdt_address = Wrap(Start + Moved)
      BY DEF PrdtInv, RestInv
    <3> QED
      BY <1>0, <1>1, <2>1, <3>1 DEF Wrap, Low, Moved
  <2>3. i * Boundary = 0 /\ Piece + (Start % Boundary) = Boundary
    BY <1>0, <1>2, <1>6, <1>7, <2>1
  <2> QED
    BY <1>0, <1>1, <1>3, <1>4, <1>5, <1>6, <2>2, <2>3
<1>8. CASE i > 0
  <2>1. /\ prdt_address % Boundary = 0
        /\ Moved + (Start % Boundary) = i * Boundary
    BY <1>8 DEF LowParts, StrideInv
  <2>2. Piece = Boundary
    BY <1>0, <1>2, <2>1
  <2> QED
    BY <1>0, <1>3, <1>4, <1>5, <1>6, <2>1, <2>2
<1> QED
  BY <1>0, <1>7, <1>8

LEMMA LowStep ==
  ASSUME PrdtInv, LowParts, [Next]_vars
  PROVE  LowParts'
<1>0. /\ TypeOK /\ i \in 0..(NumPrds - 1) /\ i \in Nat /\ NumPrds \in Nat
      /\ count \in Nat /\ prdt_count \in Nat /\ prdt_address \in Nat
      /\ Start \in 0..(AddressSpace - 1) /\ Start \in Nat
      /\ Boundary \in Nat /\ Boundary > 1 /\ {} \in SUBSET ReservedBits
  BY StartFacts, PrdtAssumption DEF PrdtInv, TypeOK
<1>1. ASSUME NEW n \in 0..MaxCount, Prepare(n) PROVE LowParts'
  BY <1>1
  DEF Prepare, LowParts, StrideInv, LowInv, FullInv, Filling, Prepared
<1>2. CASE NextPrd
  <2>1. /\ pc = "fill" /\ prdt_count > Piece /\ WritePrd({})
        /\ base' = base /\ count' = count
        /\ \/ i + 1 < NumPrds /\ i' = i + 1 /\ pc' = "fill"
           \/ i + 1 = NumPrds /\ i' = i /\ pc' = "ready"
    BY <1>0, <1>2, PrdtAssumption DEF NextPrd
  <2>2. prdt_count > 0 /\ Filling
    <3>1. prdt_count > 0
      BY <1>0, <2>1, PieceFacts, PrdtAssumption
    <3> QED
      BY <1>0, <2>1, <3>1 DEF PrdtInv, EmptyInv, Filling
  <2>3. Start' = Start /\ Low' = Low
    BY <2>1 DEF Start, Low
  <2> SUFFICES ASSUME Low PROVE LowParts'
    BY <2>3 DEF LowParts, StrideInv, LowInv, FullInv
  <2>4. /\ prdt_address = Start + Moved
        /\ prdt'[i].address + Size(prdt'[i]) = Start + (count - prdt_count')
        /\ prdt_count' > 0 => Start + (count - prdt_count') < AddressSpace
        /\ \A k \in 0..(i-1) :
             prdt'[k].address + Size(prdt'[k]) < AddressSpace
    BY <1>0, <2>1, <2>2, LowTurn
  <2>5. /\ (prdt_address + Piece) % Boundary = 0
        /\ (count - prdt_count') + (Start % Boundary) = (i + 1) * Boundary
    BY <2>1, <2>2, StrideStep
  <2>6. /\ prdt_count' = prdt_count - Piece /\ prdt_count' > 0
        /\ prdt_count' \in Nat
        /\ prdt_address' = Wrap(prdt_address + Piece)
    BY <1>0, <2>1, PieceFacts, PrdtAssumption DEF WritePrd
  <2>7. CASE i + 1 < NumPrds /\ i' = i + 1 /\ pc' = "fill"
    <3>1. prdt_address + Piece = Start + (count - prdt_count')
      BY <1>0, <2>4, <2>6, PieceFacts, PrdtAssumption DEF Moved
    <3>2. prdt_address' = prdt_address + Piece
      BY <2>4, <2>6, <3>1 DEF Wrap
    <3>3. StrideInv'
      BY <2>1, <2>3, <2>5, <2>7, <3>2 DEF StrideInv, Moved
    <3>4. LowInv'
      <4>1. prdt'[i].address + Size(prdt'[i]) < AddressSpace
        BY <2>4, <2>6
      <4>2. ASSUME NEW k \in 0..i
            PROVE  prdt'[k].address + Size(prdt'[k]) < AddressSpace
        <5>1. k = i \/ k \in 0..(i-1)
          BY <1>0
        <5> QED
          BY <2>4, <4>1, <5>1
      <4>3. i' - 1 = i
        BY <1>0, <2>7
      <4> QED
        BY <4>2, <4>3 DEF LowInv
    <3>5. FullInv'
      BY <2>7 DEF FullInv, Prepared
    <3> QED
      BY <3>3, <3>4, <3>5 DEF LowParts
  <2>8. CASE i + 1 = NumPrds /\ i' = i /\ pc' = "ready"
    <3>1. (Start % Boundary) + count > NumPrds * Boundary
      <4>1. Start % Boundary \in Nat /\ NumPrds * Boundary = (i + 1) * Boundary
        BY <1>0, <2>8, RemainderBelow
      <4>2. (i + 1) * Boundary \in Int
        BY <1>0
      <4> QED
        BY <1>0, <2>5, <2>6, <4>1, <4>2
    <3>2. FullInv'
      BY <2>1, <2>3, <2>4, <2>8, <3>1 DEF FullInv, Moved
    <3>3. StrideInv'
      BY <2>8 DEF StrideInv, Filling
    <3>4. LowInv'
      BY <2>4, <2>8 DEF LowInv
    <3> QED
      BY <3>2, <3>3, <3>4 DEF LowParts
  <2> QED
    BY <2>1, <2>7, <2>8
<1>3. CASE LastPrd
  <2>1. /\ pc = "fill" /\ prdt_count <= Piece
        /\ WritePrd(SetLast(prdt[i].reserved))
        /\ pc' = "ready" /\ base' = base /\ count' = count /\ i' = i
    BY <1>3 DEF LastPrd
  <2>2. SetLast(prdt[i].reserved) \in SUBSET ReservedBits
    BY DEF SetLast
  <2>3. Start' = Start /\ Low' = Low /\ StrideInv'
    BY <2>1 DEF Start, Low, StrideInv, Filling
  <2>4. CASE count > 0 /\ Low
    <3>1. Filling /\ prdt_count > 0
      BY <2>1, <2>4 DEF PrdtInv, RestInv, Filling
    <3>2. /\ prdt'[i].address + Size(prdt'[i]) = Start + (count - prdt_count')
          /\ \A k \in 0..(i-1) :
               prdt'[k].address + Size(prdt'[k]) < AddressSpace
      BY <2>1, <2>2, <2>4, <3>1, LowTurn
    <3>3. prdt_count' = 0
      BY <1>0, <2>1, PieceFacts, PrdtAssumption DEF WritePrd
    <3>4. LowInv'
      BY <2>1, <3>2 DEF LowInv
    <3>5. FullInv'
      BY <2>1, <2>3, <3>2, <3>3 DEF FullInv, Moved
    <3> QED
      BY <2>3, <3>4, <3>5 DEF LowParts
  <2>5. CASE ~(count > 0 /\ Low)
    BY <2>1, <2>3, <2>5 DEF LowParts, LowInv, FullInv, Filling, Prepared
  <2> QED
    BY <2>4, <2>5
<1>4. CASE UNCHANGED vars
  BY <1>4
  DEF vars, LowParts, StrideInv, LowInv, FullInv, Filling, Prepared, Low,
      Start, Moved, Size
<1> QED
  BY <1>1, <1>2, <1>3, <1>4 DEF Next

\* The table describes the transfer: from the first byte of the buffer, without
\* a gap, to its last byte.
Described ==
  /\ prdt[0].address = base
  /\ \A k \in 1..i : prdt[k].address = prdt[k-1].address + Size(prdt[k-1])
  /\ prdt[i].address + Size(prdt[i]) = base + count

\* The table describes every transfer of a buffer within the 32-bit addresses,
\* if it fits the table: if it spans no more boundaries than the table has
\* entries.
THEOREM TransferComplete ==
  Spec => [](/\ Prepared
             /\ base + count <= AddressSpace
             /\ (base % Boundary) + count <= NumPrds * Boundary
             => Described)
<1>1. Init => LowParts
  BY DEF Init, LowParts, StrideInv, LowInv, FullInv, Filling, Prepared
<1>2. PrdtInv /\ LowParts /\ [Next]_vars => LowParts'
  BY LowStep
<1>3. PrdtInv /\ LowParts =>
        (/\ Prepared
         /\ base + count <= AddressSpace
         /\ (base % Boundary) + count <= NumPrds * Boundary
         => Described)
  <2> SUFFICES ASSUME PrdtInv, LowParts, Prepared,
                      base + count <= AddressSpace,
                      (base % Boundary) + count <= NumPrds * Boundary
               PROVE  Described
    OBVIOUS
  <2>0. /\ base \in Nat /\ count \in Nat /\ count > 0 /\ i \in Nat /\ TypeOK
        /\ i \in 0..(NumPrds - 1) /\ prdt \in [0..(NumPrds - 1) -> Prd]
        /\ AddressSpace \in Nat /\ Boundary \in Nat /\ Boundary > 1
        /\ NumPrds \in Nat
    BY PrdtAssumption DEF PrdtInv, TypeOK, Bases, Prepared
  <2>1. Start = base /\ Low
    <3>1. base < AddressSpace
      BY <2>0
    <3>2. Start = base
      BY <2>0, <3>1, StartFacts
    <3> QED
      BY <3>2 DEF Low
  <2>2. prdt[0].address = base
    BY <2>1 DEF PrdtInv, Contiguous
  <2>3. ASSUME NEW k \in 1..i
        PROVE  prdt[k].address = prdt[k-1].address + Size(prdt[k-1])
    <3> DEFINE end == prdt[k-1].address + Size(prdt[k-1])
    <3>1. prdt[k].address = end % AddressSpace
      BY DEF PrdtInv, Contiguous
    <3>2. k - 1 \in 0..(i-1) /\ k - 1 \in 0..(NumPrds - 1)
      BY <2>0
    <3>3. end < AddressSpace
      BY <2>1, <3>2 DEF LowParts, LowInv
    <3>4. end \in Nat
      <4>1. prdt[k-1] \in Prd
        BY <2>0, <3>2
      <4>2. prdt[k-1].address \in Nat /\ prdt[k-1].count \in Nat
        BY <2>0, <4>1 DEF Prd
      <4> QED
        BY <2>0, <4>2 DEF Size
    <3> HIDE DEF end
    <3>5. end % AddressSpace = Wrap(end)
      BY <2>0, <3>3, <3>4, WrapRemainder
    <3> QED
      BY <3>1, <3>3, <3>5 DEF Wrap, end
  <2>4. prdt[i].address + Size(prdt[i]) = base + count
    <3>1. prdt_count = 0
      <4>1. base % Boundary \in Nat /\ NumPrds * Boundary \in Int
        BY <2>0, RemainderBelow
      <4>2. prdt_count = 0 \/ (base % Boundary) + count > NumPrds * Boundary
        BY <2>1 DEF LowParts, FullInv
      <4> QED
        BY <2>0, <4>1, <4>2
    <3> QED
      BY <2>0, <2>1, <3>1 DEF LowParts, FullInv, Moved
  <2> QED
    BY <2>2, <2>3, <2>4 DEF Described
<1> QED
  BY <1>1, <1>2, <1>3, PrdtInvariant, PTL DEF Spec

-----------------------------------------------------------------------------
\* No step ever marks a descriptor as the last one, whatever the transfers are:
\* the mark is set in a bit that the field does not have.  A descriptor is only
\* marked if the memory of the table happened to hold the mark.
THEOREM NoneMarked ==
  Spec => [][\A k \in 0..(NumPrds - 1) : IsLast(prdt[k])' => IsLast(prdt[k])]_vars
<1>1. PrdtInv /\ [Next]_vars =>
        [\A k \in 0..(NumPrds - 1) : IsLast(prdt[k])' => IsLast(prdt[k])]_vars
  <2> SUFFICES ASSUME PrdtInv, Next, NEW k \in 0..(NumPrds - 1), IsLast(prdt[k])'
               PROVE  IsLast(prdt[k])
    OBVIOUS
  <2>1. prdt \in [0..(NumPrds - 1) -> Prd] /\ i \in 0..(NumPrds - 1)
    BY DEF PrdtInv, TypeOK
  <2>2. ASSUME NEW r, WritePrd(r), 15 \in r => 15 \in prdt[i].reserved
        PROVE  IsLast(prdt[k])
    <3>1. prdt' = [prdt EXCEPT ![i] = [address |-> prdt_address,
                                       count |-> Piece % Boundary,
                                       reserved |-> r]]
      BY <2>2 DEF WritePrd
    <3>2. CASE k = i
      BY <2>1, <2>2, <3>1, <3>2 DEF IsLast
    <3>3. CASE k # i
      BY <2>1, <3>1, <3>3 DEF IsLast
    <3> QED
      BY <3>2, <3>3
  <2>3. CASE NextPrd
    BY <2>2, <2>3 DEF NextPrd
  <2>4. CASE LastPrd
    <3>1. 15 \in SetLast(prdt[i].reserved) => 15 \in prdt[i].reserved
      BY DEF SetLast
    <3> QED
      BY <2>2, <2>4, <3>1 DEF LastPrd
  <2>5. CASE \E n \in 0..MaxCount : Prepare(n)
    BY <2>5 DEF Prepare, IsLast
  <2> QED
    BY <2>3, <2>4, <2>5 DEF Next
<1> QED
  BY <1>1, PrdtInvariant, PTL DEF Spec
=============================================================================

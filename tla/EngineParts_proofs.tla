------------------------- MODULE EngineParts_proofs -------------------------
(***************************************************************************)
(* Proofs about the parts of the patched engine (EngineParts), in four     *)
(* sections: the workspace of the indexer (IndexerWorkspace), the plan of  *)
(* the KV cache (KvPlan) for every geometry, memory and boot, the routed   *)
(* experts (Exl3) for every setup and batch, and the constrained request   *)
(* (StructuredOutput) for every language, draft, marker and stop string.   *)
(***************************************************************************)
EXTENDS EngineParts, CommonLemmas, FiniteSetTheorems, SequenceTheorems, TLAPS

----------------------------------------------------------------------------
(* The workspace: for every configuration the right-sized workspace is     *)
(* invisible.  The splitter does on it exactly what it does on the stock   *)
(* one, and no chunk is larger than what was allocated.                    *)
(*                                                                         *)
(* The argument.  Every admitted row costs at least one query token, so a  *)
(* step has at most MaxPrefillReqs rows (Admission); every row has at most *)
(* PerReq entries (Rows); so a chunk that spans k rows has at most         *)
(* k * PerReq entries (Packed), never more than the legal maximum.  The    *)
(* workspace test of the splitter therefore has the same answer for both   *)
(* sizes, and two deterministic splitters that start alike stay alike.     *)

PerReq == CeilDiv(MaxModelLen + NumSpec, ratio)

\* The rows admitted and the tokens left stay within the token budget.
Admission ==
  /\ phase = "admit" => Len(batch) + budget <= Mnbt
  /\ phase = "split" => Len(batch) <= Mnbt

\* Rows are compressed by the ratio the runtime uses.
Rows == phase \in {"admit", "split"} =>
  \A i \in 1..Len(batch) : batch[i].s <= PerReq /\ batch[i].s <= MaxModelLen + NumSpec

\* What was allocated, once the builder has accepted it.
Sized ==
  /\ phase = "builder" => ws = StockEntries \/ (mode = "rightsize" /\ ws = Rightsized(kpool))
  /\ phase \in {"idle", "admit", "split"} =>
       ws = StockEntries \/ (ws = Rightsized(kpool) /\ CfgRatio(kpool) = ratio)

\* Both splitters are at the same place, and the open chunk is packed.
Packed ==
  /\ split["actual"] = split["stock"]
  /\ phase = "split" =>
       LET x == split["actual"] IN
       /\ x.start <= x.end /\ x.end <= Len(batch)
       /\ x.n <= (x.end - x.start) * PerReq
       /\ x.n <= ws
       /\ \A c \in x.chunks : c.n <= ws

IInv == TypeOK /\ Admission /\ Rows /\ Sized /\ Packed

----------------------------------------------------------------------------

\* A row that is at most PerReq fits behind k rows of at most PerReq each.
LEMMA PackingStep ==
  ASSUME NEW k \in Nat, NEW per \in Nat, NEW n \in Nat, NEW s \in Nat,
         n <= k * per, s <= per
  PROVE  n + s <= (k + 1) * per
  BY SMT

\* A row of at most PerReq fits behind the rows of an open chunk when that
\* many rows and one more fit.
LEMMA FitsBehind ==
  ASSUME NEW first \in Nat, NEW last \in Nat, first <= last, NEW per \in Nat,
         NEW n \in Nat, NEW s \in Nat, NEW w \in Nat,
         n <= (last - first) * per, s <= per, (last - first + 1) * per <= w
  PROVE  n + s <= w
<1> DEFINE k == last - first
<1>1. k \in Nat
  OBVIOUS
<1>0. n <= k * per /\ (k + 1) * per <= w
  OBVIOUS
<1> HIDE DEF k
<1>2. n + s <= (k + 1) * per
  BY <1>0, <1>1, PackingStep
<1>3. (k + 1) * per <= w
  BY <1>0
<1>4. (k + 1) * per \in Nat
  BY <1>1, SMT
<1> DEFINE p == (k + 1) * per
<1>5. n + s <= p /\ p <= w /\ p \in Nat
  BY <1>2, <1>3, <1>4
<1> HIDE DEF p
<1> QED BY <1>5

\* Products are monotone in the number of rows.
LEMMA MoreRows ==
  ASSUME NEW a \in Nat, NEW b \in Nat, NEW per \in Nat, a <= b
  PROVE  a * per <= b * per
  BY SMT

\* The sizes are numbers; the legal maximum is clamped to stock and holds
\* one row of the largest size for each request of a step.
LEMMA SizesFit ==
  ASSUME TypeOK
  PROVE  /\ StockEntries \in Nat /\ MaxPrefillReqs \in Nat \ {0} /\ PerReq \in Nat
         /\ MaxPrefillReqs <= MaxSeqs /\ MaxPrefillReqs <= Mnbt
         /\ \/ MaxPrefillReqs = MaxSeqs
            \/ MaxPrefillReqs = Mnbt
         /\ MaxModelLen + NumSpec <= StockEntries
         /\ PerReq <= MaxModelLen + NumSpec
         /\ \A k \in Kpools : Rightsized(k) \in 0..StockEntries
<1>1. StockEntries \in Nat /\ MaxModelLen + NumSpec <= StockEntries
  BY IndexerWorkspaceAssumption, SMT DEF StockEntries
<1>2. /\ MaxPrefillReqs \in Nat \ {0} /\ MaxPrefillReqs <= MaxSeqs /\ MaxPrefillReqs <= Mnbt
      /\ MaxPrefillReqs = MaxSeqs \/ MaxPrefillReqs = Mnbt
  BY IndexerWorkspaceAssumption DEF MaxPrefillReqs
<1>3. \A a \in Nat \ {0}, b \in Nat \ {0} : CeilDiv(a, b) \in Nat /\ CeilDiv(a, b) <= a
  <2> TAKE a \in Nat \ {0}, b \in Nat \ {0}
  <2>1. a + b - 1 <= a * b
    BY SMT
  <2>2. (a * b) \div b = a
    BY SMT
  <2>3. \A u \in Nat, v \in Nat : u <= v => u \div b <= v \div b
    BY SMT
  <2>4. a + b - 1 \in Nat /\ a * b \in Nat /\ (a + b - 1) \div b \in Nat
    BY SMT
  <2> QED BY <2>1, <2>2, <2>3, <2>4 DEF CeilDiv
<1>4. PerReq \in Nat /\ PerReq <= MaxModelLen + NumSpec
  <2>1. MaxModelLen + NumSpec \in Nat \ {0} /\ ratio \in Nat \ {0}
    BY IndexerWorkspaceAssumption DEF TypeOK
  <2> QED BY <2>1, <1>3 DEF PerReq
<1>5. \A k \in Kpools : Rightsized(k) \in 0..StockEntries
  <2> TAKE k \in Kpools
  <2>1. CfgRatio(k) \in Nat \ {0} /\ MaxModelLen + NumSpec \in Nat \ {0}
    BY IndexerWorkspaceAssumption DEF CfgRatio
  <2>2. CeilDiv(MaxModelLen + NumSpec, CfgRatio(k)) \in Nat
    BY <2>1, <1>3
  <2>3. CeilDiv(MaxModelLen + NumSpec, CfgRatio(k)) * MaxPrefillReqs \in Nat
    BY <2>2, <1>2, SMT
  <2> QED BY <2>3, <1>1 DEF Rightsized
<1> QED BY <1>1, <1>2, <1>4, <1>5

\* A span of at most MaxPrefillReqs rows fits what was allocated for them,
\* or the allocation is the stock one.
LEMMA SpanFits ==
  ASSUME TypeOK, CfgRatio(kpool) = ratio, ws = Rightsized(kpool), ws # StockEntries,
         NEW k \in Nat, k <= MaxPrefillReqs
  PROVE  k * PerReq <= ws
<1>1. ws = PerReq * MaxPrefillReqs
  BY DEF Rightsized, PerReq
<1>2. PerReq \in Nat /\ MaxPrefillReqs \in Nat
  BY SizesFit
<1>3. k * PerReq <= MaxPrefillReqs * PerReq
  BY <1>2, MoreRows
<1>4. MaxPrefillReqs * PerReq = PerReq * MaxPrefillReqs
  BY <1>2, SMT
<1> QED BY <1>1, <1>3, <1>4

\* One turn of the splitter on a packed chunk: both sizes answer alike, the
\* open chunk stays packed and what is closed fits the allocation.
LEMMA AdvancePacked ==
  ASSUME IInv, phase = "split"
  PROVE  LET x == split["actual"]
             y == Advance(x, ws)
         IN  /\ Advance(x, StockEntries) = y
             /\ y = [start |-> y.start, end |-> y.end, m |-> y.m, n |-> y.n,
                     chunks |-> y.chunks]
             /\ y.start \in Nat /\ y.end \in Nat /\ y.m \in Nat /\ y.n \in Nat
             /\ \A c \in y.chunks : c \in Chunk /\ c.n <= ws
             /\ y.start <= y.end /\ y.end <= Len(batch)
             /\ y.n <= (y.end - y.start) * PerReq
             /\ y.n <= ws
<1> DEFINE x == split["actual"]
           row == batch[x.end + 1]
<1>1. /\ x = [start |-> x.start, end |-> x.end, m |-> x.m, n |-> x.n, chunks |-> x.chunks]
      /\ x.start \in Nat /\ x.end \in Nat /\ x.m \in Nat /\ x.n \in Nat
      /\ \A c \in x.chunks : c \in Chunk /\ c.n <= ws
      /\ x.start <= x.end /\ x.end <= Len(batch)
      /\ x.n <= (x.end - x.start) * PerReq /\ x.n <= ws
  BY DEF IInv, TypeOK, Packed, Sides
<1>2. /\ PerReq \in Nat /\ StockEntries \in Nat /\ ws \in Nat /\ ws <= StockEntries
      /\ MaxPrefillReqs \in Nat \ {0} /\ Len(batch) \in Nat
      /\ Len(batch) <= MaxPrefillReqs /\ LogitsElems \in Nat
  BY SizesFit, IndexerWorkspaceAssumption DEF IInv, TypeOK, Admission
<1>3. ASSUME x.end < Len(batch)
      PROVE  /\ row.q \in Nat /\ row.s \in Nat /\ row.s <= PerReq /\ row.s <= ws
             /\ Fits(x, StockEntries) <=> Fits(x, ws)
  <2>1. x.end + 1 \in 1..Len(batch)
    BY <1>1, <1>2, <1>3
  <2>2. row \in Row /\ row.s <= PerReq /\ row.s <= MaxModelLen + NumSpec
    BY <2>1 DEF IInv, TypeOK, Rows
  <2>3. row.q \in Nat /\ row.s \in Nat
    BY <2>2, IndexerWorkspaceAssumption DEF Row
  <2>4. CASE ws = StockEntries
    <3>1. Fits(x, StockEntries) <=> Fits(x, ws)
      BY <2>4 DEF Fits
    <3>2. row.s <= ws
      <4>1. MaxModelLen + NumSpec <= ws /\ MaxModelLen + NumSpec \in Nat
        BY <2>4, SizesFit, IndexerWorkspaceAssumption DEF IInv
      <4> QED BY <4>1, <2>2, <2>3, <1>2
    <3> QED BY <3>1, <3>2, <2>2, <2>3
  <2>5. CASE ws # StockEntries
    <3>1. ws = Rightsized(kpool) /\ CfgRatio(kpool) = ratio
      BY <2>5 DEF IInv, Sized
    <3> DEFINE k == x.end - x.start + 1
    <3>2. k \in Nat /\ k <= MaxPrefillReqs
      <4>1. /\ x.start \in Nat /\ x.end \in Nat /\ x.start <= x.end /\ x.end < Len(batch)
            /\ Len(batch) \in Nat /\ Len(batch) <= MaxPrefillReqs /\ MaxPrefillReqs \in Nat
        BY <1>1, <1>2, <1>3
      <4> HIDE DEF x
      <4> QED BY <4>1
    <3>3. k * PerReq <= ws
      BY <3>1, <3>2, <2>5, SpanFits DEF IInv
    <3>4. /\ x.end \in Nat /\ x.start \in Nat /\ x.start <= x.end /\ PerReq \in Nat
          /\ x.n \in Nat /\ row.s \in Nat /\ ws \in Nat
      BY <1>1, <1>2, <2>3
    <3>5. x.n + row.s <= ws
      <4>1. x.n <= (x.end - x.start) * PerReq /\ row.s <= PerReq
        BY <1>1, <2>2
      <4>2. (x.end - x.start + 1) * PerReq <= ws
        BY <3>3
      <4> HIDE DEF x, row
      <4> QED BY <3>4, <4>1, <4>2, FitsBehind
    <3>6. x.n + row.s <= StockEntries /\ row.s <= ws
      <4>1. x.n \in Nat /\ row.s \in Nat
        BY <1>1, <2>3
      <4>2. ws \in Nat /\ StockEntries \in Nat /\ ws <= StockEntries
        BY <1>2
      <4> HIDE DEF x, row
      <4> QED BY <4>1, <4>2, <3>5
    <3>7. Fits(x, StockEntries) <=> (x.m + row.q) * (x.n + row.s) <= LogitsElems
      BY <3>6 DEF Fits
    <3>8. Fits(x, ws) <=> (x.m + row.q) * (x.n + row.s) <= LogitsElems
      BY <3>5 DEF Fits
    <3> QED BY <3>6, <3>7, <3>8, <2>2, <2>3
  <2> QED BY <2>4, <2>5
<1>4. ASSUME NEW z, z.m \in Nat, z.n \in Nat, z.start \in Nat, z.end \in Nat
      PROVE  \A sl \in Slices(z) : sl \in [from : Nat, to : Nat]
  <2>1. MaxQ(z) \in Nat
    BY <1>2, <1>4 DEF MaxQ
  <2> QED BY <2>1, <1>4 DEF Slices
<1>5. ASSUME NEW z, z.m \in Nat, z.n \in Nat, z.start \in Nat, z.end \in Nat,
             z.n <= ws, z.end <= Len(batch),
             \A c \in z.chunks : c \in Chunk /\ c.n <= ws
      PROVE  LET y == Close(z) IN
             /\ y = [start |-> y.start, end |-> y.end, m |-> y.m, n |-> y.n,
                     chunks |-> y.chunks]
             /\ y.start \in Nat /\ y.end = y.start /\ y.m = 0 /\ y.n = 0
             /\ y.end <= Len(batch)
             /\ \A c \in y.chunks : c \in Chunk /\ c.n <= ws
  <2>1. \A c \in Close(z).chunks : c \in Chunk /\ c.n <= ws
    <3> TAKE c \in Close(z).chunks
    <3>1. CASE c \in z.chunks
      BY <3>1, <1>5
    <3>2. CASE c \notin z.chunks
      <4>1. PICK sl \in Slices(z) :
              c = [first |-> z.start, last |-> z.end, n |-> z.n, q |-> sl]
        BY <3>2 DEF Close
      <4> QED BY <4>1, <1>4, <1>5 DEF Chunk
    <3> QED BY <3>1, <3>2
  <2> QED BY <2>1, <1>5 DEF Close
<1>6. 0 * PerReq = 0 /\ \A k \in Nat : (k - k) * PerReq = 0
  BY <1>2, SMT
<1>7. CASE Done(x)
  BY <1>1, <1>7 DEF Advance
<1>8. CASE ~Done(x) /\ x.end < Len(batch) /\ Fits(x, ws)
  <2> DEFINE y == AddRow(x)
  <2>1. Advance(x, ws) = y /\ Advance(x, StockEntries) = y
    BY <1>8, <1>3 DEF Advance
  <2>2. /\ y = [start |-> x.start, end |-> x.end + 1, m |-> x.m + row.q,
                n |-> x.n + row.s, chunks |-> x.chunks]
    BY <1>1 DEF AddRow
  <2>3. x.n + row.s <= ws
    BY <1>8 DEF Fits
  <2>4. x.n + row.s <= ((x.end + 1) - x.start) * PerReq
    <3>1. x.end - x.start \in Nat /\ (x.end + 1) - x.start = (x.end - x.start) + 1
      BY <1>1
    <3>2. row.s \in Nat /\ row.s <= PerReq
      BY <1>3, <1>8
    <3> HIDE DEF x, row
    <3>3. x.n + row.s <= ((x.end - x.start) + 1) * PerReq
      BY <3>1, <3>2, <1>1, <1>2, PackingStep
    <3> QED BY <3>1, <3>3
  <2>5. row.q \in Nat /\ row.s \in Nat
    BY <1>3, <1>8
  <2> HIDE DEF y, x, row
  <2>6. /\ y.start = x.start /\ y.end = x.end + 1 /\ y.m = x.m + row.q
        /\ y.n = x.n + row.s /\ y.chunks = x.chunks
    BY <2>2
  <2>7. y = [start |-> y.start, end |-> y.end, m |-> y.m, n |-> y.n, chunks |-> y.chunks]
    BY <2>2, <2>6
  <2>8. /\ y.start \in Nat /\ y.end \in Nat /\ y.m \in Nat /\ y.n \in Nat
        /\ y.start <= y.end /\ y.end <= Len(batch)
    <3>1. x.start \in Nat /\ x.end \in Nat /\ x.m \in Nat /\ x.n \in Nat
          /\ x.start <= x.end /\ x.end < Len(batch) /\ Len(batch) \in Nat
      BY <1>1, <1>2, <1>8
    <3>2. x.end + 1 \in Nat /\ x.m + row.q \in Nat /\ x.n + row.s \in Nat
      <4>1. \A a \in Nat, b \in Nat : a + b \in Nat
        OBVIOUS
      <4> QED BY <2>5, <3>1, <4>1
    <3>3. x.start <= x.end + 1 /\ x.end + 1 <= Len(batch)
      BY <3>1
    <3> QED BY <2>6, <3>1, <3>2, <3>3
  <2>9. y.n <= ws /\ y.n <= (y.end - y.start) * PerReq
    BY <2>3, <2>4, <2>6
  <2> QED BY <2>1, <2>6, <2>7, <2>8, <2>9, <1>1 DEF x
<1>9. CASE ~Done(x) /\ x.end < Len(batch) /\ ~Fits(x, ws) /\ x.end = x.start
  <2> DEFINE z == AddRow(x)
  <2>1. Advance(x, ws) = Close(z) /\ Advance(x, StockEntries) = Close(z)
    BY <1>9, <1>3 DEF Advance
  <2>2. z = [start |-> x.start, end |-> x.end + 1, m |-> x.m + row.q,
             n |-> x.n + row.s, chunks |-> x.chunks]
    BY <1>1 DEF AddRow
  <2>3. x.n = 0
    BY <1>1, <1>6, <1>9
  <2>4. /\ z.m \in Nat /\ z.n \in Nat /\ z.start \in Nat /\ z.end \in Nat
        /\ z.n <= ws /\ z.end <= Len(batch) /\ z.chunks = x.chunks
    <3>1. /\ x.start \in Nat /\ x.end \in Nat /\ x.m \in Nat /\ row.q \in Nat /\ row.s \in Nat
          /\ row.s <= ws /\ x.end < Len(batch) /\ Len(batch) \in Nat
      BY <1>1, <1>2, <1>3, <1>9
    <3> HIDE DEF x, row
    <3>2. /\ x.m + row.q \in Nat /\ x.n + row.s = row.s /\ x.end + 1 \in Nat
          /\ x.end + 1 <= Len(batch)
      BY <2>3, <3>1
    <3>3. /\ z.m = x.m + row.q /\ z.n = x.n + row.s /\ z.start = x.start /\ z.end = x.end + 1
          /\ z.chunks = x.chunks
      BY <2>2
    <3> HIDE DEF z
    <3> QED BY <3>1, <3>2, <3>3
  <2>5. \A c \in z.chunks : c \in Chunk /\ c.n <= ws
    BY <2>4, <1>1
  <2> HIDE DEF z
  <2> DEFINE y == Close(z)
  <2>6. /\ y = [start |-> y.start, end |-> y.end, m |-> y.m, n |-> y.n, chunks |-> y.chunks]
        /\ y.start \in Nat /\ y.end = y.start /\ y.m = 0 /\ y.n = 0 /\ y.end <= Len(batch)
        /\ \A c \in y.chunks : c \in Chunk /\ c.n <= ws
    BY <2>4, <2>5, <1>5
  <2> HIDE DEF y
  <2>7. y.n <= (y.end - y.start) * PerReq /\ y.n <= ws /\ y.start <= y.end
    BY <2>6, <1>2, <1>6
  <2> QED BY <2>1, <2>6, <2>7 DEF y
<1>10. CASE ~Done(x) /\ ~(x.end < Len(batch) /\ (Fits(x, ws) \/ x.end = x.start))
  <2> DEFINE y == Close(x)
  <2>1. Advance(x, ws) = y /\ Advance(x, StockEntries) = y
    BY <1>10, <1>3 DEF Advance
  <2>2. /\ y = [start |-> y.start, end |-> y.end, m |-> y.m, n |-> y.n, chunks |-> y.chunks]
        /\ y.start \in Nat /\ y.end = y.start /\ y.m = 0 /\ y.n = 0 /\ y.end <= Len(batch)
        /\ \A c \in y.chunks : c \in Chunk /\ c.n <= ws
    BY <1>1, <1>5
  <2> HIDE DEF y
  <2>3. y.n <= (y.end - y.start) * PerReq /\ y.n <= ws /\ y.start <= y.end
    BY <2>2, <1>2, <1>6
  <2> QED BY <2>1, <2>2, <2>3 DEF y
<1> QED BY <1>7, <1>8, <1>9, <1>10

LEMMA InvInit == Init => IInv
<1> SUFFICES ASSUME Init PROVE IInv
  OBVIOUS
<1>1. StockEntries \in Nat
  BY IndexerWorkspaceAssumption, SMT DEF StockEntries
<1>2. TypeOK
  <2>1. batch = <<>> /\ batch \in Seq(Row) /\ Len(batch) = 0
    BY DEF Init
  <2>2. \A d \in Sides : split[d] = Fresh
    BY DEF Init
  <2>3. DOMAIN split = Sides
    BY DEF Init
  <2>4. mode \in Modes /\ kpool \in Kpools /\ ratio \in Ratios /\ phase = "sizing"
        /\ ws = 0 /\ budget = 0
    BY DEF Init
  <2> QED BY <2>1, <2>2, <2>3, <2>4, <1>1, IndexerWorkspaceAssumption DEF TypeOK, Fresh
<1>3. Admission /\ Rows /\ Sized
  BY DEF Init, Admission, Rows, Sized
<1>4. Packed
  BY DEF Init, Packed, Sides
<1> QED BY <1>2, <1>3, <1>4 DEF IInv

LEMMA InvStep == IInv /\ [Next]_vars => IInv'
<1> SUFFICES ASSUME IInv, [Next]_vars PROVE IInv'
  OBVIOUS
<1> USE DEF IInv
<1>1. CASE Sizing
  <2>1. Rightsized(kpool) \in 0..StockEntries /\ StockEntries \in Nat
    BY SizesFit DEF TypeOK
  <2>2. TypeOK'
    BY <1>1, <2>1 DEF Sizing, TypeOK, config
  <2>3. Admission' /\ Rows'
    BY <1>1 DEF Sizing, Admission, Rows, config
  <2>4. Sized'
    BY <1>1 DEF Sizing, Sized, config, Rightsized, CfgRatio, StockEntries
  <2>5. Packed'
    BY <1>1 DEF Sizing, Packed
  <2> QED BY <2>2, <2>3, <2>4, <2>5
<1>2. CASE Builder
  <2>1. TypeOK'
    BY <1>2 DEF Builder, TypeOK, config
  <2>2. Admission' /\ Rows'
    BY <1>2 DEF Builder, Admission, Rows, config
  <2>3. Sized'
    BY <1>2 DEF Builder, Sized, RatiosAgree, config, Rightsized, CfgRatio
  <2>4. Packed'
    BY <1>2 DEF Builder, Packed
  <2> QED BY <2>1, <2>2, <2>3, <2>4
<1>3. CASE BeginStep
  <2>1. TypeOK'
    BY <1>3, IndexerWorkspaceAssumption DEF BeginStep, TypeOK, config
  <2>2. Admission' /\ Rows'
    BY <1>3, IndexerWorkspaceAssumption DEF BeginStep, Admission, Rows, config
  <2>3. Sized'
    BY <1>3 DEF BeginStep, Sized, config, Rightsized, CfgRatio
  <2>4. Packed'
    BY <1>3 DEF BeginStep, Packed
  <2> QED BY <2>1, <2>2, <2>3, <2>4
<1>4. CASE Admit
  <2>1. PICK q \in 1..budget, len \in 1..(MaxModelLen + NumSpec) :
          /\ q <= len
          /\ batch' = Append(batch, [q |-> q, s |-> len \div ratio])
          /\ budget' = budget - q
    BY <1>4 DEF Admit
  <2> DEFINE row == [q |-> q, s |-> len \div ratio]
  <2>2. budget \in 0..Mnbt /\ Mnbt \in Nat /\ ratio \in Nat \ {0}
        /\ MaxModelLen + NumSpec \in Nat /\ batch \in Seq(Row)
    BY IndexerWorkspaceAssumption DEF TypeOK
  <2>3. len \div ratio \in Nat /\ len \div ratio <= PerReq
        /\ len \div ratio <= MaxModelLen + NumSpec
    <3>1. \A a \in Nat, b \in Nat, r \in Nat \ {0} : a <= b =>
            a \div r \in Nat /\ a \div r <= (b + r - 1) \div r
      <4> TAKE a \in Nat, b \in Nat, r \in Nat \ {0}
      <4> HAVE a <= b
      <4>1. a <= b + r - 1 /\ b + r - 1 \in Nat
        OBVIOUS
      <4>2. a \div r \in Nat /\ a \div r <= (b + r - 1) \div r
        BY <4>1, SMT
      <4> QED BY <4>2
    <3>2. len \div ratio \in Nat /\ len \div ratio <= PerReq
      BY <2>2, <3>1 DEF PerReq, CeilDiv
    <3> QED BY <3>2, SizesFit, <2>2
  <2>4. row \in Row
    BY <2>1, <2>2, <2>3 DEF Row
  <2>5. /\ batch' \in Seq(Row) /\ Len(batch') = Len(batch) + 1
        /\ \A i \in 1..Len(batch) : batch'[i] = batch[i]
        /\ batch'[Len(batch) + 1] = row
    BY <2>1, <2>2, <2>4
  <2>6. Len(batch') <= MaxSeqs
    BY <1>4, <2>5, IndexerWorkspaceAssumption DEF Admit, TypeOK
  <2>7. budget' \in 0..Mnbt
    BY <2>1, <2>2
  <2>8. TypeOK'
    BY <1>4, <2>5, <2>6, <2>7 DEF Admit, TypeOK, config
  <2>9. Admission'
    BY <1>4, <2>1, <2>2, <2>5 DEF Admit, Admission
  <2>10. Rows'
    <3>1. PerReq' = PerReq
      BY <1>4 DEF Admit, PerReq, config
    <3>2. \A i \in 1..Len(batch') :
            batch'[i].s <= PerReq /\ batch'[i].s <= MaxModelLen + NumSpec
      <4> TAKE i \in 1..Len(batch')
      <4>1. CASE i \in 1..Len(batch)
        BY <4>1, <2>5, <1>4 DEF Rows, Admit
      <4>2. CASE i = Len(batch) + 1
        BY <4>2, <2>5, <2>3
      <4> QED BY <4>1, <4>2, <2>5, <2>2
    <3> QED BY <3>1, <3>2 DEF Rows
  <2>11. Sized'
    BY <1>4 DEF Admit, Sized, config, Rightsized, CfgRatio
  <2>12. Packed'
    BY <1>4 DEF Admit, Packed
  <2> QED BY <2>8, <2>9, <2>10, <2>11, <2>12
<1>5. CASE Launch
  <2>1. \A d \in Sides : split'[d] = Fresh
    BY <1>5 DEF Launch
  <2>2. DOMAIN split' = Sides
    BY <1>5 DEF Launch
  <2>3. TypeOK'
    BY <1>5, <2>1, <2>2 DEF Launch, TypeOK, config, Fresh
  <2>4. Admission' /\ Rows'
    <3>1. PerReq' = PerReq /\ batch' = batch /\ budget' = budget
          /\ phase = "admit" /\ phase' = "split"
      BY <1>5 DEF Launch, PerReq, config
    <3>2. Len(batch) \in Nat /\ budget \in Nat /\ Mnbt \in Nat
      BY IndexerWorkspaceAssumption DEF TypeOK
    <3> QED BY <3>1, <3>2 DEF Admission, Rows
  <2>5. Sized'
    BY <1>5 DEF Launch, Sized, config, Rightsized, CfgRatio
  <2>6. Packed'
    <3>1. (0 - 0) * PerReq = 0 /\ ws \in Nat /\ Len(batch) \in Nat
      BY SizesFit, SMT DEF TypeOK
    <3>2. split'["actual"] = Fresh /\ split'["stock"] = Fresh
          /\ PerReq' = PerReq /\ ws' = ws /\ batch' = batch
      BY <2>1, <1>5 DEF Sides, Launch, PerReq, config
    <3> QED BY <3>1, <3>2 DEF Packed, Fresh
  <2> QED BY <2>3, <2>4, <2>5, <2>6
<1>6. CASE Split
  <2> DEFINE x == split["actual"]
             y == Advance(x, ws)
  <2>1. /\ Advance(x, StockEntries) = y
        /\ y = [start |-> y.start, end |-> y.end, m |-> y.m, n |-> y.n, chunks |-> y.chunks]
        /\ y.start \in Nat /\ y.end \in Nat /\ y.m \in Nat /\ y.n \in Nat
        /\ \A c \in y.chunks : c \in Chunk /\ c.n <= ws
        /\ y.start <= y.end /\ y.end <= Len(batch)
        /\ y.n <= (y.end - y.start) * PerReq
        /\ y.n <= ws
    BY <1>6, AdvancePacked DEF Split
  <2>2. split'["actual"] = y /\ split'["stock"] = y /\ DOMAIN split' = Sides
    BY <1>6, <2>1 DEF Split, Size, Sides, Packed
  <2> HIDE DEF y, x
  <2>3. \A d \in Sides : split'[d] = y
    BY <2>2 DEF Sides
  <2>4. PerReq' = PerReq /\ ws' = ws /\ batch' = batch /\ phase' = phase
        /\ UNCHANGED <<mode, kpool, ratio, budget>>
    BY <1>6 DEF Split, PerReq, config
  <2>5. TypeOK'
    BY <2>1, <2>2, <2>3, <2>4 DEF TypeOK
  <2>6. Admission' /\ Rows' /\ Sized'
    BY <2>4 DEF Admission, Rows, Sized, Rightsized, CfgRatio
  <2>7. Packed'
    BY <2>1, <2>2, <2>4 DEF Packed
  <2> QED BY <2>5, <2>6, <2>7
<1>7. CASE Finish
  <2>1. TypeOK' /\ Admission' /\ Rows'
    BY <1>7 DEF Finish, TypeOK, Admission, Rows, config
  <2>2. Sized'
    BY <1>7 DEF Finish, Sized, config, Rightsized, CfgRatio
  <2>3. Packed'
    BY <1>7 DEF Finish, Packed
  <2> QED BY <2>1, <2>2, <2>3
<1>8. CASE UNCHANGED vars
  BY <1>8 DEF vars, config, TypeOK, Admission, Rows, Sized, Packed, PerReq, Rightsized, CfgRatio
<1> QED BY <1>1, <1>2, <1>3, <1>4, <1>5, <1>6, <1>7, <1>8 DEF Next

LEMMA Invariant == Spec => []IInv
BY InvInit, InvStep, PTL DEF Spec

\* Every variable keeps its type; the allocation is never above stock.
THEOREM TypeCorrect == Spec => []TypeOK
<1>1. IInv => TypeOK
  BY DEF IInv
<1> QED BY <1>1, Invariant, PTL

\* The right-sized workspace produces the chunk list of the stock one, for
\* every model length, ratio, scheduler limit and batch.
THEOREM ChunksIdenticalToStock == Spec => []ChunkListIsStock
<1>1. IInv => ChunkListIsStock
  BY DEF IInv, Packed, ChunkListIsStock
<1> QED BY <1>1, Invariant, PTL

\* No chunk needs more entries than were allocated.
THEOREM NoOverrun == Spec => []WorkspaceFits
<1>1. IInv => WorkspaceFits
  BY DEF IInv, Packed, WorkspaceFits
<1> QED BY <1>1, Invariant, PTL

----------------------------------------------------------------------------
(* The plan: arithmetic of pages and pool                                  *)

Geometry ==
  [mlaBlock : Nat \ {0}, mlaToken : Nat \ {0}, mlas : Nat \ {0}, idxPage : Nat,
   drafts : Nat, draftToken : Nat \ {0}, window : Nat \ {0}, batch : Nat,
   length : Nat, states : Nat, fine : SUBSET {"mla", "tail", "mamba", "swa"},
   hashBlock : Nat]

\* A quotient without remainder, and one rounded up.
LEMMA Exact ==
  ASSUME NEW a \in Nat, NEW d \in Nat \ {0}, a % d = 0
  PROVE  a \div d \in Nat /\ (a \div d) * d = a
OBVIOUS

LEMMA Quotient ==
  ASSUME NEW a \in Nat, NEW d \in Nat \ {0}
  PROVE  a \div d \in Nat /\ (a \div d) * d <= a
<1>1. a \div d \in Nat /\ a % d \in 0..(d - 1) /\ a = d * (a \div d) + (a % d)
  OBVIOUS
<1> QED BY <1>1

\* As many times as it goes is at least every number of times it goes.
LEMMA GoesInto ==
  ASSUME NEW m \in Nat, NEW p \in Nat \ {0}, NEW n \in Nat, n * p <= m
  PROVE  n <= m \div p
<1> DEFINE q == m \div p
<1>1. q \in Nat /\ m % p \in 0..(p - 1) /\ m = p * q + (m % p)
  OBVIOUS
<1> HIDE DEF q
<1> SUFFICES ASSUME q < n PROVE FALSE
  BY <1>1 DEF q
<1>2. p * (q + 1) <= p * n
  BY <1>1
<1> QED BY <1>1, <1>2

LEMMA PageIs == ASSUME model \in Geometry PROVE Plan!MlaPage \in Nat \ {0}
BY DEF Geometry, Plan!MlaPage

\* The block of the exact fit is made of kernel blocks and fills the page.
LEMMA FitIs ==
  ASSUME model \in Geometry
  PROVE  /\ Plan!Fit \in Nat
         /\ Plan!Fit > 0 => Plan!Fit % 64 = 0 /\ Plan!Fit * model.draftToken = Plan!MlaPage
<1> DEFINE n == IF Plan!MlaPage % model.draftToken = 0 THEN Plan!MlaPage \div model.draftToken ELSE 0
<1>1. n \in Nat /\ (n > 0 => n * model.draftToken = Plan!MlaPage)
  <2>1. model.draftToken \in Nat \ {0} /\ Plan!MlaPage \in Nat
    BY PageIs DEF Geometry
  <2> QED BY <2>1, Exact
<1>2. Plan!Fit = 0 \/ (Plan!Fit = n /\ n % 64 = 0)
  BY DEF Plan!Fit, Plan!Kernel
<1> HIDE DEF n
<1> QED BY <1>1, <1>2

\* The drafter's block: kernel blocks in a page no larger than that of MLA.
LEMMA DraftIs ==
  ASSUME model \in Geometry, draft = Plan!DraftSpec
  PROVE  /\ draft.block \in Nat \ {0} /\ draft.page \in Nat /\ draft.block % 64 = 0
         /\ draft.page = Plan!MlaPage
         /\ draft.padded => draft.block = 64
         /\ ~draft.padded => draft.block * model.draftToken = draft.page
<1>1. CASE Plan!Fit > 0
  <2>1. /\ draft.block = Plan!Fit /\ draft.page = Plan!Fit * model.draftToken
        /\ draft.padded = FALSE
    BY <1>1 DEF Plan!DraftSpec
  <2> QED BY <1>1, <2>1, FitIs, PageIs
<1>2. CASE ~(Plan!Fit > 0)
  <2>1. draft.block = 64 /\ draft.page = Plan!MlaPage /\ draft.padded = TRUE
    BY <1>2 DEF Plan!DraftSpec, Plan!Kernel
  <2> QED BY <2>1, PageIs
<1> QED BY <1>1, <1>2

LEMMA CostIs ==
  ASSUME model \in Geometry, Plan!Drafted => draft = Plan!DraftSpec
  PROVE  Plan!PerBlock \in Nat \ {0} /\ Plan!Needed \in Nat
<1>1. /\ model.mlas \in Nat \ {0} /\ model.idxPage \in Nat /\ model.drafts \in Nat
      /\ model.length \in Nat /\ model.mlaBlock \in Nat \ {0} /\ model.states \in Nat
      /\ model.window \in Nat \ {0} /\ model.batch \in Nat
  BY DEF Geometry
<1>2. model.mlas * Plan!MlaPage \in Nat \ {0}
  BY <1>1, PageIs
<1> DEFINE extra == IF Plan!Drafted /\ ~Plan!Shared THEN model.drafts * draft.page ELSE 0
<1>3. extra \in Nat
  BY <1>1, DraftIs
<1>4. Plan!PerBlock = model.mlas * Plan!MlaPage + model.idxPage + extra
  BY DEF Plan!PerBlock
<1> HIDE DEF extra
<1>5. Plan!PerBlock \in Nat \ {0}
  BY <1>1, <1>2, <1>3, <1>4
<1>6. Plan!Drafted => Plan!WindowPages \in Nat
  <2> SUFFICES ASSUME Plan!Drafted PROVE Plan!WindowPages \in Nat
    OBVIOUS
  <2> DEFINE d == draft.block
             a == model.window - 1 + model.batch + d - 1
  <2>1. d \in Nat \ {0}
    BY DraftIs
  <2>2. a \in Nat
    BY <1>1, <2>1
  <2> HIDE DEF a, d
  <2>3. a \div d \in Nat
    BY <2>1, <2>2, Quotient
  <2>4. Plan!WindowPages = a \div d + 1
    BY DEF Plan!WindowPages, a, d
  <2> QED BY <2>3, <2>4
<1>7. (model.length + model.mlaBlock - 1) \div model.mlaBlock \in Nat
  <2>1. model.length + model.mlaBlock - 1 \in Nat
    BY <1>1
  <2> QED BY <1>1, <2>1, Quotient
<1>8. Plan!Needed \in Nat
  <2> DEFINE w == IF Plan!Drafted THEN Plan!WindowPages ELSE 0
             q == (model.length + model.mlaBlock - 1) \div model.mlaBlock
  <2>1. w \in Nat /\ q \in Nat
    BY <1>6, <1>7
  <2>2. Plan!Needed = q + 1 + model.states + w
    BY DEF Plan!Needed
  <2> HIDE DEF w, q
  <2> QED BY <1>1, <2>1, <2>2
<1> QED BY <1>5, <1>8

----------------------------------------------------------------------------
(* The plan: what every step keeps                                         *)

PlanTyped ==
  /\ model \in Geometry /\ memory \in Nat
  /\ pc \in {"groups", "layout", "coordinate", "up", "generic", "dead"}

\* Past the groups the drafter's spec is the one the model asks for, and its
\* kernel blocks fit the page.
DraftSet ==
  pc \in {"layout", "coordinate", "up"} /\ Plan!Drafted =>
    draft = Plan!DraftSpec /\ draft.block * model.draftToken <= draft.page

\* Past the layout the pool is sized by the memory and holds a request.
PoolSet ==
  pc \in {"coordinate", "up"} =>
    /\ Plan!ValidLayout /\ Plan!Needed * Plan!PerBlock <= memory
    /\ blocks = memory \div Plan!PerBlock

\* What is up has the vector and the granularity the coordinator worked out.
VectorSet ==
  pc = "up" =>
    /\ retain = [g \in Plan!Names |->
         IF "retention" \in applied THEN Plan!RetentionFor(g) ELSE env.global]
    /\ "retention" \in applied => ~Plan!Misdirected
    /\ partial = (Plan!Vetoes = {})

PlanInv == part = "plan" => PlanTyped /\ DraftSet /\ PoolSet /\ VectorSet

\* What is worked out from the model and the drafter's spec alone.
LEMMA SameSpec ==
  ASSUME UNCHANGED model
  PROVE  /\ Plan!Drafted' <=> Plan!Drafted
         /\ Plan!DraftSpec' = Plan!DraftSpec
<1>1. Plan!Fit' = Plan!Fit
  BY DEF Plan!Fit, Plan!MlaPage, Plan!Kernel
<1> QED BY <1>1 DEF Plan!DraftSpec, Plan!MlaPage, Plan!Kernel, Plan!Drafted

LEMMA SamePool ==
  ASSUME UNCHANGED <<model, draft>>
  PROVE  /\ Plan!ValidLayout' <=> Plan!ValidLayout
         /\ Plan!PerBlock' = Plan!PerBlock /\ Plan!Needed' = Plan!Needed
<1>1. (Plan!Shared' <=> Plan!Shared) /\ (Plan!Drafted' <=> Plan!Drafted) /\ Plan!MlaPage' = Plan!MlaPage
  BY DEF Plan!Shared, Plan!Drafted, Plan!MlaPage
<1>2. Plan!ValidLayout' <=> Plan!ValidLayout
  BY <1>1 DEF Plan!ValidLayout, Plan!Kernel
<1>3. Plan!PerBlock' = Plan!PerBlock
  BY <1>1 DEF Plan!PerBlock
<1>4. Plan!Needed' = Plan!Needed
  BY <1>1 DEF Plan!Needed, Plan!WindowPages
<1> QED BY <1>2, <1>3, <1>4

LEMMA SameVector ==
  ASSUME UNCHANGED <<model, draft, applied, env>>
  PROVE  /\ Plan!Names' = Plan!Names /\ Plan!Vetoes' = Plan!Vetoes
         /\ Plan!Misdirected' <=> Plan!Misdirected
         /\ \A g : Plan!RetentionFor(g)' = Plan!RetentionFor(g)
<1>1. Plan!Names' = Plan!Names /\ (Plan!Drafted' <=> Plan!Drafted)
  BY DEF Plan!Names, Plan!Drafted
<1>2. Plan!Exempt' = Plan!Exempt
  BY <1>1 DEF Plan!Exempt, Plan!Eagle
<1>3. Plan!Scheduler' = Plan!Scheduler
  BY <1>1 DEF Plan!Scheduler
<1>4. \A g : Plan!RetentionFor(g)' = Plan!RetentionFor(g)
  BY <1>2, <1>3 DEF Plan!RetentionFor, Plan!Unset
<1>5. Plan!Vetoes' = Plan!Vetoes
  BY <1>1 DEF Plan!Vetoes, Plan!BlockOf, Plan!Participates
<1> QED BY <1>1, <1>2, <1>4, <1>5 DEF Plan!Misdirected, Plan!Unset

LEMMA PlanInit ==
  ASSUME PartsInit
  PROVE  PlanInv
<1> SUFFICES ASSUME part = "plan" PROVE PlanTyped /\ DraftSet /\ PoolSet /\ VectorSet
  BY DEF PlanInv
<1>1. Plan!Init
  BY DEF PartsInit
<1>2. pc = "groups" /\ model \in Geometry /\ memory \in Nat
  BY <1>1, PlanAssumption DEF Plan!Init, Geometry
<1> QED BY <1>2 DEF PlanTyped, DraftSet, PoolSet, VectorSet

LEMMA PlanStep ==
  ASSUME PlanTyped, DraftSet, PoolSet, VectorSet, Plan!Next
  PROVE  PlanTyped' /\ DraftSet' /\ PoolSet' /\ VectorSet'
<1>1. UNCHANGED <<model, memory, applied, env>>
  BY DEF Plan!Next, Plan!Groups, Plan!Layout, Plan!Coordinate
<1>2. CASE Plan!Groups
  <2>1. pc' \in {"layout", "dead"}
    BY <1>2 DEF Plan!Groups
  <2>2. pc' = "layout" /\ Plan!Drafted => draft' = Plan!DraftSpec /\ draft'.block * model.draftToken <= draft'.page
    BY <1>2 DEF Plan!Groups
  <2>3. DraftSet'
    BY <1>1, <2>1, <2>2, SameSpec DEF DraftSet
  <2> QED BY <1>1, <2>1, <2>3 DEF PlanTyped, PoolSet, VectorSet
<1>3. CASE Plan!Layout
  <2>1. pc = "layout" /\ pc' \in {"generic", "dead", "coordinate"} /\ UNCHANGED draft
    BY <1>3 DEF Plan!Layout
  <2>2. DraftSet'
    BY <1>1, <2>1, SameSpec DEF DraftSet
  <2>3. PoolSet'
    <3> SUFFICES ASSUME pc' = "coordinate"
                 PROVE  /\ Plan!ValidLayout' /\ Plan!Needed' * Plan!PerBlock' <= memory'
                        /\ blocks' = memory' \div Plan!PerBlock'
      BY <2>1 DEF PoolSet
    <3>1. Plan!ValidLayout /\ ~(Plan!Needed * Plan!PerBlock > memory) /\ blocks' = memory \div Plan!PerBlock
      BY <1>3 DEF Plan!Layout
    <3>2. Plan!PerBlock \in Nat /\ Plan!Needed \in Nat /\ memory \in Nat
      BY <2>1, CostIs DEF DraftSet, PlanTyped
    <3>3. Plan!Needed * Plan!PerBlock <= memory
      BY <3>1, <3>2
    <3> QED BY <1>1, <2>1, <3>1, <3>3, SamePool
  <2> QED BY <1>1, <2>1, <2>2, <2>3 DEF PlanTyped, VectorSet
<1>4. CASE Plan!Coordinate
  <2>1. pc = "coordinate" /\ pc' \in {"dead", "up"} /\ UNCHANGED <<draft, blocks>>
    BY <1>4 DEF Plan!Coordinate
  <2>2. DraftSet'
    BY <1>1, <2>1, SameSpec DEF DraftSet
  <2>3. PoolSet'
    BY <1>1, <2>1, SamePool DEF PoolSet
  <2>4. VectorSet'
    <3> SUFFICES ASSUME pc' = "up" PROVE VectorSet'
      BY DEF VectorSet
    <3>1. /\ retain' = [g \in Plan!Names |->
               IF "retention" \in applied THEN Plan!RetentionFor(g) ELSE env.global]
          /\ "retention" \in applied => ~Plan!Misdirected
          /\ partial' = (Plan!Vetoes = {})
      BY <1>4 DEF Plan!Coordinate
    <3> QED BY <1>1, <2>1, <3>1, SameVector DEF VectorSet
  <2> QED BY <1>1, <2>1, <2>2, <2>3, <2>4 DEF PlanTyped
<1> QED BY <1>2, <1>3, <1>4 DEF Plan!Next

LEMMA PlanInductive ==
  ASSUME PlanInv, [PartsNext]_<<part, vars, kvars, ovars, mvars>>
  PROVE  PlanInv'
<1> SUFFICES ASSUME part' = "plan" PROVE PlanInv'
  BY DEF PlanInv
<1>1. part = "plan" /\ (Plan!Next \/ UNCHANGED kvars)
  BY DEF PartsNext, Indexing, Planning, Constraining, Multiplying
<1>2. PlanTyped /\ DraftSet /\ PoolSet /\ VectorSet
  BY <1>1 DEF PlanInv
<1>3. CASE Plan!Next
  BY <1>2, <1>3, PlanStep DEF PlanInv
<1>4. CASE UNCHANGED kvars
  <2>1. UNCHANGED <<pc, model, memory, draft, blocks, applied, env, retain, partial>>
    BY <1>4 DEF kvars
  <2>2. PlanTyped' /\ DraftSet'
    BY <1>2, <2>1, SameSpec DEF PlanTyped, DraftSet
  <2>3. PoolSet'
    BY <1>2, <2>1, SamePool DEF PoolSet
  <2>4. VectorSet'
    BY <1>2, <2>1, SameVector DEF VectorSet
  <2> QED BY <2>2, <2>3, <2>4 DEF PlanInv
<1> QED BY <1>1, <1>3, <1>4

LEMMA PlanInvariance == PartsSpec => []PlanInv
<1>1. PartsInit => PlanInv
  BY PlanInit
<1>2. PlanInv /\ [PartsNext]_<<part, vars, kvars, ovars, mvars>> => PlanInv'
  BY PlanInductive
<1> QED BY <1>1, <1>2, PTL DEF PartsSpec

----------------------------------------------------------------------------
(* The plan: theorems                                                      *)

\* Kernel block j of a manager block of n tokens at a page of P bytes.
LEMMA KernelBlockFits ==
  ASSUME NEW t \in Nat \ {0}, NEW k \in Nat, NEW b \in Int, NEW P \in Nat,
         (k * 64) * t <= P, NEW j \in 0..(k - 1)
  PROVE  /\ b * P + (j * 64) * t >= b * P
         /\ b * P + (j * 64) * t + 64 * t <= (b + 1) * P
<1>1. (j * 64) * t \in Nat
  OBVIOUS
<1>2. (j * 64) * t + 64 * t = ((j + 1) * 64) * t
  OBVIOUS
<1>3. ((j + 1) * 64) * t <= (k * 64) * t
  <2>1. (j + 1) * 64 <= k * 64 /\ (j + 1) * 64 \in Nat /\ k * 64 \in Nat
    OBVIOUS
  <2> DEFINE x == (j + 1) * 64
             y == k * 64
  <2> HIDE DEF x, y
  <2>2. x <= y /\ x \in Nat /\ y \in Nat
    BY <2>1 DEF x, y
  <2>3. x * t <= y * t
    BY <2>2
  <2> QED BY <2>3 DEF x, y
<1>4. (b + 1) * P = b * P + P /\ b * P \in Int
  OBVIOUS
<1> DEFINE u == (j * 64) * t
           v == ((j + 1) * 64) * t
           w == b * P
<1>5. u \in Nat /\ v \in Nat /\ w \in Int /\ v <= P
  BY <1>3
<1> QED BY <1>1, <1>2, <1>4, <1>5

LEMMA KernelBlocksHold ==
  ASSUME PlanTyped, DraftSet, PoolSet
  PROVE  Plan!KernelBlocksStayInTheirPage
<1> SUFFICES ASSUME pc = "up", Plan!Drafted PROVE Plan!KernelBlocksStayInTheirPage
  BY DEF Plan!KernelBlocksStayInTheirPage
<1> DEFINE k == draft.block \div 64
           t == model.draftToken
           P == Plan!MlaPage
           at(b, j) == IF draft.padded THEN (b * k + j) * draft.page
                       ELSE b * draft.page + (j * 64) * t
<1>1. draft = Plan!DraftSpec /\ draft.block * t <= draft.page /\ model \in Geometry
  BY DEF DraftSet, PlanTyped
<1>2. /\ draft.block \in Nat \ {0} /\ draft.block % 64 = 0 /\ draft.page = P
      /\ draft.padded => draft.block = 64
  BY <1>1, DraftIs
<1>3. t \in Nat \ {0} /\ P \in Nat \ {0}
  BY <1>1, PageIs DEF Geometry
<1>4. k \in Nat /\ draft.block = k * 64
  BY <1>2, Exact
<1>5. blocks \in Nat
  <2>1. blocks = memory \div Plan!PerBlock /\ memory \in Nat /\ Plan!PerBlock \in Nat \ {0}
    BY <1>1, CostIs DEF PoolSet, PlanTyped
  <2> QED BY <2>1, Quotient
<1>6. (k * 64) * t <= P
  BY <1>1, <1>2, <1>4
<1>7. ASSUME NEW b \in Int, NEW j \in 0..(k - 1)
      PROVE  at(b, j) >= b * P /\ at(b, j) + 64 * t <= (b + 1) * P
  <2>1. CASE draft.padded
    <3>1. k = 1 /\ j = 0
      BY <1>2, <1>4, <2>1
    <3>2. at(b, j) = b * P
      BY <1>2, <1>3, <2>1, <3>1
    <3>3. 64 * t <= P /\ (b + 1) * P = b * P + P /\ b * P \in Int
      BY <1>3, <1>6, <3>1
    <3> HIDE DEF at, t, P, k
    <3> QED BY <1>3, <3>2, <3>3
  <2>2. CASE ~draft.padded
    <3>1. at(b, j) = b * P + (j * 64) * t
      BY <1>2, <2>2
    <3> HIDE DEF at, t, P, k
    <3> QED BY <1>3, <1>4, <1>6, <3>1, KernelBlockFits
  <2> QED BY <2>1, <2>2
<1>8. \A b \in {0, 1, blocks - 1}, j \in 0..(k - 1) :
        at(b, j) >= b * P /\ at(b, j) + 64 * t <= (b + 1) * P
  <2>1. {0, 1, blocks - 1} \subseteq Int
    BY <1>5
  <2> HIDE DEF at, t, P, k
  <2> QED BY <1>7, <2>1
<1> QED BY <1>4, <1>8 DEF Plan!KernelBlocksStayInTheirPage, Plan!Kernel

LEMMA PoolHolds ==
  ASSUME PlanTyped, DraftSet, PoolSet
  PROVE  Plan!RequestFitsThePool
<1> SUFFICES ASSUME pc \in {"coordinate", "up"}
             PROVE  /\ blocks * Plan!PerBlock <= memory /\ blocks >= Plan!Needed
                    /\ Plan!Shared => model.drafts <= model.mlas
  BY DEF Plan!RequestFitsThePool
<1>1. /\ Plan!PerBlock \in Nat \ {0} /\ Plan!Needed \in Nat /\ memory \in Nat
      /\ Plan!Needed * Plan!PerBlock <= memory /\ blocks = memory \div Plan!PerBlock
      /\ Plan!ValidLayout
  BY CostIs DEF PoolSet, PlanTyped, DraftSet
<1>2. blocks * Plan!PerBlock <= memory /\ blocks \in Nat
  BY <1>1, Quotient
<1>3. Plan!Needed <= blocks
  BY <1>1, GoesInto
<1>4. Plan!Shared => model.drafts <= model.mlas
  BY <1>1 DEF Plan!Shared, Plan!ValidLayout
<1> QED BY <1>1, <1>2, <1>3, <1>4

LEMMA RetentionHolds ==
  ASSUME VectorSet
  PROVE  Plan!RetentionOnlyStarvesTheExempt
<1> SUFFICES ASSUME pc = "up" PROVE Plan!RetentionOnlyStarvesTheExempt
  BY DEF Plan!RetentionOnlyStarvesTheExempt
<1>1. /\ retain = [g \in Plan!Names |->
           IF "retention" \in applied THEN Plan!RetentionFor(g) ELSE env.global]
      /\ "retention" \in applied => ~Plan!Misdirected
  BY DEF VectorSet
<1>2. Plan!Exempt \subseteq {"swa"} /\ Plan!Exempt \cap Plan!InMin = {} /\ Plan!Exempt \subseteq Plan!Names
  <2>1. CASE Plan!Drafted /\ "hybrid" \notin applied
    <3>1. Plan!Eagle = Plan!Names /\ "mla" \in Plan!Names
      BY <2>1 DEF Plan!Eagle, Plan!Names
    <3>2. Plan!Eagle # Plan!Names \cap {"swa"}
      BY <3>1
    <3> QED BY <3>2 DEF Plan!Exempt
  <2>2. CASE ~Plan!Drafted
    BY <2>2 DEF Plan!Exempt, Plan!Eagle
  <2>3. CASE Plan!Drafted /\ "hybrid" \in applied
    BY <2>3 DEF Plan!Exempt, Plan!Eagle, Plan!InMin, Plan!Names
  <2> QED BY <2>1, <2>2, <2>3
<1>3. ASSUME NEW g \in Plan!InMin PROVE retain[g] = env.global
  <2>1. g \in Plan!Names /\ g \notin Plan!Exempt
    BY <1>2 DEF Plan!InMin
  <2> QED BY <1>1, <2>1 DEF Plan!RetentionFor
<1>4. ASSUME "retention" \in applied, env.swa # Plan!Unset
      PROVE  "swa" \in Plan!Names /\ retain["swa"] = env.swa
  <2>1. Plan!Exempt # {}
    BY <1>1, <1>4 DEF Plan!Misdirected
  <2>2. "swa" \in Plan!Exempt /\ "swa" \in Plan!Names
    BY <1>2, <2>1
  <2> QED BY <1>1, <1>4, <2>2 DEF Plan!RetentionFor
<1> QED BY <1>3, <1>4 DEF Plan!RetentionOnlyStarvesTheExempt

LEMMA PartialHolds ==
  ASSUME VectorSet
  PROVE  Plan!PartialLookupsAreSupported
BY DEF VectorSet, Plan!PartialLookupsAreSupported, Plan!Vetoes

\* The boot 8 failure cannot come back, whatever the block, the token sizes
\* and the pool: every kernel block of the drafter lies in its page of the
\* MLA tensor (patch_glm5_drafter_group.py:35-58).
THEOREM PagesDoNotOverlap == PartsSpec => []KernelBlocksStayInTheirPage
<1>1. PlanInv => KernelBlocksStayInTheirPage
  BY KernelBlocksHold DEF PlanInv, KernelBlocksStayInTheirPage
<1> QED BY <1>1, PlanInvariance, PTL

\* What boots has a pool within the memory and no smaller than one request of
\* full length (patch_glm5_drafter_group.py:420-560).
THEOREM PoolHoldsARequest == PartsSpec => []RequestFitsThePool
<1>1. PlanInv => RequestFitsThePool
  BY PoolHolds DEF PlanInv, RequestFitsThePool
<1> QED BY <1>1, PlanInvariance, PTL

\* For every set of overlays and settings only the group that cannot shorten
\* a hit is kept sparser, and a setting for it is in force or refused
\* (patch_apc_per_group_retention.py:137-250).
THEOREM OnlyTheExemptIsSparse == PartsSpec => []RetentionOnlyStarvesTheExempt
<1>1. PlanInv => RetentionOnlyStarvesTheExempt
  BY RetentionHolds DEF PlanInv, RetentionOnlyStarvesTheExempt
<1> QED BY <1>1, PlanInvariance, PTL

\* Partial hits are on only where every group that takes part supports them
\* (patch_fine_grained_apc.py:46-57).
THEOREM PartialHitsAreSupported == PartsSpec => []PartialLookupsAreSupported
<1>1. PlanInv => PartialLookupsAreSupported
  BY PartialHolds DEF PlanInv, PartialLookupsAreSupported
<1> QED BY <1>1, PlanInvariance, PTL

----------------------------------------------------------------------------
(* The experts: the slices of the ranks                                    *)

LEMMA DivBound ==
  ASSUME NEW i \in Nat, NEW d \in Nat \ {0}, NEW a \in Nat
  PROVE  i \div d >= a <=> i >= d * a
<1> DEFINE q == i \div d
<1>1. q \in Nat /\ i % d \in 0..(d - 1) /\ i = d * q + (i % d)
  OBVIOUS
<1> HIDE DEF q
<1>2. ASSUME q >= a PROVE i >= d * a
  <2>1. d * q >= d * a
    BY <1>1, <1>2
  <2> QED BY <1>1, <2>1
<1>3. ASSUME q < a PROVE i < d * a
  <2>1. d * (q + 1) <= d * a
    BY <1>1, <1>3
  <2>2. d * (q + 1) = d * q + d
    BY <1>1
  <2> QED BY <1>1, <2>1, <2>2
<1>4. q >= a <=> i >= d * a
  BY <1>1, <1>2, <1>3
<1> QED BY <1>4 DEF q

\* What falls to rank r when each gets c.
Share(c, r) == (c * r)..(c * (r + 1) - 1)

\* p ranks with c each: rank r has the indices of its k tiles of T.
Dealt(T, k, p, c) ==
  /\ \A r \in 0..(p - 1) : Share(c, r) \subseteq 0..(p * c - 1)
  /\ \A r \in 0..(p - 1), i \in 0..(p * c - 1) :
       i \in Share(c, r) <=> i \div T \in Share(k, r)
  /\ \A i \in 0..(p * c - 1) : \E r \in 0..(p - 1) : i \in Share(c, r)
  /\ \A r, s \in 0..(p - 1) : r # s => Share(c, r) \cap Share(c, s) = {}

LEMMA SharesAre ==
  ASSUME NEW T \in Nat \ {0}, NEW k \in Nat, NEW p \in Nat \ {0}, NEW c \in Nat, c = T * k
  PROVE  Dealt(T, k, p, c)
<1> USE DEF Share
<1>1. ASSUME NEW r \in 0..(p - 1)
      PROVE  /\ c * r \in Nat /\ c * (r + 1) \in Nat
             /\ Share(c, r) \subseteq 0..(p * c - 1)
  <2>1. c * (r + 1) <= c * p /\ c * p = p * c
    OBVIOUS
  <2>2. c * r \in Nat /\ c * (r + 1) \in Nat
    OBVIOUS
  <2> QED BY <2>1, <2>2
<1>2. ASSUME NEW r \in 0..(p - 1), NEW i \in 0..(p * c - 1)
      PROVE  i \in Share(c, r) <=> i \div T \in Share(k, r)
  <2>0. i \in Nat
    <3>1. p * c \in Nat
      OBVIOUS
    <3> QED BY <3>1
  <2>1. k * r \in Nat /\ k * (r + 1) \in Nat /\ T * (k * r) = c * r /\ T * (k * (r + 1)) = c * (r + 1)
    OBVIOUS
  <2>2. i \div T >= k * r <=> i >= c * r
    BY <2>0, <2>1, DivBound
  <2>3. i \div T >= k * (r + 1) <=> i >= c * (r + 1)
    BY <2>0, <2>1, DivBound
  <2>4. i \div T \in Nat
    BY <2>0
  <2> QED BY <1>1, <2>0, <2>1, <2>2, <2>3, <2>4
<1>3. ASSUME NEW i \in 0..(p * c - 1) PROVE \E r \in 0..(p - 1) : i \in Share(c, r)
  <2>1. c # 0
    <3> SUFFICES ASSUME c = 0 PROVE FALSE
      OBVIOUS
    <3>1. p * c = 0
      OBVIOUS
    <3> QED BY <3>1
  <2> DEFINE r == i \div c
  <2>2. r \in Nat /\ i \in Nat /\ i <= p * c - 1
    BY <2>1
  <2>3. r >= r <=> i >= c * r
    BY <2>1, <2>2, DivBound
  <2>4. r >= r + 1 <=> i >= c * (r + 1)
    BY <2>1, <2>2, DivBound
  <2>5. r >= p <=> i >= c * p
    BY <2>1, <2>2, DivBound
  <2>6. c * r \in Nat /\ c * (r + 1) \in Nat /\ c * p = p * c /\ c * p \in Nat
    BY <2>2
  <2> HIDE DEF r
  <2>7. r \in 0..(p - 1) /\ i \in Share(c, r)
    BY <2>2, <2>3, <2>4, <2>5, <2>6
  <2> QED BY <2>7
<1>4. ASSUME NEW r \in 0..(p - 1), NEW s \in 0..(p - 1), r < s
      PROVE  Share(c, r) \cap Share(c, s) = {}
  <2>1. c * (r + 1) <= c * s
    BY <1>4
  <2> QED BY <1>1, <2>1
<1>5. ASSUME NEW r \in 0..(p - 1), NEW s \in 0..(p - 1), r # s
      PROVE  Share(c, r) \cap Share(c, s) = {}
  <2>1. r < s \/ s < r
    BY <1>5
  <2>2. CASE r < s
    BY <1>4, <2>2
  <2>3. CASE s < r
    BY <1>4, <2>3
  <2> QED BY <2>1, <2>2, <2>3
<1> HIDE DEF Share
<1> QED BY <1>1, <1>2, <1>3, <1>5 DEF Dealt

\* The sizes divide: without it no shard is loaded.
Divides ==
  /\ setup.inter % setup.tp = 0
  /\ (setup.inter \div setup.tp) % Tile = 0

Held(id) == [r \in Moe!Ranks |-> IF id = "w2" THEN Moe!ShardRow(r) ELSE Moe!ShardCol(r)]

SlicesSet ==
  /\ setup \in Setups
  /\ step = "load" => (setup.inter \div setup.tp) % Tile = 0
  /\ \A id \in DOMAIN slices : Divides /\ slices[id] = Held(id)

LEMMA Product ==
  ASSUME NEW d \in Nat \ {0}, NEW x \in Nat
  PROVE  (d * x) \div d = x
<1> DEFINE n == d * x
           q == n \div d
<1>1. n \in Nat /\ n % d \in 0..(d - 1) /\ q \in Nat /\ n = d * q + (n % d)
  OBVIOUS
<1>2. q >= x <=> n >= d * x
  BY <1>1, DivBound
<1>3. q >= x + 1 <=> n >= d * (x + 1)
  BY <1>1, DivBound
<1>4. d * (x + 1) = n + d
  OBVIOUS
<1> HIDE DEF q
<1> QED BY <1>1, <1>2, <1>3, <1>4 DEF q

\* Whole tiles of every rank.
LEMMA SizesAre ==
  ASSUME setup \in Setups, Divides
  PROVE  LET c == setup.inter \div setup.tp
             k == c \div Tile
         IN  /\ c \in Nat /\ k \in Nat /\ c = Tile * k /\ setup.inter = setup.tp * c
             /\ (setup.inter \div Tile) \div setup.tp = k
<1> DEFINE c == setup.inter \div setup.tp
           k == c \div Tile
<1>1. setup.tp \in Nat \ {0} /\ setup.inter \in Nat /\ Tile \in Nat \ {0}
  BY ExpertsAssumption
<1>2. c \in Nat /\ c * setup.tp = setup.inter
  BY <1>1, Exact DEF Divides
<1>3. c % Tile = 0
  BY DEF Divides
<1> HIDE DEF c
<1>4. k \in Nat /\ k * Tile = c
  BY <1>1, <1>2, <1>3, Exact
<1> HIDE DEF k
<1>5. setup.inter = Tile * (setup.tp * k) /\ setup.tp * k \in Nat
  BY <1>1, <1>2, <1>4
<1>6. setup.inter \div Tile = setup.tp * k
  BY <1>1, <1>5, Product
<1>7. (setup.inter \div Tile) \div setup.tp = k
  BY <1>1, <1>4, <1>6, Product
<1>8. c = Tile * k /\ setup.inter = setup.tp * c
  BY <1>1, <1>2, <1>4
<1> QED BY <1>2, <1>4, <1>7, <1>8 DEF c, k

LEMMA RanksShareHolds ==
  ASSUME SlicesSet
  PROVE  Moe!RanksShareTheExpert
<1> SUFFICES ASSUME DOMAIN slices = {"w1", "w2", "w3"} PROVE Moe!RanksShareTheExpert
  BY DEF Moe!RanksShareTheExpert
<1> DEFINE c == setup.inter \div setup.tp
           k == c \div Tile
           p == setup.tp
           of(id, r) == IF id = "w2" THEN slices[id][r].suh ELSE slices[id][r].svh
<1>1. setup \in Setups /\ Divides /\ \A id \in {"w1", "w2", "w3"} : slices[id] = Held(id)
  BY DEF SlicesSet
<1>2. /\ c \in Nat /\ k \in Nat /\ c = Tile * k /\ setup.inter = p * c
      /\ (setup.inter \div Tile) \div p = k
  BY <1>1, SizesAre
<1>3. p \in Nat \ {0} /\ Tile \in Nat \ {0}
  BY <1>1, ExpertsAssumption
<1>4. \A r \in Moe!Ranks :
        /\ slices["w2"][r].suh = Share(c, r) /\ slices["w1"][r].svh = Share(c, r)
        /\ slices["w3"][r].svh = Share(c, r) /\ slices["w2"][r].tiles = Share(k, r)
  BY <1>1, <1>2 DEF Held, Moe!ShardRow, Moe!ShardCol, Moe!Narrow, Share
<1>5. Moe!Ranks = 0..(p - 1) /\ Moe!Whole(setup.inter) = 0..(p * c - 1)
  BY <1>2 DEF Moe!Ranks, Moe!Whole
<1> HIDE DEF c, k, p
<1>6. Dealt(Tile, k, p, c)
  BY <1>2, <1>3, SharesAre
<1>7. \A r \in Moe!Ranks : of("w1", r) = Share(c, r) /\ of("w2", r) = Share(c, r) /\ of("w3", r) = Share(c, r)
  BY <1>4
<1> HIDE DEF of
<1>8. \A r \in Moe!Ranks :
        of("w2", r) = {i \in Moe!Whole(setup.inter) : i \div Tile \in slices["w2"][r].tiles}
  <2> TAKE r \in Moe!Ranks
  <2>1. of("w2", r) = Share(c, r) /\ slices["w2"][r].tiles = Share(k, r) /\ r \in 0..(p - 1)
    BY <1>4, <1>5, <1>7
  <2> DEFINE N == 0..(p * c - 1)
             T == Share(k, r)
  <2>2. Share(c, r) \subseteq N /\ \A i \in N : i \in Share(c, r) <=> i \div Tile \in T
    BY <1>6, <2>1 DEF Dealt
  <2>3. Moe!Whole(setup.inter) = N
    BY <1>5
  <2> HIDE DEF N, T
  <2>4. Share(c, r) = {i \in N : i \div Tile \in T}
    BY <2>2
  <2> QED BY <2>1, <2>3, <2>4 DEF T
<1>9. UNION {of("w2", r) : r \in Moe!Ranks} = Moe!Whole(setup.inter)
  <2> DEFINE N == 0..(p * c - 1)
             R == 0..(p - 1)
  <2>1. /\ \A r \in R : of("w2", r) \subseteq N
        /\ \A i \in N : \E r \in R : i \in of("w2", r)
    BY <1>5, <1>6, <1>7 DEF Dealt
  <2>2. Moe!Ranks = R /\ Moe!Whole(setup.inter) = N
    BY <1>5
  <2> HIDE DEF N, R
  <2> QED BY <2>1, <2>2
<1>10. \A r, s \in Moe!Ranks : r # s => of("w2", r) \cap of("w2", s) = {}
  BY <1>5, <1>6, <1>7 DEF Dealt
<1> QED BY <1>7, <1>8, <1>9, <1>10 DEF Moe!RanksShareTheExpert, of

LEMMA SlicesStep ==
  ASSUME SlicesSet, Moe!Next \/ UNCHANGED mvars
  PROVE  SlicesSet'
<1>1. setup' = setup
  BY DEF Moe!Next, Moe!CreateWeights, Moe!LoadShard, Moe!ProcessWeights, Moe!Apply, mvars
<1>2. (Divides' <=> Divides) /\ \A id : Held(id)' = Held(id)
  BY <1>1 DEF Divides, Held, Moe!Ranks, Moe!ShardRow, Moe!ShardCol, Moe!Narrow
<1>3. CASE Moe!CreateWeights
  <2>1. slices' = << >> /\ (step' = "load" => (setup.inter \div setup.tp) % Tile = 0)
    BY <1>3 DEF Moe!CreateWeights
  <2>2. DOMAIN slices' = {}
    BY <2>1
  <2> QED BY <1>1, <2>1, <2>2 DEF SlicesSet
<1>4. CASE \E id \in {"w1", "w2", "w3"} : Moe!LoadShard(id)
  <2>1. PICK id \in {"w1", "w2", "w3"} : Moe!LoadShard(id)
    BY <1>4
  <2>2. step = "load"
    BY <2>1 DEF Moe!LoadShard
  <2>3. CASE UNCHANGED slices
    BY <1>1, <1>2, <2>2, <2>3 DEF SlicesSet
  <2>4. CASE ~UNCHANGED slices
    <3>1. /\ slices' = [i \in DOMAIN slices \cup {id} |-> IF i = id THEN Held(id) ELSE slices[i]]
          /\ Moe!Narrows(setup.inter)
      BY <2>1, <2>4 DEF Moe!LoadShard, Held
    <3>2. Divides
      BY <2>2, <3>1 DEF SlicesSet, Divides, Moe!Narrows
    <3>3. \A i \in DOMAIN slices' : slices'[i] = Held(i)
      BY <3>1 DEF SlicesSet
    <3> QED BY <1>1, <1>2, <2>2, <3>2, <3>3 DEF SlicesSet
  <2> QED BY <2>3, <2>4
<1>5. CASE (\E shared, marker \in BOOLEAN : Moe!ProcessWeights(shared, marker)) \/ (\E r \in Moe!Batches : Moe!Apply(r))
  <2>1. slices' = slices /\ step' # "load"
    BY <1>5 DEF Moe!ProcessWeights, Moe!Apply, Moe!Served
  <2> QED BY <1>1, <1>2, <2>1 DEF SlicesSet
<1>6. CASE UNCHANGED mvars
  BY <1>1, <1>2, <1>6 DEF SlicesSet, mvars
<1> QED BY <1>3, <1>4, <1>5, <1>6 DEF Moe!Next

----------------------------------------------------------------------------
(* The experts: the tier and the counters                                  *)

Lasts == {"none", "row_tile"} \cup Moe!Tiers
DiagType ==
  [loaded : Nat, sharedLayers : Nat, shared : BOOLEAN, tier : Moe!Tiers, calls : Nat,
   prefills : Nat, slots : Nat, fatLayers : Nat, thin : Nat, tiles : Nat,
   runs : [Moe!Tiers -> Nat], fat : Nat]
LayerType == [tier : Moe!Tiers, shared : BOOLEAN, last : Lasts, ptrs : BOOLEAN]

DiagTyped == setup \in Setups /\ diag \in DiagType

\* A layer has the tier its flag resolves to, and all are there to serve.
LayersSet ==
  /\ layers \in Seq(LayerType)
  /\ \A l \in DOMAIN layers :
       /\ layers[l].tier = Moe!ResolveTier(layers[l].shared)
       /\ layers[l].last \in {"none", "row_tile", layers[l].tier}
  /\ step \in {"create", "load"} => Len(layers) < Layers
  /\ step \in {"serve", "raised"} => Len(layers) = Layers

Runs == diag.runs["legacy"] + diag.runs["sorted"] + diag.runs["batched"] + diag.runs["kernel"]

\* Every prefill is thin, or run in tiles, or in one of the tiers.
Counted ==
  /\ diag.fatLayers = diag.prefills - diag.thin
  /\ diag.prefills = diag.thin + diag.tiles + Runs
  /\ step # "raised" => diag.fat = IF setup.tiles THEN 0 ELSE diag.slots
  /\ step = "raised" => setup.pipe /\ "pipe" \notin setup.image

TierInv == DiagTyped /\ LayersSet /\ Counted

LEMMA TierIs ==
  ASSUME setup \in Setups, NEW shared \in BOOLEAN
  PROVE  Moe!ResolveTier(shared) \in Moe!Tiers \cup {"raises"}
BY DEF Moe!ResolveTier, Moe!ConfiguredTier, Moe!Tiers

\* What a batch reads from the environment is what was resolved at load.
LEMMA TierStays ==
  ASSUME setup \in Setups, NEW layer \in LayerType, layer.tier = Moe!ResolveTier(layer.shared)
  PROVE  Moe!FatTier(layer) = layer.tier
<1>1. layer.tier \in Moe!Tiers
  BY DEF LayerType
<1>2. Moe!ResolveTier(layer.shared) # "raises"
  BY <1>1 DEF Moe!Tiers
<1> QED BY <1>2 DEF Moe!FatTier, Moe!ResolveTier, Moe!ConfiguredTier

LEMMA FatIsANumber == \A f : Moe!Cardinality(Moe!Fat(f)) \in Nat
<1> TAKE f
<1>0. Moe!Cardinality(Moe!Fat(f)) = Cardinality(Moe!Fat(f))
  BY DEF Moe!Cardinality, Cardinality
<1>1. IsFiniteSet(0..(Local - 1))
  BY ExpertsAssumption, FS_Interval
<1>2. Moe!Fat(f) \subseteq 0..(Local - 1)
  BY DEF Moe!Fat, Moe!Experts
<1> QED BY <1>0, <1>1, <1>2, FS_Subset, FS_CardinalityType

\* The ways a batch ends, and what each does to the counters.
Ran(l, x) == layers' = [layers EXCEPT ![l] = [@ EXCEPT !.last = x]]
Plain(l) ==
  /\ \E x \in {layers[l].last, "none"} : Ran(l, x)
  /\ diag' = [diag EXCEPT !.calls = @ + 1] /\ UNCHANGED step
Thin(l) ==
  /\ Ran(l, "none") /\ UNCHANGED step
  /\ diag' = [Moe!Stats(0) EXCEPT !.calls = @ + 1, !.thin = @ + 1]
Tiled(l, n) ==
  /\ Ran(l, "row_tile") /\ UNCHANGED step /\ setup.tiles
  /\ diag' = [Moe!Stats(n) EXCEPT !.calls = @ + 1, !.tiles = @ + 1]
RunIn(l, n, t) ==
  /\ ~setup.tiles /\ t = Moe!FatTier(layers[l])
  /\ \/ step' = "raised" /\ Moe!Raises(t) /\ UNCHANGED layers
        /\ diag' = [Moe!Stats(n) EXCEPT !.calls = @ + 1, !.runs[t] = @ + 1]
     \/ UNCHANGED step /\ Ran(l, t)
        /\ diag' = [Moe!Stats(n) EXCEPT !.calls = @ + 1, !.runs[t] = @ + 1, !.fat = @ + n]

LEMMA BatchIs ==
  ASSUME NEW r, Moe!Apply(r)
  PROVE  /\ step = "serve" /\ setup' = setup
         /\ LET l == (diag.calls % Layers) + 1 IN
              \/ Plain(l) \/ Thin(l)
              \/ \E n \in Nat \ {0} : Tiled(l, n) \/ \E t : RunIn(l, n, t)
<1> DEFINE l == (diag.calls % Layers) + 1
           n == Moe!Cardinality(Moe!Fat(Moe!Counts(r)))
           t == Moe!FatTier(layers[l])
           p == Moe!Stats(n)
<1>1. step = "serve" /\ setup' = setup /\ n \in Nat
  BY FatIsANumber DEF Moe!Apply
<1>2. \/ /\ Moe!Served(l, Moe!Loop(r, Moe!Experts), layers[l].last) /\ diag' = [diag EXCEPT !.calls = @ + 1]
      \/ /\ Moe!Served(l, Moe!Kernel(1, Moe!Counts(r), Moe!Sorted(r)), "none") /\ diag' = [diag EXCEPT !.calls = @ + 1]
      \/ /\ n = 0
         /\ Moe!Served(l, Moe!Kernel(1, Moe!Counts(r), Moe!Sorted(r)), "none")
         /\ diag' = [p EXCEPT !.calls = @ + 1, !.thin = @ + 1]
      \/ /\ n > 0 /\ setup.tiles
         /\ Moe!Served(l, Moe!RowTiles(Moe!Counts(r), Moe!Sorted(r)), "row_tile")
         /\ diag' = [p EXCEPT !.calls = @ + 1, !.tiles = @ + 1]
      \/ /\ n > 0 /\ ~setup.tiles
         /\ IF Moe!Raises(t) THEN step' = "raised" /\ UNCHANGED <<layers, done>>
            ELSE Moe!Served(l, Moe!Kernel(1, Moe!Counts(r), Moe!Sorted(r))
                                 \cup Moe!RunFat(t, Moe!Counts(r), Moe!Sorted(r), r), t)
         /\ diag' = [p EXCEPT !.calls = @ + 1, !.runs[t] = @ + 1,
                       !.fat = IF Moe!Raises(t) THEN @ ELSE @ + n]
  BY DEF Moe!Apply
<1> HIDE DEF l, n, t
<1>3. CASE /\ Moe!Served(l, Moe!Loop(r, Moe!Experts), layers[l].last) /\ diag' = [diag EXCEPT !.calls = @ + 1]
  BY <1>1, <1>3 DEF Moe!Served, Plain, Ran, l
<1>4. CASE /\ Moe!Served(l, Moe!Kernel(1, Moe!Counts(r), Moe!Sorted(r)), "none") /\ diag' = [diag EXCEPT !.calls = @ + 1]
  BY <1>1, <1>4 DEF Moe!Served, Plain, Ran, l
<1>5. CASE /\ n = 0
           /\ Moe!Served(l, Moe!Kernel(1, Moe!Counts(r), Moe!Sorted(r)), "none")
           /\ diag' = [p EXCEPT !.calls = @ + 1, !.thin = @ + 1]
  <2>1. Thin(l)
    BY <1>5 DEF Moe!Served, Thin, Ran
  <2> QED BY <1>1, <2>1 DEF l
<1>6. CASE /\ n > 0 /\ setup.tiles
           /\ Moe!Served(l, Moe!RowTiles(Moe!Counts(r), Moe!Sorted(r)), "row_tile")
           /\ diag' = [p EXCEPT !.calls = @ + 1, !.tiles = @ + 1]
  <2>1. Tiled(l, n)
    BY <1>6 DEF Moe!Served, Tiled, Ran
  <2>2. n \in Nat \ {0}
    BY <1>1, <1>6
  <2> QED BY <1>1, <2>1, <2>2 DEF l
<1>7. CASE /\ n > 0 /\ ~setup.tiles
           /\ IF Moe!Raises(t) THEN step' = "raised" /\ UNCHANGED <<layers, done>>
              ELSE Moe!Served(l, Moe!Kernel(1, Moe!Counts(r), Moe!Sorted(r))
                                   \cup Moe!RunFat(t, Moe!Counts(r), Moe!Sorted(r), r), t)
           /\ diag' = [p EXCEPT !.calls = @ + 1, !.runs[t] = @ + 1,
                         !.fat = IF Moe!Raises(t) THEN @ ELSE @ + n]
  <2>1. RunIn(l, n, t)
    BY <1>7 DEF Moe!Served, RunIn, Ran, t
  <2>2. n \in Nat \ {0}
    BY <1>1, <1>7
  <2> QED BY <1>1, <2>1, <2>2 DEF l
<1> QED BY <1>2, <1>3, <1>4, <1>5, <1>6, <1>7

\* A batch leaves a layer with its tier, and what ran it last.
LEMMA RanStep ==
  ASSUME TierInv, step = "serve", NEW l \in DOMAIN layers,
         NEW x \in {"none", "row_tile", layers[l].tier, layers[l].last}, Ran(l, x), setup' = setup,
         step' \in {"serve", "raised"}
  PROVE  LayersSet'
<1>1. /\ layers \in Seq(LayerType) /\ Len(layers) = Layers
      /\ \A k \in DOMAIN layers : /\ layers[k].tier = Moe!ResolveTier(layers[k].shared)
                                  /\ layers[k].last \in {"none", "row_tile", layers[k].tier}
  BY DEF TierInv, LayersSet
<1>2. layers[l] \in LayerType
  BY <1>1
<1>3. x \in Lasts /\ x \in {"none", "row_tile", layers[l].tier}
  BY <1>1, <1>2 DEF LayerType, Lasts
<1>4. layers' = [layers EXCEPT ![l] = [layers[l] EXCEPT !.last = x]]
  BY DEF Ran
<1>5. [layers[l] EXCEPT !.last = x] \in LayerType
  BY <1>2, <1>3 DEF LayerType
<1>6. /\ layers' \in Seq(LayerType) /\ Len(layers') = Layers /\ DOMAIN layers' = DOMAIN layers
  BY <1>1, <1>4, <1>5
<1>7. \A shared : Moe!ResolveTier(shared)' = Moe!ResolveTier(shared)
  BY DEF Moe!ResolveTier, Moe!ConfiguredTier
<1>8. ASSUME NEW k \in DOMAIN layers
      PROVE  /\ layers'[k].tier = Moe!ResolveTier(layers'[k].shared)
             /\ layers'[k].last \in {"none", "row_tile", layers'[k].tier}
  <2>1. CASE k = l
    <3>1. layers'[k] = [layers[l] EXCEPT !.last = x]
      BY <1>1, <1>4, <2>1
    <3>2. layers'[k].tier = layers[l].tier /\ layers'[k].shared = layers[l].shared /\ layers'[k].last = x
      BY <1>2, <3>1 DEF LayerType
    <3> QED BY <1>1, <1>3, <3>2
  <2>2. CASE k # l
    <3>1. layers'[k] = layers[k]
      BY <1>1, <1>4, <2>2
    <3> QED BY <1>1, <3>1
  <2> QED BY <2>1, <2>2
<1> QED BY <1>6, <1>7, <1>8 DEF LayersSet

\* The counters once a batch with n fat experts is recorded.
Recorded(p, n) ==
  /\ p \in DiagType
  /\ p.prefills = diag.prefills + 1 /\ p.slots = diag.slots + n
  /\ p.fatLayers = diag.fatLayers + (IF n > 0 THEN 1 ELSE 0)
  /\ p.thin = diag.thin /\ p.tiles = diag.tiles /\ p.runs = diag.runs /\ p.fat = diag.fat

LEMMA StatsAre ==
  ASSUME diag \in DiagType, NEW n \in Nat
  PROVE  Recorded(Moe!Stats(n), n)
<1> DEFINE g == IF n > 0 THEN 1 ELSE 0
<1>1. g \in Nat
  OBVIOUS
<1>2. Moe!Stats(n) = [diag EXCEPT !.prefills = diag.prefills + 1, !.slots = diag.slots + n,
                                  !.fatLayers = diag.fatLayers + g]
  BY DEF Moe!Stats
<1>3. /\ diag.prefills + 1 \in Nat /\ diag.slots + n \in Nat /\ diag.fatLayers + g \in Nat
  BY <1>1 DEF DiagType
<1> HIDE DEF g
<1>4. Moe!Stats(n) \in DiagType
  BY <1>2, <1>3 DEF DiagType
<1>5. LET p == Moe!Stats(n) IN
        /\ p.prefills = diag.prefills + 1 /\ p.slots = diag.slots + n /\ p.fatLayers = diag.fatLayers + g
        /\ p.thin = diag.thin /\ p.tiles = diag.tiles /\ p.runs = diag.runs /\ p.fat = diag.fat
  BY <1>2 DEF DiagType
<1> QED BY <1>4, <1>5 DEF Recorded, g

LEMMA PlainStep ==
  ASSUME TierInv, step = "serve", NEW l, Plain(l), setup' = setup
  PROVE  DiagTyped' /\ Counted'
<1>1. diag \in DiagType /\ diag' = [diag EXCEPT !.calls = @ + 1] /\ step' = step
  BY DEF TierInv, DiagTyped, Plain
<1>2. diag' \in DiagType
  BY <1>1 DEF DiagType
<1>3. /\ diag'.prefills = diag.prefills /\ diag'.slots = diag.slots /\ diag'.fatLayers = diag.fatLayers
      /\ diag'.thin = diag.thin /\ diag'.tiles = diag.tiles /\ diag'.runs = diag.runs
      /\ diag'.fat = diag.fat
  BY <1>1 DEF DiagType
<1> QED BY <1>1, <1>2, <1>3 DEF TierInv, DiagTyped, Counted, Runs

LEMMA ThinStep ==
  ASSUME TierInv, step = "serve", NEW l, Thin(l), setup' = setup
  PROVE  DiagTyped' /\ Counted'
<1>1. /\ diag \in DiagType /\ step' = step
      /\ diag' = [Moe!Stats(0) EXCEPT !.calls = @ + 1, !.thin = @ + 1]
  BY DEF TierInv, DiagTyped, Thin
<1> DEFINE p == Moe!Stats(0)
<1>a. Recorded(p, 0)
  BY <1>1, StatsAre
<1>b. diag' = [p EXCEPT !.calls = p.calls + 1, !.thin = p.thin + 1]
  BY <1>1
<1> HIDE DEF p
<1>2. diag' \in DiagType
  <2>1. p.calls + 1 \in Nat /\ p.thin + 1 \in Nat /\ p \in DiagType
    BY <1>a DEF DiagType, Recorded
  <2> QED BY <1>b, <2>1 DEF DiagType
<1>3. /\ diag'.prefills = diag.prefills + 1 /\ diag'.slots = diag.slots
      /\ diag'.fatLayers = diag.fatLayers /\ diag'.thin = diag.thin + 1
      /\ diag'.tiles = diag.tiles /\ diag'.runs = diag.runs /\ diag'.fat = diag.fat
  <2>1. /\ diag'.prefills = p.prefills /\ diag'.slots = p.slots /\ diag'.fatLayers = p.fatLayers
        /\ diag'.thin = p.thin + 1 /\ diag'.tiles = p.tiles /\ diag'.runs = p.runs /\ diag'.fat = p.fat
    BY <1>a, <1>b DEF DiagType, Recorded
  <2>2. diag.slots \in Nat /\ diag.fatLayers \in Nat
    BY <1>1 DEF DiagType
  <2> QED BY <1>a, <2>1, <2>2 DEF Recorded
<1>4. Runs \in Nat /\ Runs' = Runs
  BY <1>1, <1>3 DEF Runs, DiagType, Moe!Tiers
<1> QED BY <1>1, <1>2, <1>3, <1>4 DEF TierInv, DiagTyped, Counted, DiagType

LEMMA TiledStep ==
  ASSUME TierInv, step = "serve", NEW l, NEW n \in Nat \ {0}, Tiled(l, n), setup' = setup
  PROVE  DiagTyped' /\ Counted'
<1>1. /\ diag \in DiagType /\ step' = step /\ setup.tiles
      /\ diag' = [Moe!Stats(n) EXCEPT !.calls = @ + 1, !.tiles = @ + 1]
  BY DEF TierInv, DiagTyped, Tiled
<1> DEFINE p == Moe!Stats(n)
<1>a. Recorded(p, n)
  BY <1>1, StatsAre
<1>b. diag' = [p EXCEPT !.calls = p.calls + 1, !.tiles = p.tiles + 1]
  BY <1>1
<1> HIDE DEF p
<1>2. diag' \in DiagType
  <2>1. p.calls + 1 \in Nat /\ p.tiles + 1 \in Nat /\ p \in DiagType
    BY <1>a DEF DiagType, Recorded
  <2> QED BY <1>b, <2>1 DEF DiagType
<1>3. /\ diag'.prefills = diag.prefills + 1 /\ diag'.fatLayers = diag.fatLayers + 1
      /\ diag'.thin = diag.thin /\ diag'.tiles = diag.tiles + 1
      /\ diag'.runs = diag.runs /\ diag'.fat = diag.fat
  <2>1. /\ diag'.prefills = p.prefills /\ diag'.fatLayers = p.fatLayers /\ diag'.thin = p.thin
        /\ diag'.tiles = p.tiles + 1 /\ diag'.runs = p.runs /\ diag'.fat = p.fat
    BY <1>a, <1>b DEF DiagType, Recorded
  <2> QED BY <1>a, <2>1 DEF Recorded
<1>4. Runs \in Nat /\ Runs' = Runs
  BY <1>1, <1>3 DEF Runs, DiagType, Moe!Tiers
<1> QED BY <1>1, <1>2, <1>3, <1>4 DEF TierInv, DiagTyped, Counted, DiagType

LEMMA RunStep ==
  ASSUME TierInv, step = "serve", NEW l \in DOMAIN layers, NEW n \in Nat \ {0}, NEW t,
         RunIn(l, n, t), setup' = setup
  PROVE  TierInv'
<1>1. diag \in DiagType /\ ~setup.tiles /\ layers \in Seq(LayerType) /\ setup \in Setups
  BY DEF TierInv, DiagTyped, RunIn, LayersSet
<1>2. t = layers[l].tier /\ t \in Moe!Tiers
  <2>1. layers[l] \in LayerType
    BY <1>1
  <2>2. layers[l].tier = Moe!ResolveTier(layers[l].shared)
    BY DEF TierInv, LayersSet
  <2>3. Moe!FatTier(layers[l]) = layers[l].tier
    BY <1>1, <2>1, <2>2, TierStays
  <2> QED BY <2>1, <2>3 DEF RunIn, LayerType
<1> DEFINE r == [diag.runs EXCEPT ![t] = @ + 1]
<1>3. /\ r \in [Moe!Tiers -> Nat]
      /\ r["legacy"] + r["sorted"] + r["batched"] + r["kernel"] = Runs + 1
      /\ Runs \in Nat
  <2>1. diag.runs \in [Moe!Tiers -> Nat]
    BY <1>1 DEF DiagType
  <2>2. \A u \in Moe!Tiers : r[u] = IF u = t THEN diag.runs[u] + 1 ELSE diag.runs[u]
    BY <2>1
  <2>3. r \in [Moe!Tiers -> Nat]
    BY <1>2, <2>1
  <2>4. /\ diag.runs["legacy"] \in Nat /\ diag.runs["sorted"] \in Nat
        /\ diag.runs["batched"] \in Nat /\ diag.runs["kernel"] \in Nat
    BY <2>1 DEF Moe!Tiers
  <2>5. t \in {"legacy", "sorted", "batched", "kernel"}
    BY <1>2 DEF Moe!Tiers
  <2> HIDE DEF r
  <2>6. /\ r["legacy"] = IF "legacy" = t THEN diag.runs["legacy"] + 1 ELSE diag.runs["legacy"]
        /\ r["sorted"] = IF "sorted" = t THEN diag.runs["sorted"] + 1 ELSE diag.runs["sorted"]
        /\ r["batched"] = IF "batched" = t THEN diag.runs["batched"] + 1 ELSE diag.runs["batched"]
        /\ r["kernel"] = IF "kernel" = t THEN diag.runs["kernel"] + 1 ELSE diag.runs["kernel"]
    BY <2>2 DEF Moe!Tiers
  <2> QED BY <2>3, <2>4, <2>5, <2>6 DEF Runs
<1> HIDE DEF r
<1> DEFINE p == Moe!Stats(n)
<1>a. Recorded(p, n) /\ p \in DiagType /\ p.calls + 1 \in Nat /\ p.runs = diag.runs /\ p.fat + n \in Nat
  <2>1. Recorded(p, n)
    BY <1>1, StatsAre
  <2> HIDE DEF p
  <2> QED BY <2>1 DEF Recorded, DiagType
<1> HIDE DEF p
<1>4. CASE /\ step' = "raised" /\ Moe!Raises(t) /\ UNCHANGED layers
           /\ diag' = [Moe!Stats(n) EXCEPT !.calls = @ + 1, !.runs[t] = @ + 1]
  <2>1. diag' = [p EXCEPT !.calls = p.calls + 1, !.runs = r]
    BY <1>4, <1>a DEF r, p
  <2>2. diag' \in DiagType
    BY <1>3, <1>a, <2>1 DEF DiagType
  <2>3. /\ diag'.prefills = diag.prefills + 1 /\ diag'.fatLayers = diag.fatLayers + 1
        /\ diag'.thin = diag.thin /\ diag'.tiles = diag.tiles /\ diag'.runs = r
    BY <1>a, <2>1 DEF DiagType, Recorded
  <2>4. Runs' = Runs + 1
    BY <1>3, <2>3 DEF Runs
  <2>5. Counted'
    <3>1. setup.pipe /\ "pipe" \notin setup.image /\ step' = "raised"
      BY <1>4 DEF Moe!Raises
    <3>2. /\ diag.fatLayers = diag.prefills - diag.thin
          /\ diag.prefills = diag.thin + diag.tiles + Runs
      BY DEF TierInv, Counted
    <3>3. diag.prefills \in Nat /\ diag.thin \in Nat /\ diag.tiles \in Nat /\ diag.fatLayers \in Nat
      BY <1>1 DEF DiagType
    <3> QED BY <1>3, <2>3, <2>4, <3>1, <3>2, <3>3 DEF Counted
  <2>6. LayersSet'
    BY <1>4 DEF TierInv, LayersSet, Moe!ResolveTier, Moe!ConfiguredTier
  <2> QED BY <1>1, <2>2, <2>5, <2>6 DEF TierInv, DiagTyped
<1>5. CASE /\ UNCHANGED step /\ Ran(l, t)
           /\ diag' = [Moe!Stats(n) EXCEPT !.calls = @ + 1, !.runs[t] = @ + 1, !.fat = @ + n]
  <2>1. diag' = [p EXCEPT !.calls = p.calls + 1, !.runs = r, !.fat = p.fat + n]
    BY <1>5, <1>a DEF r, p
  <2>2. diag' \in DiagType
    BY <1>3, <1>a, <2>1 DEF DiagType
  <2>3. /\ diag'.prefills = diag.prefills + 1 /\ diag'.fatLayers = diag.fatLayers + 1
        /\ diag'.thin = diag.thin /\ diag'.tiles = diag.tiles /\ diag'.runs = r
        /\ diag'.slots = diag.slots + n /\ diag'.fat = diag.fat + n
    BY <1>a, <2>1 DEF DiagType, Recorded
  <2>4. Runs' = Runs + 1
    BY <1>3, <2>3 DEF Runs
  <2>5. Counted'
    <3>1. setup.tiles = FALSE /\ step = "serve" /\ step' = "serve" /\ diag.fat = diag.slots
      BY <1>1, <1>5 DEF TierInv, Counted
    <3>2. /\ diag.fatLayers = diag.prefills - diag.thin
          /\ diag.prefills = diag.thin + diag.tiles + Runs
      BY DEF TierInv, Counted
    <3>3. diag.prefills \in Nat /\ diag.thin \in Nat /\ diag.tiles \in Nat /\ diag.fatLayers \in Nat
      BY <1>1 DEF DiagType
    <3> QED BY <1>3, <2>3, <2>4, <3>1, <3>2, <3>3 DEF Counted
  <2>6. LayersSet'
    BY <1>2, <1>5, RanStep
  <2> QED BY <1>1, <2>2, <2>5, <2>6 DEF TierInv, DiagTyped
<1> QED BY <1>4, <1>5 DEF RunIn

LEMMA LoadStep ==
  ASSUME TierInv, NEW shared \in BOOLEAN, NEW marker \in BOOLEAN, Moe!ProcessWeights(shared, marker)
  PROVE  TierInv'
<1> DEFINE t == Moe!ResolveTier(shared)
           b == setup.fused /\ "moe" \in setup.image
           x == [tier |-> t, shared |-> shared, last |-> "none", ptrs |-> b]
<1>1. /\ step = "load" /\ setup' = setup
      /\ \/ step' = "failed" /\ UNCHANGED <<layers, diag>>
         \/ /\ t # "raises" /\ layers' = Append(layers, x)
            /\ step' = IF Len(layers) + 1 = Layers THEN "serve" ELSE "create"
            /\ diag' = [diag EXCEPT !.loaded = @ + 1,
                          !.sharedLayers = @ + (IF shared THEN 1 ELSE 0),
                          !.shared = diag.sharedLayers + (IF shared THEN 1 ELSE 0) = diag.loaded + 1,
                          !.tier = t]
  BY DEF Moe!ProcessWeights
<1>2. /\ diag \in DiagType /\ setup \in Setups /\ layers \in Seq(LayerType) /\ Len(layers) < Layers
      /\ \A l \in DOMAIN layers : /\ layers[l].tier = Moe!ResolveTier(layers[l].shared)
                                  /\ layers[l].last \in {"none", "row_tile", layers[l].tier}
  BY <1>1 DEF TierInv, DiagTyped, LayersSet
<1>3. \A s : Moe!ResolveTier(s)' = Moe!ResolveTier(s)
  BY <1>1 DEF Moe!ResolveTier, Moe!ConfiguredTier
<1>4. t \in Moe!Tiers \cup {"raises"}
  BY <1>2, TierIs
<1>5. CASE step' = "failed" /\ UNCHANGED <<layers, diag>>
  <2>1. Runs' = Runs
    BY <1>5 DEF Runs
  <2> QED BY <1>1, <1>2, <1>3, <1>5, <2>1 DEF TierInv, DiagTyped, LayersSet, Counted
<1>6. CASE /\ t # "raises" /\ layers' = Append(layers, x)
           /\ step' = IF Len(layers) + 1 = Layers THEN "serve" ELSE "create"
           /\ diag' = [diag EXCEPT !.loaded = @ + 1,
                         !.sharedLayers = @ + (IF shared THEN 1 ELSE 0),
                         !.shared = diag.sharedLayers + (IF shared THEN 1 ELSE 0) = diag.loaded + 1,
                         !.tier = t]
  <2> DEFINE n == IF shared THEN 1 ELSE 0
             w == diag.sharedLayers + n = diag.loaded + 1
  <2>1. t \in Moe!Tiers /\ n \in Nat /\ w \in BOOLEAN
    BY <1>4, <1>6
  <2>2. diag' = [diag EXCEPT !.loaded = diag.loaded + 1, !.sharedLayers = diag.sharedLayers + n,
                             !.shared = w, !.tier = t]
    BY <1>6
  <2>3. b \in BOOLEAN
    OBVIOUS
  <2>4. x \in LayerType /\ x.tier = t /\ x.shared = shared /\ x.last = "none"
    <3> HIDE DEF b, t
    <3> QED BY <2>1, <2>3 DEF LayerType, Lasts
  <2>5. diag.loaded + 1 \in Nat /\ diag.sharedLayers + n \in Nat
    BY <1>2, <2>1 DEF DiagType
  <2> HIDE DEF n, w, x, b
  <2>6. diag' \in DiagType /\ DiagTyped'
    <3> HIDE DEF t
    <3>1. diag' \in DiagType
      BY <1>2, <2>1, <2>2, <2>5 DEF DiagType
    <3> QED BY <1>1, <1>2, <3>1 DEF DiagTyped
  <2>7. /\ diag'.prefills = diag.prefills /\ diag'.slots = diag.slots /\ diag'.fatLayers = diag.fatLayers
        /\ diag'.thin = diag.thin /\ diag'.tiles = diag.tiles /\ diag'.runs = diag.runs
        /\ diag'.fat = diag.fat
    BY <1>2, <2>2 DEF DiagType
  <2>8. Runs' = Runs
    BY <2>7 DEF Runs
  <2>9. step' \in {"serve", "create"}
    BY <1>6
  <2>10. Counted'
    BY <1>1, <2>7, <2>8, <2>9 DEF TierInv, Counted
  <2>11. /\ layers' \in Seq(LayerType) /\ Len(layers') = Len(layers) + 1
         /\ DOMAIN layers' = 1..(Len(layers) + 1) /\ DOMAIN layers = 1..Len(layers)
         /\ layers'[Len(layers) + 1] = x /\ \A l \in DOMAIN layers : layers'[l] = layers[l]
    BY <1>2, <1>6, <2>4
  <2>12. ASSUME NEW l \in DOMAIN layers'
         PROVE  /\ layers'[l].tier = Moe!ResolveTier(layers'[l].shared)
                /\ layers'[l].last \in {"none", "row_tile", layers'[l].tier}
    <3>1. l \in DOMAIN layers \/ l = Len(layers) + 1
      BY <1>2, <2>11
    <3>2. CASE l \in DOMAIN layers
      BY <1>2, <2>11, <3>2
    <3>3. CASE l = Len(layers) + 1
      BY <2>4, <2>11, <3>3
    <3> QED BY <3>1, <3>2, <3>3
  <2>13. /\ step' \in {"create", "load"} => Len(layers') < Layers
         /\ step' \in {"serve", "raised"} => Len(layers') = Layers
    BY <1>2, <1>6, <2>11, ExpertsAssumption
  <2>14. LayersSet'
    BY <1>3, <2>11, <2>12, <2>13 DEF LayersSet
  <2> QED BY <2>6, <2>10, <2>14 DEF TierInv
<1> QED BY <1>1, <1>5, <1>6

LEMMA TierStep ==
  ASSUME TierInv, Moe!Next \/ UNCHANGED mvars
  PROVE  TierInv'
<1>1. CASE Moe!CreateWeights \/ \E id \in {"w1", "w2", "w3"} : Moe!LoadShard(id)
  <2>1. /\ UNCHANGED <<setup, layers, diag>> /\ step \in {"create", "load"} /\ step' \in {"load", "failed"}
    BY <1>1 DEF Moe!CreateWeights, Moe!LoadShard
  <2>2. Runs' = Runs /\ \A s : Moe!ResolveTier(s)' = Moe!ResolveTier(s)
    BY <2>1 DEF Runs, Moe!ResolveTier, Moe!ConfiguredTier
  <2> QED BY <2>1, <2>2 DEF TierInv, DiagTyped, LayersSet, Counted
<1>2. CASE \E shared, marker \in BOOLEAN : Moe!ProcessWeights(shared, marker)
  BY <1>2, LoadStep
<1>3. ASSUME NEW r, Moe!Apply(r) PROVE TierInv'
  <2> DEFINE l == (diag.calls % Layers) + 1
  <2>1. /\ step = "serve" /\ setup' = setup
        /\ \/ Plain(l) \/ Thin(l)
           \/ \E n \in Nat \ {0} : Tiled(l, n) \/ \E t : RunIn(l, n, t)
    BY <1>3, BatchIs
  <2>2. l \in DOMAIN layers
    <3>1. diag.calls \in Nat /\ Layers \in Nat \ {0}
      BY ExpertsAssumption DEF TierInv, DiagTyped, DiagType
    <3>2. DOMAIN layers = 1..Layers
      BY <2>1 DEF TierInv, LayersSet
    <3>3. l \in 1..Layers
      BY <3>1
    <3> QED BY <3>2, <3>3
  <2> HIDE DEF l
  <2>3. CASE Plain(l)
    <3>1. LayersSet'
      BY <2>1, <2>2, <2>3, RanStep DEF Plain
    <3> QED BY <2>1, <2>3, <3>1, PlainStep DEF TierInv
  <2>4. CASE Thin(l)
    <3>1. LayersSet'
      BY <2>1, <2>2, <2>4, RanStep DEF Thin
    <3> QED BY <2>1, <2>4, <3>1, ThinStep DEF TierInv
  <2>5. ASSUME NEW n \in Nat \ {0}, Tiled(l, n) PROVE TierInv'
    <3>1. LayersSet'
      BY <2>1, <2>2, <2>5, RanStep DEF Tiled
    <3> QED BY <2>1, <2>5, <3>1, TiledStep DEF TierInv
  <2>6. ASSUME NEW n \in Nat \ {0}, NEW t, RunIn(l, n, t) PROVE TierInv'
    BY <2>1, <2>2, <2>6, RunStep
  <2> QED BY <2>1, <2>3, <2>4, <2>5, <2>6
<1>4. CASE UNCHANGED mvars
  <2>1. UNCHANGED <<setup, step, layers, diag>>
    BY <1>4 DEF mvars
  <2>2. Runs' = Runs /\ \A s : Moe!ResolveTier(s)' = Moe!ResolveTier(s)
    BY <2>1 DEF Runs, Moe!ResolveTier, Moe!ConfiguredTier
  <2> QED BY <2>1, <2>2 DEF TierInv, DiagTyped, LayersSet, Counted
<1> QED BY <1>1, <1>2, <1>3, <1>4 DEF Moe!Next

LEMMA TierHolds ==
  ASSUME TierInv
  PROVE  Moe!LoadDecidesTheTier
<1>1. /\ diag.thin \in Nat /\ diag.tiles \in Nat /\ diag.runs \in [Moe!Tiers -> Nat]
      /\ diag.runs["legacy"] \in Nat /\ diag.runs["sorted"] \in Nat
      /\ diag.runs["batched"] \in Nat /\ diag.runs["kernel"] \in Nat
  BY DEF TierInv, DiagTyped, DiagType, Moe!Tiers
<1>2. diag.prefills = diag.thin + diag.tiles + diag.runs["legacy"] + diag.runs["sorted"]
                       + diag.runs["batched"] + diag.runs["kernel"]
  BY <1>1 DEF TierInv, Counted, Runs
<1>3. \A l \in DOMAIN layers : layers[l].last \in {"none", "row_tile", layers[l].tier}
  BY DEF TierInv, LayersSet
<1> QED BY <1>2, <1>3 DEF TierInv, Counted, Moe!LoadDecidesTheTier

----------------------------------------------------------------------------
(* The rows of a batch: where the sort puts them                           *)
(*                                                                         *)
(* The argument.  A row of an expert e has a place among the rows of e     *)
(* (Rank), and the sort puts it that far behind the rows of the experts    *)
(* below e (SortedIs).  A launch that runs the whole slice of an expert    *)
(* therefore runs each of its rows once (SlicesRun); the tiles cut the     *)
(* same places into ranges (TileIs, TilesRun); the scratch is as large as  *)
(* the slice that goes through it (ScratchHolds); and the loop reads the   *)
(* same expert out of the map as the sort did (LoopRuns).  A batch is one  *)
(* of these, or the launch for some of the experts and one of these for    *)
(* the others (SplitRuns, RunsTogether).  That no expert is left out when  *)
(* there is only the launch rests on the router: an expert gets a row of a *)
(* token once at most (FewTokens).                                         *)

LEMMA MoeSets ==
  /\ \A S : Moe!Cardinality(S) = Cardinality(S)
  /\ \A S : Moe!Min(S) = Min(S) /\ Moe!Max(S) = Max(S)
<1>1. \A S : Moe!Cardinality(S) = Cardinality(S)
  BY DEF Moe!Cardinality, Cardinality
<1>2. \A S : Moe!Min(S) = Min(S) /\ Moe!Max(S) = Max(S)
  BY DEF Moe!Max, Moe!Min, Max, Min
<1> QED BY <1>1, <1>2

LEMMA ExpertsAre == Local \in Nat /\ Moe!Experts = 0..(Local - 1) /\ Local \notin Moe!Experts
BY ExpertsAssumption DEF Moe!Experts

\* Where the rows of an expert begin: behind those of the experts before it.
LEMMA BeforeIs ==
  ASSUME NEW f \in [Moe!Experts -> Nat]
  PROVE  /\ Moe!Before(f, 0) = 0
         /\ \A e \in 0..Local : Moe!Before(f, e) \in Nat
         /\ \A e \in Moe!Experts : Moe!Before(f, e + 1) = Moe!Before(f, e) + f[e]
         /\ \A d \in Moe!Experts, e \in 0..Local : d < e => Moe!Before(f, d) + f[d] <= Moe!Before(f, e)
<1> DEFINE g == [k \in 1..Local |-> f[k - 1]]
<1>1. g \in [1..Local -> Nat] /\ \A k \in 1..Local : g[k] = f[k - 1]
  <2>1. \A k \in 1..Local : k - 1 \in Moe!Experts
    BY ExpertsAre
  <2> QED BY <2>1
<1>2. PICK v : Sums(v, Local, g)
  <2> HIDE DEF g
  <2> QED BY <1>1, ExpertsAre, Summed
<1> DEFINE u[d \in 0..Local] == IF d = 0 THEN 0 ELSE u[d - 1] + f[d - 1]
<1>3. u = [d \in 0..Local |-> IF d = 0 THEN 0 ELSE u[d - 1] + f[d - 1]]
  <2>1. v = [k \in 0..Local |-> IF k = 0 THEN 0 ELSE v[k - 1] + g[k]]
    BY <1>2 DEF Sums
  <2>2. \A k \in 0..Local : k # 0 => g[k] = f[k - 1]
    BY <1>1
  <2> HIDE DEF g
  <2>3. v = [k \in 0..Local |-> IF k = 0 THEN 0 ELSE v[k - 1] + f[k - 1]]
    BY <2>1, <2>2
  <2> QED BY <2>3
<1>4. \A e : Moe!Before(f, e) = u[e]
  BY DEF Moe!Before
<1> HIDE DEF u
<1>5. Sums(u, Local, g)
  <2>1. u = [k \in 0..Local |-> IF k = 0 THEN 0 ELSE u[k - 1] + g[k]]
    <3>1. \A k \in 0..Local : k # 0 => g[k] = f[k - 1]
      BY <1>1
    <3> HIDE DEF g
    <3> QED BY <1>3, <3>1
  <2> DEFINE B == {k \in 0..Local : u[k] \in Nat}
  <2> HIDE DEF g
  <2>2. 0 \in B /\ \A k \in 1..Local : k - 1 \in B => k \in B
    <3>1. u[0] = 0 /\ \A k \in 1..Local : u[k] = u[k - 1] + g[k]
      BY <2>1, ExpertsAre
    <3> QED BY <1>1, <3>1, ExpertsAre
  <2> HIDE DEF B
  <2>3. \A k \in 0..Local : k \in B
    BY <2>2, UpTo, ExpertsAre
  <2>4. u \in [0..Local -> Nat]
    BY <2>1, <2>3 DEF B
  <2> QED BY <2>1, <2>4 DEF Sums
<1>6. /\ u[0] = 0 /\ \A k \in 0..Local : u[k] \in Nat
      /\ \A k \in 1..Local : u[k] = u[k - 1] + g[k]
      /\ \A k \in 1..Local, m \in 0..Local : k <= m => u[k - 1] + g[k] <= u[m]
  <2> HIDE DEF g
  <2> QED BY <1>1, <1>5, SumsGrow, ExpertsAre
<1>7. ASSUME NEW e \in Moe!Experts
      PROVE  /\ e + 1 \in 1..Local /\ (e + 1) - 1 = e /\ g[e + 1] = f[e]
             /\ \A m \in 0..Local : e < m => e + 1 <= m
  <2>1. e + 1 \in 1..Local /\ (e + 1) - 1 = e /\ \A m \in 0..Local : e < m => e + 1 <= m
    BY ExpertsAre
  <2> HIDE DEF g
  <2> QED BY <1>1, <2>1
<1>8. \A e \in Moe!Experts : u[e + 1] = u[e] + f[e]
  <2> HIDE DEF g
  <2> QED BY <1>6, <1>7
<1>9. \A d \in Moe!Experts, e \in 0..Local : d < e => u[d] + f[d] <= u[e]
  <2> TAKE d \in Moe!Experts, e \in 0..Local
  <2> HIDE DEF g
  <2>1. d < e => u[(d + 1) - 1] + g[d + 1] <= u[e]
    BY <1>6, <1>7
  <2> QED BY <1>7, <2>1
<1> QED BY <1>4, <1>6, <1>8, <1>9


\* The experts of the rows of a batch.
At(r, i) == Moe!Localize(r[i])
Mine(r, e) == {i \in DOMAIN r : At(r, i) = e}

LEMMA LocalIs ==
  \A id : Moe!Localize(id) \in Moe!Experts \cup {Local}
BY DEF Moe!Localize

LEMMA MineIs ==
  ASSUME NEW n \in Nat, NEW r, DOMAIN r = 1..n, NEW e
  PROVE  /\ Mine(r, e) \in SUBSET (1..n) /\ IsFiniteSet(Mine(r, e)) /\ Cardinality(Mine(r, e)) \in Nat
         /\ e \in Moe!Experts => Moe!Counts(r)[e] = Cardinality(Mine(r, e))
         /\ Moe!Counts(r) \in [Moe!Experts -> Nat]
<1>1. \A d : Mine(r, d) \in SUBSET (1..n) /\ IsFiniteSet(Mine(r, d)) /\ Cardinality(Mine(r, d)) \in Nat
  <2> TAKE d
  <2>1. Mine(r, d) \in SUBSET (1..n)
    BY DEF Mine
  <2>2. IsFiniteSet(1..n)
    BY FS_Interval
  <2>3. IsFiniteSet(Mine(r, d))
    BY <2>1, <2>2, FS_Subset
  <2> QED BY <2>1, <2>3, FS_CardinalityType
<1>2. Moe!Counts(r) = [d \in Moe!Experts |-> Cardinality(Mine(r, d))]
  BY MoeSets DEF Moe!Counts, Mine, At
<1> QED BY <1>1, <1>2

\* The rows of the experts before e are those with an expert below it.
LEMMA BelowIs ==
  ASSUME NEW n \in Nat, NEW r, DOMAIN r = 1..n
  PROVE  \A e \in 0..Local :
           Moe!Before(Moe!Counts(r), e) = Cardinality({i \in DOMAIN r : At(r, i) < e})
<1> DEFINE c == Moe!Counts(r)
           Low(e) == {i \in DOMAIN r : At(r, i) < e}
           B == {e \in 0..Local : Moe!Before(c, e) = Cardinality(Low(e))}
<1>1. c \in [Moe!Experts -> Nat] /\ \A e \in Moe!Experts : c[e] = Cardinality(Mine(r, e))
  BY MineIs
<1> HIDE DEF c
<1>2. \A i \in DOMAIN r : At(r, i) \in 0..Local
  BY LocalIs, ExpertsAre DEF At
<1>3. 0 \in B
  <2>1. Low(0) = {}
    <3>1. \A i \in DOMAIN r : ~(At(r, i) < 0)
      BY <1>2, ExpertsAre
    <3> QED BY <3>1
  <2>2. Moe!Before(c, 0) = 0
    BY <1>1, BeforeIs
  <2>3. 0 \in 0..Local
    BY ExpertsAre
  <2> HIDE DEF Low
  <2>4. Cardinality(Low(0)) = 0
    BY <2>1, FS_EmptySet
  <2> QED BY <2>2, <2>3, <2>4
<1>4. ASSUME NEW e \in 1..Local, e - 1 \in B PROVE e \in B
  <2>1. Low(e) = Low(e - 1) \cup Mine(r, e - 1) /\ Low(e - 1) \cap Mine(r, e - 1) = {}
    <3>1. \A i \in DOMAIN r : /\ At(r, i) < e <=> At(r, i) < e - 1 \/ At(r, i) = e - 1
                              /\ ~(At(r, i) < e - 1 /\ At(r, i) = e - 1)
      BY <1>2, ExpertsAre
    <3> QED BY <3>1 DEF Mine
  <2>2. IsFiniteSet(Low(e - 1)) /\ Cardinality(Low(e - 1)) \in Nat
    <3>1. Low(e - 1) \in SUBSET (1..n) /\ IsFiniteSet(1..n)
      BY FS_Interval
    <3> HIDE DEF Low
    <3>2. IsFiniteSet(Low(e - 1))
      BY <3>1, FS_Subset
    <3> QED BY <3>2, FS_CardinalityType
  <2>3. e - 1 \in Moe!Experts /\ (e - 1) + 1 = e
    BY ExpertsAre
  <2>4. Moe!Before(c, e) = Moe!Before(c, e - 1) + c[e - 1]
    BY <1>1, <2>3, BeforeIs
  <2>5. Moe!Before(c, e - 1) = Cardinality(Low(e - 1))
    BY <1>4
  <2> HIDE DEF Low
  <2>6. IsFiniteSet(Mine(r, e - 1)) /\ Cardinality(Mine(r, e - 1)) \in Nat
    BY MineIs
  <2>7. Cardinality(Low(e)) = Cardinality(Low(e - 1)) + Cardinality(Mine(r, e - 1))
    <3> DEFINE P == Low(e - 1)
               Q == Mine(r, e - 1)
    <3>1. Low(e) = P \cup Q /\ P \cap Q = {} /\ IsFiniteSet(P) /\ IsFiniteSet(Q)
      BY <2>1, <2>2, <2>6
    <3>2. Cardinality(P) \in Nat /\ Cardinality(Q) \in Nat
      BY <2>2, <2>6
    <3> HIDE DEF P, Q
    <3>3. Cardinality(P \cup Q) = Cardinality(P) + Cardinality(Q) - Cardinality(P \cap Q)
      BY <3>1, FS_Union
    <3>4. Cardinality(P \cap Q) = 0
      BY <3>1, FS_EmptySet
    <3>5. Cardinality(Low(e)) = Cardinality(P) + Cardinality(Q)
      BY <3>1, <3>2, <3>3, <3>4
    <3> QED BY <3>5 DEF P, Q
  <2> QED BY <1>1, <2>3, <2>4, <2>5, <2>7
<1> HIDE DEF B
<1>5. \A e \in 0..Local : e \in B
  BY <1>3, <1>4, UpTo, ExpertsAre
<1> QED BY <1>5 DEF B, c

\* The j-th row of an expert's slice of the sort is its j-th row.
LEMMA SortedIs ==
  ASSUME NEW n \in Nat, NEW r, DOMAIN r = 1..n,
         NEW e \in Moe!Experts, NEW j \in 1..Moe!Counts(r)[e]
  PROVE  LET i == Moe!Sorted(r)[Moe!Before(Moe!Counts(r), e) + j]
         IN  i \in Mine(r, e) /\ Rank(Mine(r, e), i) = j
<1> DEFINE c == Moe!Counts(r)
           Low(d) == {i \in DOMAIN r : At(r, i) < d}
           k == Moe!Before(c, e) + j
<1>1. c \in [Moe!Experts -> Nat] /\ \A d \in Moe!Experts : c[d] = Cardinality(Mine(r, d))
  BY MineIs
<1>2. \A d \in 0..Local : Moe!Before(c, d) = Cardinality(Low(d))
  BY BelowIs
<1>3. j \in 1..c[e] /\ c[e] \in Nat
  BY <1>1
<1> HIDE DEF c
<1>4. /\ \A d \in 0..Local : Moe!Before(c, d) \in Nat
      /\ \A d \in Moe!Experts, m \in 0..Local : d < m => Moe!Before(c, d) + c[d] <= Moe!Before(c, m)
  BY <1>1, BeforeIs
<1>5. \A d : Mine(r, d) \in SUBSET (1..n)
  BY MineIs
<1>6. \A i \in DOMAIN r : At(r, i) \in 0..Local /\ (At(r, i) # Local => At(r, i) \in Moe!Experts)
  BY LocalIs, ExpertsAre DEF At
<1>7. \A i \in DOMAIN r : Moe!Place(r, i) = Moe!Before(c, At(r, i)) + Rank(Mine(r, At(r, i)), i)
  <2> TAKE i \in DOMAIN r
  <2>1. {x \in DOMAIN r : Moe!Localize(r[x]) = Moe!Localize(r[i]) /\ x <= i}
          = {x \in Mine(r, At(r, i)) : x <= i}
    BY DEF Mine, At
  <2>2. {x \in DOMAIN r : Moe!Localize(r[x]) < Moe!Localize(r[i])} = Low(At(r, i))
    BY DEF At
  <2> HIDE DEF Low
  <2> QED BY <1>2, <1>6, <2>1, <2>2, MoeSets DEF Moe!Place, Rank
<1>8. \A d, i : i \in Mine(r, d) => Rank(Mine(r, d), i) \in 1..Cardinality(Mine(r, d)) /\ Cardinality(Mine(r, d)) \in Nat
  BY <1>5, Ranks
<1>9. \A i \in DOMAIN r : i \in Mine(r, At(r, i))
  BY DEF Mine
<1>10. k \in 1..n
  <2>1. Moe!Before(c, Local) <= n
    <3>1. Low(Local) \in SUBSET (1..n) /\ IsFiniteSet(1..n) /\ Cardinality(1..n) = n
      BY FS_Interval
    <3> HIDE DEF Low
    <3>2. Cardinality(Low(Local)) <= n
      BY <3>1, FS_Subset
    <3> QED BY <1>2, <3>2, ExpertsAre
  <2>2. e \in 0..Local /\ e < Local /\ Local \in 0..Local
    BY ExpertsAre
  <2>3. Moe!Before(c, e) + c[e] <= Moe!Before(c, Local) /\ Moe!Before(c, e) \in Nat /\ Moe!Before(c, Local) \in Nat
    BY <1>4, <2>2
  <2> QED BY <1>3, <2>1, <2>3
<1>11. PICK a \in Mine(r, e) : Rank(Mine(r, e), a) = j
  <2>1. j \in 1..Cardinality(Mine(r, e))
    BY <1>1, <1>3
  <2> DEFINE P == Mine(r, e)
  <2>2. P \in SUBSET (1..n) /\ j \in 1..Cardinality(P)
    BY <1>5, <2>1
  <2> HIDE DEF P
  <2>3. \A m \in 1..Cardinality(P) : \E i \in P : Rank(P, i) = m
    BY <2>2, Ranks
  <2>4. \E i \in P : Rank(P, i) = j
    BY <2>2, <2>3
  <2> QED BY <2>4 DEF P
<1>12. a \in DOMAIN r /\ At(r, a) = e
  BY DEF Mine
<1>13. Moe!Place(r, a) = k
  BY <1>7, <1>11, <1>12
<1> HIDE DEF Low
<1>14. ASSUME NEW b \in DOMAIN r, Moe!Place(r, b) = k PROVE b = a
  <2> DEFINE d == At(r, b)
  <2>1. d \in 0..Local /\ (d # Local => d \in Moe!Experts) /\ e \in 0..Local /\ e < Local
    BY <1>6, ExpertsAre
  <2>2. /\ Moe!Before(c, d) + Rank(Mine(r, d), b) = Moe!Before(c, e) + j
        /\ Rank(Mine(r, d), b) \in 1..Cardinality(Mine(r, d)) /\ Cardinality(Mine(r, d)) \in Nat
        /\ Moe!Before(c, d) \in Nat /\ Moe!Before(c, e) \in Nat
    BY <1>4, <1>7, <1>8, <1>9, <1>14, <2>1
  <2> HIDE DEF d
  <2>3. ~(d < e)
    <3> SUFFICES ASSUME d < e PROVE FALSE
      OBVIOUS
    <3>1. d \in Moe!Experts
      BY <2>1, ExpertsAre
    <3>2. Moe!Before(c, d) + c[d] <= Moe!Before(c, e) /\ c[d] = Cardinality(Mine(r, d))
      BY <1>1, <1>4, <2>1, <3>1
    <3> QED BY <1>3, <2>2, <3>2
  <2>4. ~(e < d)
    <3> SUFFICES ASSUME e < d PROVE FALSE
      OBVIOUS
    <3>1. Moe!Before(c, e) + c[e] <= Moe!Before(c, d)
      BY <1>4, <2>1
    <3> QED BY <1>3, <2>2, <3>1
  <2>5. d = e
    BY <2>1, <2>3, <2>4
  <2>6. b \in Mine(r, e) /\ Rank(Mine(r, e), b) = j
    BY <1>3, <1>9, <2>2, <2>5 DEF d
  <2> QED BY <1>5, <1>11, <2>6, Ranks
<1>15. Moe!Sorted(r)[k] = a
  <2>1. Moe!Sorted(r)[k] = CHOOSE i \in DOMAIN r : Moe!Place(r, i) = k
    BY <1>10 DEF Moe!Sorted
  <2> HIDE DEF k
  <2> QED BY <1>12, <1>13, <1>14, <2>1
<1> QED BY <1>11, <1>15 DEF c

----------------------------------------------------------------------------
(* What a launch runs                                                      *)

\* What ran are the rows of the experts E, each once and by its own expert.
RunsExactly(D, r, E) ==
  /\ \A d \in D : d.expert \in E /\ d.row \in Mine(r, d.expert)
  /\ \A e \in E : \A i \in Mine(r, e) : \E d \in D : d.row = i
  /\ \A d, x \in D : d.row = x.row => d = x

LEMMA RunsTogether ==
  ASSUME NEW r, NEW E, NEW F, NEW C, NEW D, E \cap F = {},
         RunsExactly(C, r, E), RunsExactly(D, r, F)
  PROVE  RunsExactly(C \cup D, r, E \cup F)
<1>1. \A x \in C \cup D : At(r, x.row) = x.expert
  BY DEF RunsExactly, Mine
<1>2. \A x \in C, y \in D : x.row # y.row
  BY <1>1 DEF RunsExactly
<1> QED BY <1>2 DEF RunsExactly

\* A launch that runs all of its experts' slices.
LEMMA SlicesRun ==
  ASSUME NEW n \in Nat, NEW r, DOMAIN r = 1..n, NEW E \in SUBSET Moe!Experts, NEW launch, NEW size,
         \A e \in E : size[e] = Moe!Counts(r)[e]
  PROVE  RunsExactly(Moe!Slices(launch, E, Moe!Counts(r), Moe!Sorted(r), size), r, E)
<1> DEFINE c == Moe!Counts(r)
           at(e, j) == Moe!Sorted(r)[Moe!Before(c, e) + j]
           slot(e, j) == [launch |-> launch, nth |-> j, expert |-> e, row |-> at(e, j)]
           D == Moe!Slices(launch, E, c, Moe!Sorted(r), size)
<1>1. \A x : x \in D <=> \E e \in E : \E j \in 1..c[e] : x = slot(e, j)
  BY DEF Moe!Slices
<1>2. \A e \in E : \A j \in 1..c[e] : at(e, j) \in Mine(r, e) /\ Rank(Mine(r, e), at(e, j)) = j
  BY SortedIs
<1>3. \A e : Mine(r, e) \in SUBSET (1..n)
  BY MineIs
<1>4. \A e \in E : c[e] = Cardinality(Mine(r, e))
  BY MineIs
<1> HIDE DEF c
<1>5. \A e, j : slot(e, j).expert = e /\ slot(e, j).row = at(e, j) /\ slot(e, j).nth = j
  OBVIOUS
<1> HIDE DEF D
<1>6. ASSUME NEW e \in E, NEW j \in 1..c[e], NEW f \in E, NEW k \in 1..c[f], at(e, j) = at(f, k)
      PROVE  slot(e, j) = slot(f, k)
  <2>1. e = f
    <3> HIDE DEF at
    <3> QED BY <1>2, <1>6 DEF Mine
  <2>2. j = k
    <3> HIDE DEF at
    <3> QED BY <1>2, <1>6, <2>1
  <2> QED BY <2>1, <2>2
<1>7. ASSUME NEW e \in E, NEW i \in Mine(r, e) PROVE \E x \in D : x.row = i
  <2> DEFINE j == Rank(Mine(r, e), i)
  <2>1. j \in 1..c[e]
    BY <1>3, <1>4, Ranks
  <2>2. at(e, j) \in Mine(r, e) /\ Rank(Mine(r, e), at(e, j)) = j
    BY <1>2, <2>1
  <2>3. at(e, j) = i
    <3> DEFINE P == Mine(r, e)
               x == at(e, j)
    <3>1. P \in SUBSET (1..n) /\ x \in P /\ i \in P /\ Rank(P, x) = Rank(P, i)
      BY <1>3, <2>2
    <3> HIDE DEF P, x
    <3>2. \A y, z \in P : Rank(P, y) = Rank(P, z) => y = z
      BY <3>1, Ranks
    <3>3. x = i
      BY <3>1, <3>2
    <3> QED BY <3>3 DEF x
  <2>4. slot(e, j) \in D /\ slot(e, j).row = i
    BY <1>1, <1>5, <2>1, <2>3
  <2> QED BY <2>4
<1> HIDE DEF slot, at
<1>8. \A x \in D : x.expert \in E /\ x.row \in Mine(r, x.expert)
  BY <1>1, <1>2, <1>5
<1>9. \A x, y \in D : x.row = y.row => x = y
  BY <1>1, <1>5, <1>6
<1> QED BY <1>7, <1>8, <1>9 DEF RunsExactly, D, c

----------------------------------------------------------------------------
(* The router's numbers, and the loop                                      *)

\* The token of a row, and its choice.
LEMMA TokenOf ==
  ASSUME NEW n \in Nat, NEW p \in Nat \ {0}, NEW i \in 1..(n * p)
  PROVE  /\ ((i - 1) \div p) + 1 \in 1..n /\ ((i - 1) % p) + 1 \in 1..p
         /\ i = p * ((i - 1) \div p) + ((i - 1) % p) + 1
<1> DEFINE q == (i - 1) \div p
           m == (i - 1) % p
<1>1. i \in Nat /\ i >= 1 /\ i <= n * p
  <2>1. n * p \in Nat
    OBVIOUS
  <2> HIDE DEF q, m
  <2> QED BY <2>1
<1>2. q \in Nat /\ m \in 0..(p - 1) /\ i - 1 = p * q + m
  BY <1>1
<1> HIDE DEF q, m
<1>3. q < n
  <2> SUFFICES ASSUME q >= n PROVE FALSE
    BY <1>2
  <2>1. p * q >= p * n
    BY <1>2
  <2>2. p * n = n * p /\ p * q \in Nat
    BY <1>2
  <2> QED BY <1>1, <1>2, <2>1, <2>2
<1> QED BY <1>1, <1>2, <1>3 DEF q, m

\* The rows of a batch of n tokens: a token chooses no expert twice.
RowsOf(r, n) ==
  /\ DOMAIN r = 1..(n * TopK) /\ Len(r) \div TopK = n
  /\ \A i \in DOMAIN r : /\ r[i] \in Int /\ ((i - 1) \div TopK) + 1 \in 1..n
                         /\ setup.map # << >> /\ r[i] >= 0 => r[i] \in DOMAIN setup.map
  /\ \A i, j \in DOMAIN r :
       (i - 1) \div TopK = (j - 1) \div TopK /\ r[i] = r[j] /\ r[i] >= 0 => i = j

LEMMA BatchRows ==
  ASSUME NEW r \in Moe!Batches, setup \in Setups
  PROVE  \E n \in Nat : RowsOf(r, n)
<1> DEFINE q(i) == ((i - 1) \div TopK) + 1
           m(i) == ((i - 1) % TopK) + 1
<1>1. PICK n \in Sizes : \E b \in [1..n -> Routes] : r = [i \in 1..(n * TopK) |-> b[q(i)][m(i)]]
  BY DEF Moe!Batches
<1>0. PICK b \in [1..n -> Routes] : r = [i \in 1..(n * TopK) |-> b[q(i)][m(i)]]
  BY <1>1
<1>2. n \in Nat /\ TopK \in Nat \ {0} /\ n * TopK \in Nat
  BY ExpertsAssumption
<1>3. \A i \in 1..(n * TopK) : q(i) \in 1..n /\ m(i) \in 1..TopK /\ i = TopK * (q(i) - 1) + (m(i) - 1) + 1
  <2> TAKE i \in 1..(n * TopK)
  <2>1. q(i) \in 1..n /\ m(i) \in 1..TopK /\ i = TopK * ((i - 1) \div TopK) + ((i - 1) % TopK) + 1
    BY <1>2, TokenOf
  <2>2. q(i) - 1 = (i - 1) \div TopK /\ m(i) - 1 = (i - 1) % TopK
    <3>1. i \in Int
      BY <1>2
    <3> QED BY <1>2, <3>1
  <2> HIDE DEF q, m
  <2> QED BY <2>1, <2>2
<1>4. \A t \in Routes : /\ t \in [1..TopK -> Int]
                        /\ \A i, j \in 1..TopK : t[i] = t[j] /\ t[i] >= 0 => i = j
                        /\ \A i \in 1..TopK : setup.map # << >> /\ t[i] >= 0 => t[i] \in DOMAIN setup.map
  BY RouterAssumption
<1>5. DOMAIN r = 1..(n * TopK) /\ Len(r) = n * TopK
  <2>1. DOMAIN r = 1..(n * TopK)
    <3> HIDE DEF q, m
    <3> QED BY <1>0
  <2> HIDE DEF q, m
  <2> QED BY <1>0, <1>2, <2>1
<1>6. Len(r) \div TopK = n
  <2>1. n * TopK = TopK * n
    BY <1>2
  <2> QED BY <1>2, <1>5, <2>1, Product
<1>7. \A i, j \in DOMAIN r : (i - 1) \div TopK = (j - 1) \div TopK => q(i) = q(j)
  OBVIOUS
<1>8. \A i \in DOMAIN r : ((i - 1) \div TopK) + 1 \in 1..n
  BY <1>3, <1>5
<1> HIDE DEF q, m
<1>9. \A i \in DOMAIN r : r[i] = b[q(i)][m(i)] /\ b[q(i)] \in Routes
  BY <1>0, <1>3, <1>5
<1>10. \A i \in DOMAIN r : r[i] \in Int /\ (setup.map # << >> /\ r[i] >= 0 => r[i] \in DOMAIN setup.map)
  BY <1>3, <1>4, <1>5, <1>9
<1>11. ASSUME NEW i \in DOMAIN r, NEW j \in DOMAIN r, q(i) = q(j), r[i] = r[j], r[i] >= 0
       PROVE  i = j
  <2> DEFINE t == b[q(i)]
  <2>1. t \in Routes /\ r[i] = t[m(i)] /\ r[j] = t[m(j)]
    BY <1>9, <1>11
  <2>2. m(i) \in 1..TopK /\ m(j) \in 1..TopK
    BY <1>3, <1>5
  <2> HIDE DEF t
  <2>3. m(i) = m(j)
    BY <1>4, <1>11, <2>1, <2>2
  <2> QED BY <1>3, <1>5, <1>11, <2>3
<1>12. \A i, j \in DOMAIN r :
         (i - 1) \div TopK = (j - 1) \div TopK /\ r[i] = r[j] /\ r[i] >= 0 => i = j
  BY <1>7, <1>11
<1> QED BY <1>2, <1>5, <1>6, <1>8, <1>10, <1>12 DEF RowsOf

\* The loop's number of an expert is the router's, through the map.
LEMMA LoopRuns ==
  ASSUME NEW r, NEW n \in Nat, RowsOf(r, n), NEW E \in SUBSET Moe!Experts, setup \in Setups
  PROVE  RunsExactly(Moe!Loop(r, E), r, E)
<1> DEFINE mapped(raw) == IF setup.map # << >> /\ raw \in DOMAIN setup.map THEN setup.map[raw] ELSE raw
           slot(i) == [launch |-> 0, nth |-> i, expert |-> mapped(r[i]), row |-> i]
           Ran0 == {j \in DOMAIN r : r[j] >= 0 /\ mapped(r[j]) \in Moe!Experts \cap E}
           D == Moe!Loop(r, E)
<1>1. D = {slot(i) : i \in Ran0}
  BY DEF Moe!Loop
<1>2. \A i \in DOMAIN r : r[i] >= 0 => At(r, i) = IF mapped(r[i]) \in Moe!Experts THEN mapped(r[i]) ELSE Local
  <2> TAKE i \in DOMAIN r
  <2>1. setup.map # << >> /\ r[i] >= 0 => r[i] \in DOMAIN setup.map
    BY DEF RowsOf
  <2> QED BY <2>1 DEF At, Moe!Localize
<1>3. \A i \in DOMAIN r : At(r, i) \in Moe!Experts => r[i] >= 0
  BY ExpertsAre DEF At, Moe!Localize
<1>4. Local \notin Moe!Experts
  BY ExpertsAre
<1>5. \A i : slot(i).row = i /\ slot(i).expert = mapped(r[i])
  OBVIOUS
<1> HIDE DEF mapped, slot, D
<1>6. \A i \in Ran0 : mapped(r[i]) \in E /\ i \in Mine(r, mapped(r[i]))
  BY <1>2 DEF Mine
<1>7. \A e \in E : \A i \in Mine(r, e) : i \in Ran0
  BY <1>2, <1>3, <1>4 DEF Mine
<1> HIDE DEF Ran0
<1> QED BY <1>1, <1>5, <1>6, <1>7 DEF RunsExactly, D

\* A batch of no more tokens than a launch holds has no fat expert: a token
\* is routed to an expert once.
LEMMA FewTokens ==
  ASSUME NEW r, NEW n \in Nat, RowsOf(r, n), setup \in Setups, n <= Moe!Cap
  PROVE  Moe!Fat(Moe!Counts(r)) = {}
<1>0. DOMAIN r = 1..(n * TopK) /\ n * TopK \in Nat
  BY ExpertsAssumption DEF RowsOf
<1>1. ASSUME NEW e \in Moe!Experts PROVE Moe!Counts(r)[e] <= n
  <2> DEFINE M == Mine(r, e)
             f == [i \in M |-> ((i - 1) \div TopK) + 1]
  <2>1. \A i \in M : i \in DOMAIN r /\ At(r, i) = e
    BY DEF Mine
  <2>2. \A i, j \in M : r[i] = r[j] /\ r[i] >= 0
    <3> TAKE i, j \in M
    <3>1. r[i] >= 0 /\ r[j] >= 0 /\ e # Local
      BY <1>1, <2>1, ExpertsAre DEF At, Moe!Localize
    <3>2. CASE setup.map = << >>
      BY <2>1, <3>1, <3>2 DEF At, Moe!Localize
    <3>3. CASE setup.map # << >>
      <4>1. r[i] \in DOMAIN setup.map /\ r[j] \in DOMAIN setup.map
        BY <2>1, <3>1, <3>3 DEF RowsOf
      <4>2. setup.map[r[i]] = e /\ setup.map[r[j]] = e
        BY <2>1, <3>1, <3>3, <4>1 DEF At, Moe!Localize
      <4>3. e >= 0
        BY ExpertsAre
      <4>4. r[i] = r[j]
        BY <3>3, <4>1, <4>2, <4>3, RouterAssumption
      <4> QED BY <3>1, <4>4
    <3> QED BY <3>2, <3>3
  <2>3. f \in Injection(M, 1..n)
    <3>1. f \in [M -> 1..n]
      <4>1. \A i \in M : ((i - 1) \div TopK) + 1 \in 1..n
        BY <2>1 DEF RowsOf
      <4> HIDE DEF M
      <4> QED BY <4>1
    <3>2. \A i, j \in M : f[i] = f[j] => i = j
      <4> TAKE i, j \in M
      <4>1. (i - 1) \div TopK \in Int /\ (j - 1) \div TopK \in Int
        <5>1. i \in Int /\ j \in Int /\ TopK \in Nat \ {0}
          BY <1>0, <2>1, ExpertsAssumption
        <5> QED BY <5>1
      <4>2. f[i] = f[j] => (i - 1) \div TopK = (j - 1) \div TopK
        <5> DEFINE a == (i - 1) \div TopK
                   b == (j - 1) \div TopK
        <5>1. f[i] = a + 1 /\ f[j] = b + 1 /\ a \in Int /\ b \in Int
          <6> HIDE DEF M
          <6> QED BY <4>1
        <5> HIDE DEF f, a, b
        <5>2. f[i] = f[j] => a = b
          BY <5>1
        <5> QED BY <5>2 DEF a, b
      <4> HIDE DEF f, M
      <4> QED BY <2>1, <2>2, <4>2 DEF RowsOf
    <3> HIDE DEF f, M
    <3> QED BY <3>1, <3>2 DEF Injection, IsInjective
  <2>4. Cardinality(M) <= Cardinality(1..n)
    <3> HIDE DEF f, M
    <3>1. IsFiniteSet(1..n)
      BY FS_Interval
    <3> QED BY <2>3, <3>1, FS_Injection
  <2>5. Cardinality(1..n) = n
    BY FS_Interval
  <2>6. Moe!Counts(r)[e] = Cardinality(M)
    BY <1>0, <1>1, MineIs
  <2> HIDE DEF M
  <2> QED BY <2>4, <2>5, <2>6
<1>2. \A e \in Moe!Experts : Moe!Counts(r)[e] \in Nat
  BY <1>0, MineIs
<1>3. Moe!Cap \in Nat
  BY ExpertsAssumption DEF Moe!Cap
<1>4. \A e \in Moe!Experts : ~(Moe!Counts(r)[e] > Moe!Cap)
  BY <1>1, <1>2, <1>3
<1> QED BY <1>4 DEF Moe!Fat

----------------------------------------------------------------------------
(* The scratch, and the tiles                                              *)

\* The scratch of the batched tier is made large enough.
LEMMA ScratchGrows ==
  ASSUME NEW old \in Nat, NEW n \in Nat
  PROVE  Moe!Grown(old, n) \in Nat /\ Moe!Grown(old, n) >= n
<1> DEFINE m == Max({Floor, n})
           F == [k \in 1..m |-> [x \in Nat |-> 2 * x]]
           double[k \in 0..m] == IF k = 0 THEN 1 ELSE 2 * double[k - 1]
           S == {double[k] : k \in 0..m} \ 0..(m - 1)
<1>1. m \in Nat /\ m >= n
  BY ExpertsAssumption, MaxOfPair
<1>2. Moe!Grown(old, n) = IF old >= n THEN old ELSE Min(S)
  BY MoeSets DEF Moe!Grown
<1> HIDE DEF m
<1>3. F \in [1..m -> [Nat -> Nat]] /\ \A k \in 1..m, x \in Nat : F[k][x] = 2 * x
  OBVIOUS
<1> HIDE DEF F
<1>4. PICK f : Iterates(f, m, Nat, 1, F)
  BY <1>1, <1>3, Iterated
<1>5. f \in [0..m -> Nat] /\ f = [k \in 0..m |-> IF k = 0 THEN 1 ELSE F[k][f[k - 1]]]
  BY <1>4 DEF Iterates
<1>6. \A k \in 1..m : F[k][f[k - 1]] = 2 * f[k - 1]
  <2> TAKE k \in 1..m
  <2>1. k - 1 \in 0..m
    BY <1>1
  <2>2. f[k - 1] \in Nat
    BY <1>5, <2>1
  <2> QED BY <1>3, <2>2
<1>7. f = [k \in 0..m |-> IF k = 0 THEN 1 ELSE 2 * f[k - 1]]
  <2>1. \A k \in 0..m : k = 0 \/ k \in 1..m
    OBVIOUS
  <2> QED BY <1>5, <1>6, <2>1
<1>8. double = [k \in 0..m |-> IF k = 0 THEN 1 ELSE 2 * double[k - 1]]
  BY <1>7
<1> HIDE DEF double
<1>9. \A k \in 0..m : double[k] \in Nat /\ double[k] >= k + 1
  <2> DEFINE B == {k \in 0..m : double[k] \in Nat /\ double[k] >= k + 1}
  <2>1. 0 \in B
    BY <1>1, <1>8
  <2>2. ASSUME NEW k \in 1..m, k - 1 \in B PROVE k \in B
    <3>1. double[k] = 2 * double[k - 1]
      BY <1>1, <1>8
    <3>2. double[k - 1] \in Nat /\ double[k - 1] >= k
      BY <2>2
    <3> QED BY <3>1, <3>2
  <2> HIDE DEF B
  <2>3. \A k \in 0..m : k \in B
    BY <1>1, <2>1, <2>2, UpTo
  <2> QED BY <2>3 DEF B
<1>10. Min(S) \in Nat /\ Min(S) >= m
  <2>1. double[m] \in S /\ S \in SUBSET Nat
    <3>1. m \in 0..m /\ double[m] \in Nat /\ double[m] >= m + 1
      BY <1>1, <1>9
    <3>2. double[m] \notin 0..(m - 1)
      BY <1>1, <3>1
    <3> QED BY <1>9, <3>1, <3>2
  <2>2. Min(S) \in S
    <3> HIDE DEF S
    <3> QED BY <2>1, MinOfNaturals
  <2>3. Min(S) \in Nat /\ Min(S) \notin 0..(m - 1)
    BY <2>1, <2>2
  <2> HIDE DEF S
  <2> QED BY <1>1, <2>3
<1> HIDE DEF S
<1> QED BY <1>1, <1>2, <1>10

LEMMA ScratchHolds ==
  ASSUME NEW c \in [Moe!Experts -> Nat], scratch \in Nat
  PROVE  /\ Moe!ScratchAt(c, Local - 1) \in Nat
         /\ \A e \in Moe!Fat(c) : Moe!ScratchAt(c, e) \in Nat /\ Moe!ScratchAt(c, e) >= c[e]
<1> DEFINE next(d, x) == IF c[d - 1] > Moe!Cap THEN Moe!Grown(x, c[d - 1]) ELSE x
           F == [d \in 1..Local |-> [x \in Nat |-> next(d, x)]]
           upTo[d \in 0..Local] ==
             IF d = 0 THEN scratch
             ELSE IF c[d - 1] > Moe!Cap THEN Moe!Grown(upTo[d - 1], c[d - 1]) ELSE upTo[d - 1]
<1>1. \A d \in 1..Local : d - 1 \in Moe!Experts
  BY ExpertsAre
<1>2. \A d \in 1..Local, x \in Nat : next(d, x) \in Nat
  BY <1>1, ScratchGrows
<1>3. F \in [1..Local -> [Nat -> Nat]] /\ \A d \in 1..Local, x \in Nat : F[d][x] = next(d, x)
  <2> HIDE DEF next
  <2> QED BY <1>2
<1> HIDE DEF F
<1>4. PICK f : Iterates(f, Local, Nat, scratch, F)
  BY <1>3, Iterated, ExpertsAre
<1>5. f \in [0..Local -> Nat] /\ f = [d \in 0..Local |-> IF d = 0 THEN scratch ELSE F[d][f[d - 1]]]
  BY <1>4 DEF Iterates
<1>6. \A d \in 1..Local : F[d][f[d - 1]] = next(d, f[d - 1])
  <2> TAKE d \in 1..Local
  <2>1. d - 1 \in 0..Local
    BY ExpertsAre
  <2>2. f[d - 1] \in Nat
    BY <1>5, <2>1
  <2> HIDE DEF next
  <2> QED BY <1>3, <2>2
<1>7. f = [d \in 0..Local |-> IF d = 0 THEN scratch ELSE next(d, f[d - 1])]
  <2>1. \A d \in 0..Local : d = 0 \/ d \in 1..Local
    BY ExpertsAre
  <2> HIDE DEF next
  <2> QED BY <1>5, <1>6, <2>1
<1>8. upTo = [d \in 0..Local |-> IF d = 0 THEN scratch
               ELSE IF c[d - 1] > Moe!Cap THEN Moe!Grown(upTo[d - 1], c[d - 1]) ELSE upTo[d - 1]]
  BY <1>7
<1>9. \A e : Moe!ScratchAt(c, e) = upTo[e + 1]
  BY DEF Moe!ScratchAt
<1> HIDE DEF upTo
<1>10. \A d \in 0..Local : upTo[d] \in Nat
  <2> DEFINE B == {d \in 0..Local : upTo[d] \in Nat}
  <2>1. 0 \in B
    BY <1>8, ExpertsAre
  <2>2. ASSUME NEW d \in 1..Local, d - 1 \in B PROVE d \in B
    <3>1. upTo[d] = next(d, upTo[d - 1])
      BY <1>8, ExpertsAre
    <3>2. upTo[d - 1] \in Nat
      BY <2>2
    <3>3. upTo[d] \in Nat
      BY <1>2, <3>1, <3>2
    <3> QED BY <3>3, ExpertsAre
  <2> HIDE DEF B
  <2>3. \A d \in 0..Local : d \in B
    BY <2>1, <2>2, UpTo, ExpertsAre
  <2> QED BY <2>3 DEF B
<1>11. ASSUME NEW e \in Moe!Fat(c) PROVE upTo[e + 1] \in Nat /\ upTo[e + 1] >= c[e]
  <2>1. e \in Moe!Experts /\ c[e] > Moe!Cap
    BY DEF Moe!Fat
  <2>2. e \in 0..Local /\ e + 1 \in 0..Local /\ e + 1 # 0 /\ (e + 1) - 1 = e
    BY <2>1, ExpertsAre
  <2>3. upTo[e + 1] = Moe!Grown(upTo[e], c[e])
    BY <1>8, <2>1, <2>2
  <2>4. upTo[e] \in Nat /\ c[e] \in Nat
    BY <1>10, <2>1, <2>2
  <2> QED BY <2>3, <2>4, ScratchGrows
<1>12. (Local - 1) + 1 = Local /\ Local \in 0..Local
  BY ExpertsAre
<1> QED BY <1>9, <1>10, <1>11, <1>12

\* A tile takes of every expert the rows behind those of the tiles before it.
LEMMA TileIs ==
  ASSUME NEW c \in [Moe!Experts -> Nat], NEW row0 \in Nat, NEW rows, setup \in Setups
  PROVE  LET tile == Moe!TileRows(c, rows, row0) IN
         /\ tile.counts \in [Moe!Experts -> Nat]
         /\ \A e \in Moe!Experts :
              /\ tile.counts[e] <= Moe!Cap
              /\ \A j \in Nat \ {0} : j <= tile.counts[e] <=> j <= Moe!Cap /\ row0 + j <= c[e]
         /\ \A e \in Moe!Experts : \A j \in 1..tile.counts[e] :
              tile.rows[Moe!Before(tile.counts, e) + j] = rows[Moe!Before(c, e) + row0 + j]
<1> DEFINE tile == Moe!TileRows(c, rows, row0)
           size(e) == Max({0, Min({Moe!Cap, c[e] - row0})})
           n == [e \in Moe!Experts |-> size(e)]
           cum == [e \in Moe!Experts |-> Moe!Before(n, e) + n[e]]
           over(idx) == {d \in Moe!Experts : cum[d] > idx}
           src(idx) == LET e == Min(over(idx)) IN Moe!Before(c, e) + row0 + idx - (cum[e] - n[e])
<1>1. tile = [counts |-> n, rows |-> [k \in 1..Moe!Before(n, Local) |-> rows[src(k - 1) + 1]]]
  BY DEF Moe!TileRows, Moe!Max, Moe!Min, Max, Min
<1>2. Moe!Cap \in Nat \ {0}
  BY ExpertsAssumption DEF Moe!Cap
<1>3. \A e \in Moe!Experts : /\ size(e) \in Nat /\ size(e) <= Moe!Cap
                             /\ \A j \in Nat \ {0} : j <= size(e) <=> j <= Moe!Cap /\ row0 + j <= c[e]
  <2> TAKE e \in Moe!Experts
  <2>1. c[e] - row0 \in Int
    OBVIOUS
  <2> DEFINE x == c[e] - row0
             a == Min({Moe!Cap, x})
  <2>2. a = IF Moe!Cap <= x THEN Moe!Cap ELSE x
    <3> HIDE DEF x
    <3>1. \A y \in Int : Min({Moe!Cap, y}) = IF Moe!Cap <= y THEN Moe!Cap ELSE y
      BY <1>2 DEF Min
    <3> QED BY <2>1, <3>1 DEF x
  <2>3. size(e) = IF a >= 0 THEN a ELSE 0
    <3>1. a \in Int
      BY <1>2, <2>1, <2>2
    <3>2. \A y \in Int : Max({0, y}) = IF y >= 0 THEN y ELSE 0
      BY DEF Max
    <3> HIDE DEF a
    <3> QED BY <3>1, <3>2 DEF a
  <2>4. c[e] \in Nat
    OBVIOUS
  <2> HIDE DEF a, size
  <2> QED BY <1>2, <2>2, <2>3, <2>4
<1> HIDE DEF size
<1>4. n \in [Moe!Experts -> Nat] /\ \A e \in Moe!Experts : n[e] = size(e)
  BY <1>3
<1> HIDE DEF n
<1>5. /\ \A e \in 0..Local : Moe!Before(n, e) \in Nat
      /\ \A d \in Moe!Experts, e \in 0..Local : d < e => Moe!Before(n, d) + n[d] <= Moe!Before(n, e)
  BY <1>4, BeforeIs
<1>6. ASSUME NEW e \in Moe!Experts, NEW j \in 1..n[e]
      PROVE  tile.rows[Moe!Before(n, e) + j] = rows[Moe!Before(c, e) + row0 + j]
  <2> DEFINE idx == Moe!Before(n, e) + j - 1
  <2>1. e \in 0..Local /\ e < Local /\ Local \in 0..Local /\ n[e] \in Nat /\ j \in Nat /\ j >= 1 /\ j <= n[e]
    <3>1. n[e] \in Nat
      BY <1>4
    <3> QED BY <3>1, ExpertsAre
  <2>2. Moe!Before(n, e) \in Nat /\ Moe!Before(n, Local) \in Nat
        /\ Moe!Before(n, e) + n[e] <= Moe!Before(n, Local)
    BY <1>5, <2>1
  <2>3. idx + 1 \in 1..Moe!Before(n, Local) /\ idx \in Nat /\ idx < Moe!Before(n, e) + n[e]
    BY <2>1, <2>2
  <2>4. Min(over(idx)) = e
    <3>1. over(idx) \in SUBSET Nat
      BY ExpertsAre
    <3>2. e \in over(idx)
      BY <2>3 DEF cum
    <3>3. \A d \in over(idx) : ~(d < e)
      <4> TAKE d \in over(idx)
      <4>1. d \in Moe!Experts /\ Moe!Before(n, d) + n[d] > idx
        OBVIOUS
      <4>2. d < e => Moe!Before(n, d) + n[d] <= Moe!Before(n, e)
        BY <1>5, <2>1, <4>1
      <4>3. Moe!Before(n, d) \in Nat /\ n[d] \in Nat
        <5>1. d \in 0..Local
          BY <4>1, ExpertsAre
        <5> QED BY <1>4, <1>5, <4>1, <5>1
      <4> HIDE DEF over, cum
      <4> QED BY <2>1, <2>2, <4>1, <4>2, <4>3
    <3>4. Min(over(idx)) \in over(idx) /\ \A y \in over(idx) : Min(over(idx)) <= y
      <4> DEFINE S == over(idx)
      <4>1. S \in SUBSET Nat /\ S # {}
        BY <3>1, <3>2
      <4> HIDE DEF S
      <4>2. Min(S) \in S /\ \A y \in S : Min(S) <= y
        BY <4>1, MinOfNaturals
      <4> QED BY <4>2 DEF S
    <3>5. Min(over(idx)) \in Nat /\ e \in Nat
      BY <3>1, <3>2, <3>4
    <3> HIDE DEF over
    <3> QED BY <3>2, <3>3, <3>4, <3>5
  <2>5. cum[e] - n[e] = Moe!Before(n, e)
    <3>1. cum[e] = Moe!Before(n, e) + n[e]
      OBVIOUS
    <3> HIDE DEF cum
    <3> QED BY <2>1, <2>2, <3>1
  <2>6. src(idx) = Moe!Before(c, e) + row0 + idx - Moe!Before(n, e)
    BY <2>4, <2>5
  <2>7. Moe!Before(c, e) \in Nat
    BY <2>1, BeforeIs
  <2>8. src(idx) + 1 = Moe!Before(c, e) + row0 + j
    <3> HIDE DEF src
    <3> QED BY <2>1, <2>2, <2>6, <2>7
  <2>9. tile.rows[idx + 1] = rows[src(idx) + 1]
    <3>1. tile.rows = [k \in 1..Moe!Before(n, Local) |-> rows[src(k - 1) + 1]]
      BY <1>1
    <3>2. (idx + 1) - 1 = idx
      BY <2>3
    <3> HIDE DEF src, idx, tile
    <3> QED BY <2>3, <3>1, <3>2
  <2>10. idx + 1 = Moe!Before(n, e) + j
    BY <2>1, <2>2
  <2> HIDE DEF src, idx, tile
  <2> QED BY <2>8, <2>9, <2>10
<1>7. tile.counts = n
  BY <1>1
<1> HIDE DEF tile
<1> QED BY <1>3, <1>4, <1>6, <1>7 DEF tile

\* A row is in one tile, at one place.
LEMMA TileOf ==
  ASSUME NEW p \in Nat \ {0}, NEW t \in Nat \ {0}, NEW u \in Nat \ {0}, NEW i \in 1..p, NEW j \in 1..p,
         (t - 1) * p + i = (u - 1) * p + j
  PROVE  t = u /\ i = j
<1>1. ASSUME NEW x \in Nat, NEW y \in Nat, NEW a \in 1..p, NEW b \in 1..p, x < y
      PROVE  x * p + a < y * p + b
  <2>1. (x + 1) * p <= y * p /\ (x + 1) * p = x * p + p
    BY <1>1
  <2>2. x * p \in Nat /\ y * p \in Nat
    OBVIOUS
  <2> QED BY <2>1, <2>2
<1>2. t - 1 \in Nat /\ u - 1 \in Nat
  OBVIOUS
<1>3. ~(t - 1 < u - 1) /\ ~(u - 1 < t - 1)
  <2>1. (t - 1) * p \in Nat /\ (u - 1) * p \in Nat
    BY <1>2
  <2>2. t - 1 < u - 1 => (t - 1) * p + i < (u - 1) * p + j
    BY <1>1, <1>2
  <2>3. u - 1 < t - 1 => (u - 1) * p + j < (t - 1) * p + i
    BY <1>1, <1>2
  <2> QED BY <2>1, <2>2, <2>3
<1>4. t = u
  BY <1>3
<1>5. (t - 1) * p \in Nat
  BY <1>2
<1> QED BY <1>4, <1>5

\* There are tiles enough for the expert with most rows.
LEMMA TilesReach ==
  ASSUME NEW p \in Nat \ {0}, NEW m \in Nat, NEW k \in 1..m
  PROVE  LET t == ((k - 1) \div p) + 1
             j == ((k - 1) % p) + 1
         IN  t \in 1..((m + p - 1) \div p) /\ j \in 1..p /\ k = (t - 1) * p + j
<1> DEFINE q == (k - 1) \div p
           d == (k - 1) % p
<1>1. q \in Nat /\ d \in 0..(p - 1) /\ k - 1 = p * q + d
  OBVIOUS
<1> HIDE DEF q, d
<1>2. p * q \in Nat /\ p * (q + 1) = p * q + p /\ q * p = p * q
  BY <1>1
<1>3. m + p - 1 \in Nat /\ m + p - 1 >= p * (q + 1)
  BY <1>1, <1>2
<1>4. (m + p - 1) \div p >= q + 1
  BY <1>1, <1>3, DivBound
<1>5. (m + p - 1) \div p \in Nat
  BY <1>3
<1>6. q + 1 \in 1..((m + p - 1) \div p) /\ d + 1 \in 1..p /\ k = ((q + 1) - 1) * p + (d + 1)
  <2>1. (q + 1) - 1 = q
    BY <1>1
  <2> QED BY <1>1, <1>2, <1>4, <1>5, <2>1
<1> QED BY <1>6 DEF q, d

LEMMA TilesRun ==
  ASSUME NEW n \in Nat, NEW r, DOMAIN r = 1..n, setup \in Setups
  PROVE  RunsExactly(Moe!RowTiles(Moe!Counts(r), Moe!Sorted(r)), r, Moe!Experts)
<1> DEFINE c == Moe!Counts(r)
           rows == Moe!Sorted(r)
           T == (Moe!Largest(c) + Moe!Cap - 1) \div Moe!Cap
           tile(t) == Moe!TileRows(c, rows, (t - 1) * Moe!Cap)
           at(t, e, j) == rows[Moe!Before(c, e) + (t - 1) * Moe!Cap + j]
           slot(t, e, j) == [launch |-> t, nth |-> j, expert |-> e, row |-> at(t, e, j)]
           D == Moe!RowTiles(c, rows)
<1>1. c \in [Moe!Experts -> Nat] /\ \A e \in Moe!Experts : c[e] = Cardinality(Mine(r, e))
  BY MineIs
<1>2. Moe!Cap \in Nat \ {0}
  BY ExpertsAssumption DEF Moe!Cap
<1>3. Moe!Largest(c) \in Nat /\ \A e \in Moe!Experts : c[e] <= Moe!Largest(c)
  <2> DEFINE S == {c[e] : e \in DOMAIN c} \cup {0}
  <2>1. \A e \in Moe!Experts : c[e] <= n
    <3> TAKE e \in Moe!Experts
    <3>1. Mine(r, e) \in SUBSET (1..n)
      BY MineIs
    <3>2. IsFiniteSet(1..n) /\ Cardinality(1..n) = n
      BY FS_Interval
    <3>3. Cardinality(Mine(r, e)) <= n
      BY <3>1, <3>2, FS_Subset
    <3> QED BY <1>1, <3>3
  <2> HIDE DEF c
  <2>2. S \in SUBSET (0..n) /\ S # {} /\ \A e \in Moe!Experts : c[e] \in S
    BY <1>1, <2>1
  <2> HIDE DEF S
  <2>3. Max(S) \in S /\ \A y \in S : Max(S) >= y
    BY <2>2, MaxOfBounded
  <2>4. Moe!Largest(c) = Max(S)
    BY MoeSets DEF Moe!Largest, S
  <2>5. \A e \in Moe!Experts : c[e] \in Nat
    BY <1>1
  <2>6. Max(S) \in Nat /\ \A e \in Moe!Experts : c[e] <= Max(S)
    <3> DEFINE m == Max(S)
    <3>1. m \in Nat
      <4>1. \A y \in S : y \in Nat
        BY <2>2
      <4> QED BY <2>3, <4>1
    <3>2. \A e \in Moe!Experts : m >= c[e]
      BY <2>2, <2>3
    <3> HIDE DEF m
    <3>3. \A e \in Moe!Experts : c[e] <= m
      BY <2>5, <3>1, <3>2
    <3> QED BY <3>1, <3>3 DEF m
  <2> QED BY <2>4, <2>6
<1>4. \A t \in 1..T : (t - 1) * Moe!Cap \in Nat
  <2> TAKE t \in 1..T
  <2>1. T \in Int
    BY <1>2, <1>3
  <2> HIDE DEF T
  <2>2. t - 1 \in Nat
    BY <2>1
  <2> QED BY <1>2, <2>2
<1> HIDE DEF c, rows
<1>5. ASSUME NEW t \in 1..T
      PROVE  /\ tile(t).counts \in [Moe!Experts -> Nat]
             /\ Moe!Kernel(t, tile(t).counts, tile(t).rows)
                  = UNION {{slot(t, e, j) : j \in 1..tile(t).counts[e]} : e \in Moe!Experts}
             /\ \A e \in Moe!Experts : \A j \in Nat \ {0} :
                  j <= tile(t).counts[e] <=> j <= Moe!Cap /\ (t - 1) * Moe!Cap + j <= c[e]
  <2> DEFINE k == (t - 1) * Moe!Cap
             s == tile(t).counts
             y == tile(t).rows
  <2>1. k \in Nat
    BY <1>4
  <2>2. /\ s \in [Moe!Experts -> Nat]
        /\ \A e \in Moe!Experts :
              /\ s[e] <= Moe!Cap
              /\ \A j \in Nat \ {0} : j <= s[e] <=> j <= Moe!Cap /\ k + j <= c[e]
        /\ \A e \in Moe!Experts : \A j \in 1..s[e] :
             y[Moe!Before(s, e) + j] = rows[Moe!Before(c, e) + k + j]
    BY <1>1, <2>1, TileIs
  <2> HIDE DEF tile, k
  <2>3. Moe!Fat(s) = {}
    <3>1. \A e \in Moe!Experts : s[e] \in Nat /\ s[e] <= Moe!Cap
      BY <2>2
    <3> HIDE DEF s
    <3>2. \A e \in Moe!Experts : ~(s[e] > Moe!Cap)
      BY <1>2, <3>1
    <3> QED BY <3>2 DEF Moe!Fat
  <2> HIDE DEF s, y
  <2>4. Moe!Kernel(t, s, y) =
          UNION {{[launch |-> t, nth |-> j, expert |-> e, row |-> y[Moe!Before(s, e) + j]] :
                    j \in 1..s[e]} : e \in Moe!Experts}
    BY <2>3 DEF Moe!Kernel, Moe!Slices
  <2>5. \A e \in Moe!Experts :
          {[launch |-> t, nth |-> j, expert |-> e, row |-> y[Moe!Before(s, e) + j]] : j \in 1..s[e]}
            = {slot(t, e, j) : j \in 1..s[e]}
    BY <2>2 DEF k
  <2> HIDE DEF slot
  <2>6. Moe!Kernel(t, s, y) = UNION {{slot(t, e, j) : j \in 1..s[e]} : e \in Moe!Experts}
    BY <2>4, <2>5
  <2> QED BY <2>2, <2>6 DEF s, y, k
<1>6. \A x : x \in D <=> \E t \in 1..T : \E e \in Moe!Experts : \E j \in 1..tile(t).counts[e] : x = slot(t, e, j)
  <2>1. D = UNION {Moe!Kernel(t, tile(t).counts, tile(t).rows) : t \in 1..T}
    BY DEF Moe!RowTiles
  <2> DEFINE K(t) == Moe!Kernel(t, tile(t).counts, tile(t).rows)
  <2>2. \A x : x \in D <=> \E t \in 1..T : x \in K(t)
    BY <2>1
  <2>3. ASSUME NEW t \in 1..T, NEW x
        PROVE  x \in K(t) <=> \E e \in Moe!Experts : \E j \in 1..tile(t).counts[e] : x = slot(t, e, j)
    <3>1. K(t) = UNION {{slot(t, e, j) : j \in 1..tile(t).counts[e]} : e \in Moe!Experts}
      BY <1>5
    <3> HIDE DEF K, tile, slot
    <3> QED BY <3>1
  <2> HIDE DEF D, tile, slot, T, K
  <2> QED BY <2>2, <2>3
<1>7. \A t, e, j : slot(t, e, j).expert = e /\ slot(t, e, j).row = at(t, e, j)
  OBVIOUS
<1>8. ASSUME NEW t \in 1..T, NEW e \in Moe!Experts, NEW j \in 1..tile(t).counts[e]
      PROVE  /\ at(t, e, j) \in Mine(r, e) /\ Rank(Mine(r, e), at(t, e, j)) = (t - 1) * Moe!Cap + j
             /\ j \in 1..Moe!Cap /\ t \in Nat \ {0}
  <2> DEFINE k == (t - 1) * Moe!Cap
             i == k + j
  <2>1. k \in Nat
    BY <1>4
  <2>2. j \in Nat \ {0} /\ j <= Moe!Cap /\ k + j <= c[e]
    <3>1. tile(t).counts[e] \in Nat
      BY <1>5
    <3>2. j \in Nat \ {0} /\ j <= tile(t).counts[e]
      <4> HIDE DEF tile
      <4> QED BY <3>1
    <3> HIDE DEF tile
    <3> QED BY <1>5, <3>2
  <2>3. i \in 1..c[e] /\ Moe!Before(c, e) \in Nat
    <3>1. Moe!Before(c, e) \in Nat
      <4>1. e \in 0..Local
        BY ExpertsAre
      <4> QED BY <1>1, <4>1, BeforeIs
    <3>2. c[e] \in Nat
      BY <1>1
    <3> HIDE DEF k
    <3> QED BY <2>1, <2>2, <3>1, <3>2
  <2>4. rows[Moe!Before(c, e) + i] \in Mine(r, e) /\ Rank(Mine(r, e), rows[Moe!Before(c, e) + i]) = i
    <3> HIDE DEF i
    <3> QED BY <2>3, SortedIs DEF c, rows
  <2>5. Moe!Before(c, e) + i = Moe!Before(c, e) + k + j
    <3> HIDE DEF k
    <3> QED BY <2>1, <2>2, <2>3
  <2>6. t \in Nat \ {0}
    <3>1. T \in Int
      BY <1>2, <1>3
    <3> HIDE DEF T
    <3> QED BY <3>1
  <2>7. j \in 1..Moe!Cap
    BY <1>2, <2>2
  <2> QED BY <2>4, <2>5, <2>6, <2>7
<1> HIDE DEF D
<1>9. \A x \in D : x.expert \in Moe!Experts /\ x.row \in Mine(r, x.expert)
  <2> HIDE DEF slot, at, T, tile
  <2> QED BY <1>6, <1>7, <1>8
<1>10. ASSUME NEW e \in Moe!Experts, NEW i \in Mine(r, e) PROVE \E x \in D : x.row = i
  <2> DEFINE k == Rank(Mine(r, e), i)
             t == ((k - 1) \div Moe!Cap) + 1
             j == ((k - 1) % Moe!Cap) + 1
             m == Moe!Largest(c)
  <2>0. Mine(r, e) \in SUBSET (1..n)
    BY MineIs
  <2>1. k \in 1..c[e] /\ k \in 1..m
    <3>1. k \in 1..Cardinality(Mine(r, e))
      BY <2>0, Ranks
    <3>2. c[e] \in Nat /\ c[e] = Cardinality(Mine(r, e)) /\ c[e] <= m
      BY <1>1, <1>3
    <3> HIDE DEF k, m
    <3> QED BY <1>3, <3>1, <3>2 DEF m
  <2>2. t \in 1..T /\ j \in 1..Moe!Cap /\ k = (t - 1) * Moe!Cap + j
    <3> HIDE DEF k, m
    <3> QED BY <1>2, <1>3, <2>1, TilesReach DEF m
  <2> HIDE DEF t, j
  <2>3. j \in 1..tile(t).counts[e]
    <3>1. j \in Nat \ {0} /\ j <= Moe!Cap /\ (t - 1) * Moe!Cap + j <= c[e]
      <4>1. c[e] \in Nat
        BY <1>1
      <4> HIDE DEF k
      <4> QED BY <1>2, <2>1, <2>2, <4>1
    <3>2. j <= tile(t).counts[e] /\ tile(t).counts[e] \in Nat
      <4> HIDE DEF tile
      <4> QED BY <1>5, <2>2, <3>1
    <3> HIDE DEF tile
    <3> QED BY <3>1, <3>2
  <2>4. at(t, e, j) \in Mine(r, e) /\ Rank(Mine(r, e), at(t, e, j)) = k
    BY <1>8, <2>2, <2>3
  <2>5. at(t, e, j) = i
    <3> DEFINE P == Mine(r, e)
               x == at(t, e, j)
    <3>1. P \in SUBSET (1..n) /\ x \in P /\ i \in P /\ Rank(P, x) = Rank(P, i)
      BY <2>0, <2>4 DEF k
    <3> HIDE DEF P, x
    <3>2. \A y, z \in P : Rank(P, y) = Rank(P, z) => y = z
      BY <3>1, Ranks
    <3>3. x = i
      BY <3>1, <3>2
    <3> QED BY <3>3 DEF x
  <2>6. slot(t, e, j) \in D /\ slot(t, e, j).row = i
    <3> HIDE DEF slot, at, tile, T
    <3> QED BY <1>6, <1>7, <2>2, <2>3, <2>5
  <2> QED BY <2>6
<1>11. ASSUME NEW x \in D, NEW y \in D, x.row = y.row PROVE x = y
  <2>1. PICK t \in 1..T : \E e \in Moe!Experts : \E j \in 1..tile(t).counts[e] : x = slot(t, e, j)
    BY <1>6
  <2>2. PICK e \in Moe!Experts : \E j \in 1..tile(t).counts[e] : x = slot(t, e, j)
    BY <2>1
  <2>3. PICK j \in 1..tile(t).counts[e] : x = slot(t, e, j)
    BY <2>2
  <2>4. PICK u \in 1..T : \E f \in Moe!Experts : \E i \in 1..tile(u).counts[f] : y = slot(u, f, i)
    BY <1>6
  <2>5. PICK f \in Moe!Experts : \E i \in 1..tile(u).counts[f] : y = slot(u, f, i)
    BY <2>4
  <2>6. PICK i \in 1..tile(u).counts[f] : y = slot(u, f, i)
    BY <2>5
  <2>7. /\ at(t, e, j) \in Mine(r, e) /\ Rank(Mine(r, e), at(t, e, j)) = (t - 1) * Moe!Cap + j
        /\ j \in 1..Moe!Cap /\ t \in Nat \ {0}
    BY <1>8
  <2>8. /\ at(u, f, i) \in Mine(r, f) /\ Rank(Mine(r, f), at(u, f, i)) = (u - 1) * Moe!Cap + i
        /\ i \in 1..Moe!Cap /\ u \in Nat \ {0}
    BY <1>8
  <2> HIDE DEF slot, tile, T
  <2>9. at(t, e, j) = at(u, f, i)
    BY <1>7, <1>11, <2>3, <2>6
  <2> HIDE DEF at
  <2>10. e = f
    BY <2>7, <2>8, <2>9 DEF Mine
  <2>11. (t - 1) * Moe!Cap + j = (u - 1) * Moe!Cap + i
    BY <2>7, <2>8, <2>9, <2>10
  <2>12. t = u /\ j = i
    BY <1>2, <2>7, <2>8, <2>11, TileOf
  <2> QED BY <2>3, <2>6, <2>10, <2>12
<1> QED BY <1>9, <1>10, <1>11 DEF RunsExactly, D, c, rows

----------------------------------------------------------------------------
(* Every row once                                                          *)

\* All rows of a batch, by the launch that skips the fat experts and the tier
\* that runs them.
LEMMA SplitRuns ==
  ASSUME NEW n \in Nat, NEW r, RowsOf(r, n), setup \in Setups, scratch \in Nat, NEW tier
  PROVE  RunsExactly(Moe!Kernel(1, Moe!Counts(r), Moe!Sorted(r))
                       \cup Moe!RunFat(tier, Moe!Counts(r), Moe!Sorted(r), r), r, Moe!Experts)
<1> DEFINE c == Moe!Counts(r)
           s == Moe!Sorted(r)
           fat == Moe!Fat(c)
           thin == Moe!Experts \ fat
<1>0. DOMAIN r = 1..(n * TopK) /\ n * TopK \in Nat
  BY ExpertsAssumption DEF RowsOf
<1>1. c \in [Moe!Experts -> Nat]
  BY <1>0, MineIs
<1>2. fat \in SUBSET Moe!Experts /\ thin \in SUBSET Moe!Experts /\ thin \cap fat = {} /\ thin \cup fat = Moe!Experts
  BY DEF Moe!Fat
<1> HIDE DEF fat
<1>3. RunsExactly(Moe!Kernel(1, c, s), r, thin)
  <2>1. Moe!Kernel(1, c, s) = Moe!Slices(1, thin, c, s, c)
    BY DEF Moe!Kernel, fat
  <2> HIDE DEF thin
  <2> QED BY <1>0, <1>2, <2>1, SlicesRun
<1>4. RunsExactly(Moe!Loop(r, fat), r, fat)
  BY <1>2, LoopRuns
<1>5. RunsExactly(Moe!SortedFat(c, s), r, fat)
  BY <1>0, <1>2, SlicesRun DEF Moe!SortedFat, fat
<1>6. RunsExactly(Moe!BatchedFat(c, s), r, fat)
  <2> DEFINE size == [e \in Moe!Experts |-> Moe!Min({c[e], Moe!ScratchAt(c, e)})]
  <2>1. Moe!BatchedFat(c, s) = Moe!Slices(0, fat, c, s, size)
    BY DEF Moe!BatchedFat, fat
  <2>2. \A e \in fat : size[e] = c[e]
    <3> TAKE e \in fat
    <3> HIDE DEF c
    <3>1. size[e] = Min({c[e], Moe!ScratchAt(c, e)})
      BY <1>2, MoeSets
    <3>2. Moe!ScratchAt(c, e) \in Nat /\ Moe!ScratchAt(c, e) >= c[e]
      BY <1>1, ScratchHolds DEF fat
    <3>3. c[e] \in Nat
      BY <1>1, <1>2
    <3> HIDE DEF size
    <3> QED BY <3>1, <3>2, <3>3, MinOfPair
  <2> HIDE DEF size
  <2> QED BY <1>0, <1>2, <2>1, <2>2, SlicesRun
<1>7. RunsExactly(Moe!RunFat(tier, c, s, r), r, fat)
  BY <1>4, <1>5, <1>6 DEF Moe!RunFat, fat
<1> HIDE DEF thin, c, s
<1> QED BY <1>2, <1>3, <1>7, RunsTogether DEF c, s

\* A launch that skips no expert.
LEMMA ThinRuns ==
  ASSUME NEW n \in Nat, NEW r, RowsOf(r, n), Moe!Fat(Moe!Counts(r)) = {}
  PROVE  RunsExactly(Moe!Kernel(1, Moe!Counts(r), Moe!Sorted(r)), r, Moe!Experts)
<1>1. DOMAIN r = 1..(n * TopK) /\ n * TopK \in Nat
  BY ExpertsAssumption DEF RowsOf
<1>2. Moe!Kernel(1, Moe!Counts(r), Moe!Sorted(r))
        = Moe!Slices(1, Moe!Experts, Moe!Counts(r), Moe!Sorted(r), Moe!Counts(r))
  BY DEF Moe!Kernel
<1> QED BY <1>1, <1>2, SlicesRun

\* The scratch is a size, and what ran last is the last batch.
RowsInv ==
  /\ setup \in Setups /\ scratch \in Nat
  /\ step # "raised" => RunsExactly(done, ids, Moe!Experts)

LEMMA ApplyRuns ==
  ASSUME RowsInv, NEW r \in Moe!Batches, Moe!Apply(r)
  PROVE  /\ setup' = setup /\ ids' = r /\ scratch' \in Nat
         /\ step' # "raised" => RunsExactly(done', r, Moe!Experts)
<1> DEFINE l == (diag.calls % Layers) + 1
           layer == layers[l]
           c == Moe!Counts(r)
           s == Moe!Sorted(r)
           tokens == Len(r) \div TopK
           fat == Moe!Cardinality(Moe!Fat(c))
           tier == Moe!FatTier(layer)
           grows == layer.ptrs /\ tokens > Moe!Cap /\ ~setup.tiles /\ tier \in {"batched", "kernel"}
                      /\ ~Moe!Raises(tier)
<1>1. /\ setup' = setup /\ ids' = r /\ step = "serve"
      /\ scratch' = IF grows THEN Moe!ScratchAt(c, Local - 1) ELSE scratch
      /\ \/ done' = Moe!Loop(r, Moe!Experts)
         \/ tokens <= Moe!Cap /\ done' = Moe!Kernel(1, c, s)
         \/ fat = 0 /\ done' = Moe!Kernel(1, c, s)
         \/ done' = Moe!RowTiles(c, s)
         \/ step' = "raised"
         \/ done' = Moe!Kernel(1, c, s) \cup Moe!RunFat(tier, c, s, r)
  BY DEF Moe!Apply, Moe!Served
<1>2. setup \in Setups /\ scratch \in Nat
  BY DEF RowsInv
<1>3. PICK n \in Nat : RowsOf(r, n)
  BY <1>2, BatchRows
<1>4. DOMAIN r = 1..(n * TopK) /\ n * TopK \in Nat /\ tokens = n
  BY <1>3, ExpertsAssumption DEF RowsOf
<1>5. c \in [Moe!Experts -> Nat]
  BY <1>4, MineIs
<1> HIDE DEF tokens, grows, tier, c, s
<1>6. scratch' \in Nat
  <2>1. Moe!ScratchAt(c, Local - 1) \in Nat
    BY <1>2, <1>5, ScratchHolds
  <2> QED BY <1>1, <1>2, <2>1
<1>7. CASE done' = Moe!Loop(r, Moe!Experts)
  <2>1. RunsExactly(Moe!Loop(r, Moe!Experts), r, Moe!Experts)
    BY <1>2, <1>3, LoopRuns
  <2> QED BY <1>1, <1>6, <1>7, <2>1
<1>8. CASE tokens <= Moe!Cap /\ done' = Moe!Kernel(1, c, s)
  <2>1. Moe!Fat(c) = {}
    BY <1>2, <1>3, <1>4, <1>8, FewTokens DEF c
  <2>2. RunsExactly(Moe!Kernel(1, c, s), r, Moe!Experts)
    BY <1>3, <2>1, ThinRuns DEF c, s
  <2> QED BY <1>1, <1>6, <1>8, <2>2
<1>9. CASE fat = 0 /\ done' = Moe!Kernel(1, c, s)
  <2>1. Moe!Fat(c) = {}
    <3>1. Cardinality(Moe!Fat(c)) = 0
      BY <1>9, MoeSets
    <3>2. IsFiniteSet(Moe!Fat(c))
      <4>1. IsFiniteSet(0..(Local - 1))
        BY ExpertsAssumption, FS_Interval
      <4>2. Moe!Fat(c) \in SUBSET (0..(Local - 1))
        BY DEF Moe!Fat, Moe!Experts
      <4> QED BY <4>1, <4>2, FS_Subset
    <3> QED BY <3>1, <3>2, FS_EmptySet
  <2>2. RunsExactly(Moe!Kernel(1, c, s), r, Moe!Experts)
    BY <1>3, <2>1, ThinRuns DEF c, s
  <2> QED BY <1>1, <1>6, <1>9, <2>2
<1>10. CASE done' = Moe!RowTiles(c, s)
  <2>1. RunsExactly(Moe!RowTiles(c, s), r, Moe!Experts)
    BY <1>2, <1>4, TilesRun DEF c, s
  <2> QED BY <1>1, <1>6, <1>10, <2>1
<1>11. CASE done' = Moe!Kernel(1, c, s) \cup Moe!RunFat(tier, c, s, r)
  <2>1. RunsExactly(Moe!Kernel(1, c, s) \cup Moe!RunFat(tier, c, s, r), r, Moe!Experts)
    BY <1>2, <1>3, SplitRuns DEF c, s
  <2> QED BY <1>1, <1>6, <1>11, <2>1
<1> QED BY <1>1, <1>6, <1>7, <1>8, <1>9, <1>10, <1>11

LEMMA RowsStep ==
  ASSUME RowsInv, Moe!Next \/ UNCHANGED mvars
  PROVE  RowsInv'
<1>1. ASSUME setup' = setup, scratch' \in Nat,
             step' # "raised" => RunsExactly(done', ids', Moe!Experts)
      PROVE  RowsInv'
  <2>1. Moe!Experts' = Moe!Experts /\ \A id : Moe!Localize(id)' = Moe!Localize(id)
    BY <1>1 DEF Moe!Localize, Moe!Experts
  <2>2. RunsExactly(done, ids, Moe!Experts)' <=> RunsExactly(done', ids', Moe!Experts)
    BY <2>1 DEF RunsExactly, Mine, At
  <2> QED BY <1>1, <2>2 DEF RowsInv
<1>2. CASE UNCHANGED <<setup, scratch, ids, done>> /\ (step = "raised" => step' = "raised")
  <2>1. setup' = setup /\ scratch' = scratch /\ ids' = ids /\ done' = done
    BY <1>2
  <2>2. scratch' \in Nat
    BY <2>1 DEF RowsInv
  <2>3. step' # "raised" => RunsExactly(done', ids', Moe!Experts)
    BY <1>2, <2>1 DEF RowsInv
  <2> QED BY <1>1, <2>1, <2>2, <2>3
<1>3. CASE Moe!CreateWeights \/ (\E id \in {"w1", "w2", "w3"} : Moe!LoadShard(id))
             \/ (\E shared, marker \in BOOLEAN : Moe!ProcessWeights(shared, marker)) \/ UNCHANGED mvars
  <2>1. UNCHANGED <<setup, scratch, ids, done>> /\ (step = "raised" => step' = "raised")
    BY <1>3 DEF Moe!CreateWeights, Moe!LoadShard, Moe!ProcessWeights, mvars
  <2> QED BY <1>2, <2>1
<1>4. ASSUME NEW r \in Moe!Batches, Moe!Apply(r) PROVE RowsInv'
  BY <1>1, <1>4, ApplyRuns
<1> QED BY <1>3, <1>4 DEF Moe!Next

LEMMA RowsStart ==
  ASSUME setup \in Setups, scratch = 0, ids = << >>, done = {}
  PROVE  RowsInv
<1>1. \A e : Mine(ids, e) = {}
  BY DEF Mine
<1> QED BY <1>1 DEF RowsInv, RunsExactly

LEMMA RowsHold ==
  ASSUME RowsInv
  PROVE  Moe!EachRowOnce
<1> SUFFICES ASSUME step = "serve", NEW i \in DOMAIN ids
             PROVE  LET runs == {d \in done : d.row = i} IN
                    IF Moe!Localize(ids[i]) = Local THEN runs = {}
                    ELSE \E d \in runs : runs = {d} /\ d.expert = Moe!Localize(ids[i])
  BY DEF Moe!EachRowOnce
<1> DEFINE e == Moe!Localize(ids[i])
<1>1. RunsExactly(done, ids, Moe!Experts)
  BY DEF RowsInv
<1>2. \A d \in done : d.row = i => d.expert = e /\ d.expert \in Moe!Experts
  BY <1>1 DEF RunsExactly, Mine, At
<1>3. e \in Moe!Experts \cup {Local} /\ Local \notin Moe!Experts
  BY LocalIs, ExpertsAre
<1>4. e \in Moe!Experts => i \in Mine(ids, e)
  BY DEF Mine, At
<1> HIDE DEF e
<1>5. e \in Moe!Experts => \E d \in done : d.row = i
  BY <1>1, <1>4 DEF RunsExactly
<1>6. \A d, x \in done : d.row = i /\ x.row = i => d = x
  BY <1>1 DEF RunsExactly
<1>7. CASE e = Local
  BY <1>2, <1>3, <1>7 DEF e
<1>8. CASE e \in Moe!Experts
  <2>1. PICK d \in done : d.row = i
    BY <1>5, <1>8
  <2>2. {x \in done : x.row = i} = {d}
    BY <1>6, <2>1
  <2> QED BY <1>2, <1>3, <1>8, <2>1, <2>2 DEF e
<1> QED BY <1>3, <1>7, <1>8

----------------------------------------------------------------------------
(* The experts: the three theorems                                         *)

MoeInv == part = "moe" => SlicesSet /\ TierInv /\ RowsInv

LEMMA MoeStarts ==
  ASSUME PartsInit
  PROVE  MoeInv
<1> SUFFICES ASSUME part = "moe" PROVE SlicesSet /\ TierInv /\ RowsInv
  BY DEF MoeInv
<1>1. /\ setup \in Setups /\ step = "create" /\ slices = << >> /\ layers = << >>
      /\ diag = [loaded |-> 0, sharedLayers |-> 0, shared |-> FALSE, tier |-> "legacy", calls |-> 0,
                 prefills |-> 0, slots |-> 0, fatLayers |-> 0, thin |-> 0, tiles |-> 0,
                 runs |-> [t \in Moe!Tiers |-> 0], fat |-> 0]
  BY DEF PartsInit, Moe!Init
<1>2. SlicesSet
  <2>1. DOMAIN slices = {}
    BY <1>1
  <2> QED BY <1>1, <2>1 DEF SlicesSet
<1>3. LayersSet
  <2>1. layers \in Seq(LayerType) /\ Len(layers) = 0 /\ DOMAIN layers = {}
    BY <1>1
  <2> QED BY <1>1, <2>1, ExpertsAssumption DEF LayersSet
<1>4. DiagTyped /\ Counted
  BY <1>1 DEF DiagTyped, DiagType, Counted, Runs, Moe!Tiers
<1>5. RowsInv
  <2>1. scratch = 0 /\ ids = << >> /\ done = {}
    BY DEF PartsInit, Moe!Init
  <2> QED BY <1>1, <2>1, RowsStart
<1> QED BY <1>2, <1>3, <1>4, <1>5 DEF TierInv

LEMMA MoeInvariance == PartsSpec => []MoeInv
<1>1. PartsInit => MoeInv
  BY MoeStarts
<1>2. MoeInv /\ [PartsNext]_<<part, vars, kvars, ovars, mvars>> => MoeInv'
  <2> SUFFICES ASSUME MoeInv, [PartsNext]_<<part, vars, kvars, ovars, mvars>>, part' = "moe"
               PROVE  (SlicesSet /\ TierInv /\ RowsInv)'
    BY DEF MoeInv
  <2>1. part = "moe" /\ (Moe!Next \/ UNCHANGED mvars)
    BY DEF PartsNext, Indexing, Planning, Constraining, Multiplying
  <2> QED BY <2>1, SlicesStep, TierStep, RowsStep DEF MoeInv
<1> QED BY <1>1, <1>2, PTL DEF PartsSpec

\* For every size of the experts and every number of ranks: what is loaded is
\* dealt out once, and each rank's rows of down are those its columns of gate
\* and up feed (exl3.py:497-524).
THEOREM RanksHoldTheExpert == PartsSpec => []RanksShareTheExpert
<1>1. MoeInv => RanksShareTheExpert
  BY RanksShareHolds DEF MoeInv, RanksShareTheExpert
<1> QED BY <1>1, MoeInvariance, PTL

\* For every setup, batch and choice of the router: what a batch reads from
\* the environment is what was resolved at load, and the counters account for
\* every prefill (exl3.py:252-261).
THEOREM TierIsDecidedAtLoad == PartsSpec => []LoadDecidesTheTier
<1>1. MoeInv => LoadDecidesTheTier
  BY TierHolds DEF MoeInv, LoadDecidesTheTier
<1> QED BY <1>1, MoeInvariance, PTL

\* For every setup, every batch and all that the router may choose, however
\* the batch is split: no row of this rank is lost or run twice, and each is
\* run by its own expert (exl3.py:1120-1126).
THEOREM EveryRowIsRunOnce == PartsSpec => []EachRowOnce
<1>1. MoeInv => EachRowOnce
  BY RowsHold DEF MoeInv, EachRowOnce
<1> QED BY <1>1, MoeInvariance, PTL

----------------------------------------------------------------------------
(* The constrained request                                                 *)
(*                                                                         *)
(* The argument.  A batch or a window of drafts is a recursive function    *)
(* over its tokens; that it exists and what it keeps is shown token by     *)
(* token (Iterated, UpTo).  While the loop of the bitmask walks, the       *)
(* matcher is ahead of where it was by what it counted (Ahead), so the     *)
(* rollback restores it (Rolled); the rows are what the matcher takes at   *)
(* each place, so what a step takes of them is accepted (StepAccepts).     *)
(* Between two steps the matcher therefore stands where the output does    *)
(* (Follows).  For the stop string: what ended in the text before a step   *)
(* ends there after it, and the search looks at all that ends behind it    *)
(* (EndKept, LookBack).                                                    *)

----------------------------------------------------------------------------
(* The matcher                                                             *)

Grammar == [on : BOOLEAN, word : Seq(Tokens), count : Nat, flag : BOOLEAN]

\* The flag and the count agree with the word.
Sound(g) ==
  /\ g \in Grammar /\ g.flag = Output!Terminated(g.word) /\ g.count = Len(g.word)

LEMMA AdvancedIs ==
  ASSUME NEW g, Sound(g), NEW t \in Tokens
  PROVE  LET a == Output!Advanced(g, t)
         IN  Sound(a) /\ a.word = Append(g.word, t) /\ a.on = g.on
<1> DEFINE a == Output!Advanced(g, t)
           b == Output!Terminated(Append(g.word, t))
<1>1. b \in BOOLEAN
  BY DEF Output!Terminated
<1>2. a = [g EXCEPT !.word = Append(g.word, t), !.count = g.count + 1, !.flag = b]
  BY DEF Output!Advanced, Sound, Grammar
<1>3. g \in Grammar /\ Append(g.word, t) \in Seq(Tokens) /\ g.count + 1 \in Nat
      /\ g.count + 1 = Len(Append(g.word, t))
  BY DEF Sound, Grammar
<1> HIDE DEF b
<1>4. a \in Grammar /\ a.word = Append(g.word, t) /\ a.count = g.count + 1 /\ a.flag = b /\ a.on = g.on
  BY <1>1, <1>2, <1>3 DEF Grammar
<1> QED BY <1>3, <1>4 DEF Sound, b

Outcome == [g : {g \in Grammar : Sound(g)}, ok : BOOLEAN]

AcceptStep(r, t) ==
  IF ~r.ok \/ r.g.flag THEN r
  ELSE IF ~Output!Takes(r.g.word, t) THEN [r EXCEPT !.ok = FALSE]
  ELSE [r EXCEPT !.g = Output!Advanced(@, t)]

LEMMA AcceptStepType ==
  ASSUME NEW r \in Outcome, NEW t \in Tokens
  PROVE  AcceptStep(r, t) \in Outcome
<1>1. Sound(r.g)
  BY DEF Outcome
<1>2. Output!Advanced(r.g, t) \in {g \in Grammar : Sound(g)}
  BY <1>1, AdvancedIs DEF Sound
<1> QED BY <1>2 DEF AcceptStep, Outcome

\* What AcceptTokens does, token by token.
Accepts(f, g, ts) ==
  /\ f \in [0..Len(ts) -> Outcome] /\ f[0] = [g |-> g, ok |-> TRUE]
  /\ \A i \in 1..Len(ts) : f[i] = AcceptStep(f[i - 1], ts[i])
  /\ Output!AcceptTokens(g, ts) = f[Len(ts)]

LEMMA AcceptRun ==
  ASSUME NEW g, Sound(g), NEW ts \in Seq(Tokens)
  PROVE  \E f : Accepts(f, g, ts)
<1> DEFINE n == Len(ts)
           s == [g |-> g, ok |-> TRUE]
           F == [i \in 1..n |-> [r \in Outcome |-> AcceptStep(r, ts[i])]]
<1>1. n \in Nat /\ s \in Outcome /\ \A i \in 1..n : ts[i] \in Tokens
  BY DEF Outcome, Sound
<1>2. F \in [1..n -> [Outcome -> Outcome]]
  BY <1>1, AcceptStepType
<1> HIDE DEF s, F, n
<1>3. PICK h : Iterates(h, n, Outcome, s, F)
  BY <1>1, <1>2, Iterated
<1>4. h = [i \in 0..n |-> IF i = 0 THEN s ELSE AcceptStep(h[i - 1], ts[i])]
  <2>1. \A i \in 1..n : F[i][h[i - 1]] = AcceptStep(h[i - 1], ts[i])
    <3> TAKE i \in 1..n
    <3>1. i - 1 \in 0..n /\ h \in [0..n -> Outcome]
      BY <1>1, <1>3 DEF Iterates
    <3>2. h[i - 1] \in Outcome
      BY <3>1
    <3> QED BY <3>2 DEF F
  <2>2. h = [i \in 0..n |-> IF i = 0 THEN s ELSE F[i][h[i - 1]]]
    BY <1>3 DEF Iterates
  <2> QED BY <1>1, <2>1, <2>2
<1> DEFINE f[i \in 0..Len(ts)] ==
        IF i = 0 THEN [g |-> g, ok |-> TRUE]
        ELSE IF ~f[i - 1].ok \/ f[i - 1].g.flag THEN f[i - 1]
        ELSE IF ~Output!Takes(f[i - 1].g.word, ts[i]) THEN [f[i - 1] EXCEPT !.ok = FALSE]
        ELSE [f[i - 1] EXCEPT !.g = Output!Advanced(@, ts[i])]
<1>5. f = [i \in 0..n |-> IF i = 0 THEN s ELSE AcceptStep(f[i - 1], ts[i])]
  BY <1>4 DEF AcceptStep, s, n
<1>6. Output!AcceptTokens(g, ts) = f[Len(ts)]
  BY DEF Output!AcceptTokens
<1> HIDE DEF f
<1>7. f[0] = s /\ \A i \in 1..n : f[i] = AcceptStep(f[i - 1], ts[i])
  BY <1>1, <1>5
<1>8. \A i \in 0..n : f[i] \in Outcome
  <2> DEFINE B == {i \in 0..n : f[i] \in Outcome}
  <2>1. 0 \in B /\ \A i \in 1..n : i - 1 \in B => i \in B
    BY <1>1, <1>7, AcceptStepType
  <2> HIDE DEF B
  <2>2. \A i \in 0..n : i \in B
    BY <1>1, <2>1, UpTo
  <2> QED BY <2>2 DEF B
<1>9. f \in [0..n -> Outcome]
  BY <1>5, <1>8
<1>10. Accepts(f, g, ts)
  BY <1>6, <1>7, <1>9 DEF Accepts, n, s
<1> QED BY <1>10

LEMMA AcceptOne ==
  ASSUME NEW g, Sound(g), NEW t \in Tokens
  PROVE  Output!AcceptTokens(g, <<t>>) = AcceptStep([g |-> g, ok |-> TRUE], t)
<1>1. <<t>> \in Seq(Tokens) /\ Len(<<t>>) = 1 /\ <<t>>[1] = t
  OBVIOUS
<1>2. PICK f : Accepts(f, g, <<t>>)
  BY <1>1, AcceptRun
<1>3. f[1] = AcceptStep(f[0], t)
  <2>1. 1 \in 1..1 /\ 1 - 1 = 0
    OBVIOUS
  <2> QED BY <1>1, <1>2, <2>1 DEF Accepts
<1> QED BY <1>1, <1>2, <1>3 DEF Accepts

\* What was accepted is a prefix of the batch: all of it, unless it ended.
Reached(r, g, ts, i) ==
  r.g.on = g.on /\ (r.ok => \E k \in 0..i : r.g.word = g.word \o SubSeq(ts, 1, k) /\ (k = i \/ r.g.flag))

LEMMA AcceptIs ==
  ASSUME NEW g, Sound(g), NEW ts \in Seq(Tokens), NEW f, Accepts(f, g, ts)
  PROVE  \A i \in 0..Len(ts) : Reached(f[i], g, ts, i)
<1> DEFINE n == Len(ts)
           B == {i \in 0..n : Reached(f[i], g, ts, i)}
<1>1. n \in Nat /\ g.word \in Seq(Tokens)
  BY DEF Sound, Grammar
<1>2. 0 \in B
  <2>1. f[0] = [g |-> g, ok |-> TRUE]
    BY DEF Accepts
  <2>2. g.word = g.word \o SubSeq(ts, 1, 0)
    <3>1. SubSeq(ts, 1, 0) = << >>
      OBVIOUS
    <3> QED BY <1>1, <3>1
  <2>3. Reached(f[0], g, ts, 0)
    BY <2>1, <2>2 DEF Reached
  <2> QED BY <1>1, <2>3
<1>3. ASSUME NEW i \in 1..n, Reached(f[i - 1], g, ts, i - 1) PROVE Reached(f[i], g, ts, i)
  <2>1. f[i] = AcceptStep(f[i - 1], ts[i]) /\ f[i - 1] \in Outcome /\ ts[i] \in Tokens
    <3>1. i - 1 \in 0..n
      BY <1>1
    <3> QED BY <1>1, <3>1 DEF Accepts
  <2>2. CASE ~f[i - 1].ok
    BY <1>3, <2>1, <2>2 DEF Reached, AcceptStep
  <2>3. CASE f[i - 1].ok /\ f[i - 1].g.flag
    <3>1. f[i] = f[i - 1]
      BY <2>1, <2>3 DEF AcceptStep
    <3>2. PICK k \in 0..(i - 1) : f[i - 1].g.word = g.word \o SubSeq(ts, 1, k)
      BY <1>3, <2>3 DEF Reached
    <3>3. k \in 0..i
      BY <1>1
    <3> QED BY <1>3, <2>3, <3>1, <3>2, <3>3 DEF Reached
  <2>4. CASE f[i - 1].ok /\ ~f[i - 1].g.flag /\ ~Output!Takes(f[i - 1].g.word, ts[i])
    <3>1. f[i] = [f[i - 1] EXCEPT !.ok = FALSE]
      BY <2>1, <2>4 DEF AcceptStep
    <3>2. f[i].ok = FALSE /\ f[i].g = f[i - 1].g
      BY <2>1, <3>1 DEF Outcome
    <3> QED BY <1>3, <3>2 DEF Reached
  <2>5. CASE f[i - 1].ok /\ ~f[i - 1].g.flag /\ Output!Takes(f[i - 1].g.word, ts[i])
    <3>1. f[i] = [f[i - 1] EXCEPT !.g = Output!Advanced(f[i - 1].g, ts[i])]
      BY <2>1, <2>5 DEF AcceptStep
    <3>2. f[i].g = Output!Advanced(f[i - 1].g, ts[i])
      BY <2>1, <3>1 DEF Outcome
    <3>3. f[i].g.on = f[i - 1].g.on /\ f[i].g.word = Append(f[i - 1].g.word, ts[i])
      BY <2>1, <3>2, AdvancedIs DEF Outcome
    <3>4. f[i - 1].g.word = g.word \o SubSeq(ts, 1, i - 1)
      BY <1>3, <2>5 DEF Reached
    <3>5. i - 1 \in 0..(Len(ts) - 1) /\ (i - 1) + 1 = i
      BY <1>1
    <3> HIDE DEF n
    <3>6. Append(g.word \o SubSeq(ts, 1, i - 1), ts[i]) = g.word \o SubSeq(ts, 1, i)
      BY <1>1, <3>5, Extend
    <3>7. i \in 0..i
      BY <1>1
    <3> QED BY <1>3, <3>3, <3>4, <3>6, <3>7 DEF Reached
  <2> QED BY <2>2, <2>3, <2>4, <2>5
<1>4. \A i \in 1..n : i - 1 \in B => i \in B
  BY <1>1, <1>3
<1> HIDE DEF B, n
<1>5. \A i \in 0..n : i \in B
  BY <1>1, <1>2, <1>4, UpTo
<1> QED BY <1>5 DEF B, n

\* The longest run of drafts that the matcher takes.
Taken(g, ts, n) == \A i \in 1..n : Output!Takes(g.word \o SubSeq(ts, 1, i - 1), ts[i])
Stuck(g, ts, n) == n = Len(ts) \/ ~Output!Takes(g.word \o SubSeq(ts, 1, n), ts[n + 1])

LEMMA ValidateIs ==
  ASSUME NEW g, ~g.flag, NEW ts \in Seq(Tokens)
  PROVE  \E n \in 0..Len(ts) :
           Output!ValidateTokens(g, ts) = SubSeq(ts, 1, n) /\ Taken(g, ts, n) /\ Stuck(g, ts, n)
<1> DEFINE m == Len(ts)
           P(n) == Taken(g, ts, n) /\ Stuck(g, ts, n)
<1>1. m \in Nat
  OBVIOUS
<1>2. \E n \in 0..m : P(n)
  <2> SUFFICES ASSUME \A n \in 0..m : ~P(n) PROVE FALSE
    OBVIOUS
  <2> DEFINE B == {n \in 0..m : Taken(g, ts, n)}
  <2>1. 0 \in B
    BY <1>1 DEF Taken
  <2>2. ASSUME NEW i \in 1..m, Taken(g, ts, i - 1) PROVE Taken(g, ts, i)
    <3>1. i - 1 \in 0..m /\ (i - 1) + 1 = i
      BY <1>1
    <3>2. Output!Takes(g.word \o SubSeq(ts, 1, i - 1), ts[i])
      BY <2>2, <3>1 DEF Stuck
    <3>3. \A j \in 1..i : j = i \/ j \in 1..(i - 1)
      BY <1>1
    <3> HIDE DEF m
    <3> QED BY <2>2, <3>2, <3>3 DEF Taken
  <2>3. \A i \in 1..m : i - 1 \in B => i \in B
    BY <2>2, <1>1
  <2>4. m \in B
    <3> HIDE DEF B, m
    <3>1. \A i \in 0..m : i \in B
      BY <1>1, <2>1, <2>3, UpTo
    <3> QED BY <1>1, <3>1
  <2>5. P(m)
    BY <2>4 DEF Stuck
  <2> QED BY <1>1, <2>5
<1> DEFINE c == CHOOSE n \in 0..m : P(n)
<1>3. c \in 0..m /\ P(c)
  <2> HIDE DEF P
  <2> QED BY <1>2
<1>4. Output!ValidateTokens(g, ts) = SubSeq(ts, 1, c)
  BY DEF Output!ValidateTokens, Taken, Stuck
<1> QED BY <1>3, <1>4

----------------------------------------------------------------------------
(* The loop of the bitmask                                                 *)

Loop ==
  [g : {g \in Grammar : Sound(g)}, apply : BOOLEAN, window : BOOLEAN, steps : Nat,
   error : BOOLEAN, rows : Seq(SUBSET Tokens)]

\* One draft: outside the constrained part nothing moves; in it the matcher
\* moves when it takes the draft, and nothing fails that was validated.
Walked(l, m, t) ==
  /\ m.rows = Append(l.rows, Output!Allowed(m.g, m.apply))
  /\ ~l.apply => /\ m.g = l.g /\ m.steps = l.steps /\ m.error = l.error
                 /\ m.apply = (t = "END") /\ m.window = (t = "END")
  /\ l.apply => /\ m.apply /\ m.window = l.window
                /\ IF ~l.g.flag /\ Output!Takes(l.g.word, t)
                   THEN m.g = Output!Advanced(l.g, t) /\ m.steps = l.steps + 1
                   ELSE m.g = l.g /\ m.steps = l.steps
                /\ l.window \/ l.g.flag \/ Output!Takes(l.g.word, t) => m.error = l.error

LEMMA CheckedIs ==
  ASSUME NEW l \in Loop, NEW t \in Tokens, ~l.g.flag, l.window
  PROVE  Output!Checked(l, t) <=> Output!Takes(l.g.word, t)
<1> DEFINE ts == <<t>>
           w == l.g.word
<1>1. ts \in Seq(Tokens) /\ Len(ts) = 1 /\ ts[1] = t /\ w \in Seq(Tokens)
  BY DEF Loop, Grammar
<1>2. PICK n \in 0..Len(ts) :
        Output!ValidateTokens(l.g, ts) = SubSeq(ts, 1, n) /\ Taken(l.g, ts, n) /\ Stuck(l.g, ts, n)
  BY <1>1, ValidateIs
<1>3. w \o SubSeq(ts, 1, 0) = w
  <2>1. SubSeq(ts, 1, 0) = << >>
    BY <1>1
  <2> QED BY <1>1, <2>1
<1>4. n = 0 \/ n = 1
  BY <1>1, <1>2
<1> HIDE DEF ts
<1>5. CASE n = 0
  <2>1. SubSeq(ts, 1, 0) = << >>
    BY <1>1
  <2>2. ~Output!Takes(w, t)
    <3>1. ~Output!Takes(w \o SubSeq(ts, 1, 0), ts[0 + 1])
      BY <1>1, <1>2, <1>5 DEF Stuck
    <3>2. 0 + 1 = 1
      OBVIOUS
    <3> QED BY <1>1, <1>3, <3>1, <3>2
  <2>3. Output!ValidateTokens(l.g, <<t>>) = << >>
    BY <1>2, <1>5, <2>1 DEF ts
  <2> QED BY <2>2, <2>3 DEF Output!Checked
<1>6. CASE n = 1
  <2>1. SubSeq(ts, 1, 1) # << >>
    <3>1. Len(SubSeq(ts, 1, 1)) = 1
      BY <1>1
    <3>2. SUFFICES ASSUME SubSeq(ts, 1, 1) = << >> PROVE FALSE
      OBVIOUS
    <3>3. Len(<< >>) = 1
      BY <3>1, <3>2
    <3>4. Len(<< >>) = 0
      BY EmptySeq
    <3> QED BY <3>3, <3>4
  <2>2. Output!Takes(w, t)
    <3>1. 1 \in 1..n
      BY <1>6
    <3>2. Output!Takes(w \o SubSeq(ts, 1, 1 - 1), ts[1])
      BY <1>2, <3>1 DEF Taken
    <3>3. 1 - 1 = 0
      OBVIOUS
    <3> QED BY <1>1, <1>3, <3>2, <3>3
  <2>3. Output!ValidateTokens(l.g, <<t>>) # << >>
    BY <1>2, <1>6, <2>1 DEF ts
  <2> QED BY <2>2, <2>3 DEF Output!Checked
<1> QED BY <1>4, <1>5, <1>6

LEMMA WalkIs ==
  ASSUME NEW l \in Loop, NEW t \in Tokens
  PROVE  Output!Walk(l, t) \in Loop /\ Walked(l, Output!Walk(l, t), t)
<1> DEFINE m == Output!Walk(l, t)
           e == t = "END"
<1>0. /\ l.g \in Grammar /\ Sound(l.g) /\ l.rows \in Seq(SUBSET Tokens) /\ l.steps \in Nat
      /\ \A g, b : Output!Allowed(g, b) \in SUBSET Tokens
  BY DEF Loop, Output!Allowed
<1>1. CASE ~l.apply
  <2> DEFINE w == Append(l.rows, Output!Allowed(l.g, e))
  <2>1. m = [l EXCEPT !.apply = e, !.window = e, !.rows = w]
    BY <1>1 DEF Output!Walk
  <2>2. w \in Seq(SUBSET Tokens) /\ e \in BOOLEAN
    BY <1>0
  <2> HIDE DEF w, e, m
  <2>3. m \in Loop
    BY <2>1, <2>2 DEF Loop
  <2>4. /\ m.apply = e /\ m.window = e /\ m.rows = w /\ m.g = l.g
        /\ m.steps = l.steps /\ m.error = l.error
    BY <2>1 DEF Loop
  <2> QED BY <1>1, <2>3, <2>4 DEF Walked, w, e, m
<1>2. CASE l.apply
  <2> DEFINE try == ~l.g.flag /\ Output!Checked(l, t)
             a == Output!AcceptTokens(l.g, <<t>>)
             took == try /\ a.ok
             g2 == IF took THEN a.g ELSE l.g
             s2 == IF took THEN l.steps + 1 ELSE l.steps
             e2 == l.error \/ (try /\ ~a.ok)
             w == Append(l.rows, Output!Allowed(g2, TRUE))
  <2>1. m = [l EXCEPT !.g = g2, !.steps = s2, !.error = e2, !.rows = w]
    BY <1>2 DEF Output!Walk
  <2>2. l.error \in BOOLEAN /\ l \in Loop
    BY DEF Loop
  <2>b. \A x : Append(l.rows, Output!Allowed(x, TRUE)) \in Seq(SUBSET Tokens)
    <3> TAKE x
    <3> DEFINE y == Output!Allowed(x, TRUE)
    <3>1. y \in SUBSET Tokens
      BY <1>0
    <3> HIDE DEF y
    <3>2. Append(l.rows, y) \in Seq(SUBSET Tokens)
      BY <1>0, <3>1
    <3> QED BY <3>2 DEF y
  <2>a. /\ m.apply = TRUE /\ m.window = l.window /\ m.rows = w /\ m.g = g2
    <3> HIDE DEF m, g2, s2, e2, w
    <3> QED BY <1>2, <2>1 DEF Loop
  <2>0. ASSUME m \in Loop,
               IF ~l.g.flag /\ Output!Takes(l.g.word, t)
               THEN m.g = Output!Advanced(l.g, t) /\ m.steps = l.steps + 1
               ELSE m.g = l.g /\ m.steps = l.steps,
               l.window \/ l.g.flag \/ Output!Takes(l.g.word, t) => m.error = l.error
        PROVE  m \in Loop /\ Walked(l, m, t)
    <3> HIDE DEF m, g2
    <3> QED BY <1>2, <2>0, <2>a DEF Walked
  <2>3. a = AcceptStep([g |-> l.g, ok |-> TRUE], t)
    BY <1>0, AcceptOne
  <2> HIDE DEF a
  <2>4. CASE ~l.g.flag /\ Output!Takes(l.g.word, t)
    <3>1. a = [g |-> Output!Advanced(l.g, t), ok |-> TRUE]
      BY <2>3, <2>4 DEF AcceptStep
    <3>2. try
      BY <2>4, CheckedIs DEF Output!Checked
    <3>3. g2 = Output!Advanced(l.g, t) /\ s2 = l.steps + 1 /\ e2 = l.error /\ Sound(g2)
      BY <1>0, <2>2, <3>1, <3>2, AdvancedIs
    <3> HIDE DEF g2, s2, e2, w, try, took
    <3>4. m.g = g2 /\ m.steps = s2 /\ m.error = e2 /\ m \in Loop
      <4>1. s2 \in Nat /\ e2 \in BOOLEAN /\ w \in Seq(SUBSET Tokens) /\ g2 \in Grammar
        <5>1. w \in Seq(SUBSET Tokens)
          BY <2>b DEF w
        <5> QED BY <1>0, <2>2, <3>3, <5>1 DEF Sound
      <4> QED BY <2>1, <3>3, <4>1 DEF Loop
    <3> QED BY <2>0, <2>4, <3>3, <3>4
  <2>5. CASE l.g.flag
    <3>1. ~try
      BY <2>5
    <3>3. g2 = l.g /\ s2 = l.steps /\ e2 = l.error
      BY <2>2, <3>1
    <3> HIDE DEF g2, s2, e2, w, try, took
    <3>4. m.g = g2 /\ m.steps = s2 /\ m.error = e2 /\ m \in Loop
      <4>1. w \in Seq(SUBSET Tokens)
        BY <2>b DEF w
      <4> QED BY <1>0, <2>1, <2>2, <3>3, <4>1 DEF Loop
    <3> QED BY <2>0, <2>5, <3>3, <3>4
  <2>6. CASE ~l.g.flag /\ ~Output!Takes(l.g.word, t)
    <3>1. ~a.ok
      BY <2>3, <2>6 DEF AcceptStep
    <3>2. l.window => ~try
      BY <2>6, CheckedIs
    <3>3. g2 = l.g /\ s2 = l.steps /\ e2 \in BOOLEAN /\ (l.window => e2 = l.error)
      BY <2>2, <3>1, <3>2
    <3> HIDE DEF g2, s2, e2, w, try, took
    <3>4. m.g = g2 /\ m.steps = s2 /\ m.error = e2 /\ m \in Loop
      <4>1. w \in Seq(SUBSET Tokens)
        BY <2>b DEF w
      <4> QED BY <1>0, <2>1, <2>2, <3>3, <4>1 DEF Loop
    <3> QED BY <2>0, <2>6, <3>3, <3>4
  <2> QED BY <2>4, <2>5, <2>6
<1> QED BY <1>1, <1>2 DEF Loop

Start ==
  [g |-> grammar, apply |-> ~think, window |-> FALSE, steps |-> 0, error |-> FALSE,
   rows |-> <<Output!Allowed(grammar, ~think)>>]

\* What Bitmask does, draft by draft.
Walks(l) ==
  /\ l \in [0..Len(drafts) -> Loop] /\ l[0] = Start
  /\ \A i \in 1..Len(drafts) : l[i] = Output!Walk(l[i - 1], drafts[i])
  /\ Output!Bitmask = l[Len(drafts)]

OutTyped ==
  /\ Sound(grammar) /\ think \in BOOLEAN /\ drafts \in Seq(Tokens) /\ out \in Seq(Tokens)
  /\ from \in 0..Len(out)

LEMMA WalkRun ==
  ASSUME OutTyped, grammar.on
  PROVE  \E l : Walks(l)
<1> DEFINE n == Len(drafts)
           F == [i \in 1..n |-> [m \in Loop |-> Output!Walk(m, drafts[i])]]
<1>1. n \in Nat /\ Start \in Loop /\ \A i \in 1..n : drafts[i] \in Tokens
  <2>1. Start \in Loop
    <3> DEFINE y == Output!Allowed(grammar, ~think)
               r == <<y>>
    <3>1. y \in SUBSET Tokens
      BY DEF Output!Allowed
    <3> HIDE DEF y
    <3>2. r \in Seq(SUBSET Tokens)
      BY <3>1
    <3> HIDE DEF r
    <3>3. Start = [g |-> grammar, apply |-> ~think, window |-> FALSE, steps |-> 0, error |-> FALSE, rows |-> r]
      BY DEF Start, r, y
    <3> QED BY <3>2, <3>3 DEF Loop, OutTyped, Sound
  <2> QED BY <2>1 DEF OutTyped
<1>2. F \in [1..n -> [Loop -> Loop]]
  BY <1>1, WalkIs
<1> HIDE DEF F, n
<1>3. PICK h : Iterates(h, n, Loop, Start, F)
  BY <1>1, <1>2, Iterated
<1>4. h = [i \in 0..n |-> IF i = 0 THEN Start ELSE Output!Walk(h[i - 1], drafts[i])]
  <2>1. \A i \in 1..n : F[i][h[i - 1]] = Output!Walk(h[i - 1], drafts[i])
    <3> TAKE i \in 1..n
    <3>1. i - 1 \in 0..n /\ h \in [0..n -> Loop]
      BY <1>1, <1>3 DEF Iterates
    <3>2. h[i - 1] \in Loop
      BY <3>1
    <3> QED BY <3>2 DEF F
  <2>2. h = [i \in 0..n |-> IF i = 0 THEN Start ELSE F[i][h[i - 1]]]
    BY <1>3 DEF Iterates
  <2>3. \A i \in 0..n : i = 0 \/ i \in 1..n
    BY <1>1
  <2>4. \A i \in 0..n : (IF i = 0 THEN Start ELSE F[i][h[i - 1]])
                          = IF i = 0 THEN Start ELSE Output!Walk(h[i - 1], drafts[i])
    BY <2>1, <2>3
  <2> QED BY <2>2, <2>4
<1> DEFINE start == [g |-> grammar, apply |-> ~think, window |-> FALSE, steps |-> 0,
                     error |-> FALSE, rows |-> <<Output!Allowed(grammar, ~think)>>]
           l[i \in 0..Len(drafts)] == IF i = 0 THEN start ELSE Output!Walk(l[i - 1], drafts[i])
<1>5. l = [i \in 0..n |-> IF i = 0 THEN Start ELSE Output!Walk(l[i - 1], drafts[i])]
  BY <1>4 DEF n, Start
<1>6. Output!Bitmask = l[Len(drafts)]
  BY DEF Output!Bitmask
<1> HIDE DEF l
<1>7. l[0] = Start /\ \A i \in 1..n : l[i] = Output!Walk(l[i - 1], drafts[i])
  BY <1>1, <1>5
<1>8. \A i \in 0..n : l[i] \in Loop
  <2> DEFINE B == {i \in 0..n : l[i] \in Loop}
  <2>1. 0 \in B /\ \A i \in 1..n : i - 1 \in B => i \in B
    BY <1>1, <1>7, WalkIs
  <2> HIDE DEF B
  <2>2. \A i \in 0..n : i \in B
    BY <1>1, <2>1, UpTo
  <2> QED BY <2>2 DEF B
<1>9. l \in [0..n -> Loop]
  BY <1>5, <1>8
<1>10. Walks(l)
  BY <1>6, <1>7, <1>9 DEF Walks, n
<1> QED BY <1>10

\* The drafts for an active grammar are what it takes.
DraftsFit == grammar.on /\ ~think => Taken(grammar, drafts, Len(drafts))

\* The matcher can be rolled back to where the step found it.
Ahead(m) ==
  /\ m.g.on /\ Len(m.g.word) = Len(grammar.word) + m.steps
  /\ SubSeq(m.g.word, 1, Len(grammar.word)) = grammar.word

Ended(i) == \E j \in 1..i : drafts[j] = "END"

After(l, i) ==
  /\ Len(l[i].rows) = i + 1 /\ \A j \in 0..i : l[i].rows[j + 1] = Output!Allowed(l[j].g, l[j].apply)
  /\ Ahead(l[i]) /\ ~l[i].error
  /\ ~l[i].apply => think /\ l[i].g = grammar
  /\ think /\ l[i].apply => l[i].window
  /\ ~think => l[i].g.flag \/ l[i].g.word = grammar.word \o SubSeq(drafts, 1, i)
  /\ l[i].apply <=> ~think \/ Ended(i)
  /\ think /\ i > 0 /\ ~Ended(i - 1) => l[i].g = grammar

LEMMA AfterDraft ==
  ASSUME OutTyped, grammar.on, DraftsFit, NEW l, Walks(l), NEW i \in 1..Len(drafts), After(l, i - 1)
  PROVE  After(l, i)
<1> DEFINE a == l[i - 1]
           b == l[i]
           t == drafts[i]
<1>1. /\ i - 1 \in 0..Len(drafts) /\ i \in Nat /\ (i - 1) + 1 = i /\ t \in Tokens /\ a \in Loop /\ b \in Loop
      /\ Walked(a, b, t)
  <2>1. i - 1 \in 0..Len(drafts) /\ i \in Nat /\ (i - 1) + 1 = i /\ t \in Tokens /\ a \in Loop
    BY DEF OutTyped, Walks
  <2>2. b = Output!Walk(a, t)
    BY DEF Walks
  <2> HIDE DEF a, b, t
  <2> QED BY <2>1, <2>2, WalkIs
<1>2. /\ Len(a.rows) = i /\ \A j \in 0..(i - 1) : a.rows[j + 1] = Output!Allowed(l[j].g, l[j].apply)
      /\ Ahead(a) /\ ~a.error
      /\ ~a.apply => think /\ a.g = grammar
      /\ think /\ a.apply => a.window
      /\ ~think => a.g.flag \/ a.g.word = grammar.word \o SubSeq(drafts, 1, i - 1)
      /\ a.apply <=> ~think \/ Ended(i - 1)
  BY <1>1 DEF After
<1>3. Ended(i) <=> Ended(i - 1) \/ t = "END"
  <2>1. \A j \in 1..i : j = i \/ j \in 1..(i - 1)
    BY <1>1
  <2>2. \A j \in 1..(i - 1) : j \in 1..i
    BY <1>1
  <2>3. i \in 1..i
    BY <1>1
  <2> QED BY <2>1, <2>2, <2>3 DEF Ended
<1>4. Len(b.rows) = i + 1 /\ \A j \in 0..i : b.rows[j + 1] = Output!Allowed(l[j].g, l[j].apply)
  <2> DEFINE y == Output!Allowed(b.g, b.apply)
             r == a.rows
  <2>1. r \in Seq(SUBSET Tokens) /\ Len(r) = i /\ b.rows = Append(r, y) /\ y \in SUBSET Tokens
    BY <1>1, <1>2 DEF Loop, Walked, Output!Allowed
  <2>2. \A j \in 0..(i - 1) : r[j + 1] = Output!Allowed(l[j].g, l[j].apply)
    BY <1>2
  <2>3. y = Output!Allowed(l[i].g, l[i].apply)
    OBVIOUS
  <2> HIDE DEF a, b, y, r
  <2>4. Len(b.rows) = i + 1 /\ b.rows[i + 1] = y /\ \A j \in 0..(i - 1) : b.rows[j + 1] = r[j + 1]
    BY <1>1, <2>1
  <2>5. \A j \in 0..i : j = i \/ j \in 0..(i - 1)
    BY <1>1
  <2> QED BY <2>2, <2>3, <2>4, <2>5
<1>5. a.g \in Grammar /\ Sound(a.g) /\ grammar.word \in Seq(Tokens) /\ a.steps \in Nat
  BY <1>1 DEF Loop, OutTyped, Sound, Grammar
<1>6. ASSUME ~a.g.flag, Output!Takes(a.g.word, t), a.apply
      PROVE  Ahead(b) /\ b.g.word = Append(a.g.word, t)
  <2>1. b.g = Output!Advanced(a.g, t) /\ b.steps = a.steps + 1
    BY <1>1, <1>6 DEF Walked
  <2>2. b.g.word = Append(a.g.word, t) /\ b.g.on = a.g.on
    <3> DEFINE d == a.g
               c == Output!Advanced(d, t)
    <3>1. Sound(d) /\ t \in Tokens
      BY <1>1, <1>5
    <3>2. c.word = Append(d.word, t) /\ c.on = d.on
      <4> HIDE DEF d, t
      <4> QED BY <3>1, AdvancedIs
    <3> QED BY <2>1, <3>2
  <2> DEFINE w == a.g.word
             v == grammar.word
             x == b.g.word
  <2>3. w \in Seq(Tokens) /\ v \in Seq(Tokens) /\ Len(w) = Len(v) + a.steps /\ SubSeq(w, 1, Len(v)) = v
    BY <1>2, <1>5 DEF Ahead, Grammar
  <2>4. x = Append(w, t)
    BY <2>2
  <2>5. b.g.on /\ b.steps = a.steps + 1
    BY <1>2, <2>1, <2>2 DEF Ahead
  <2> HIDE DEF w, v, x, a, b, t
  <2>6. Len(x) = Len(w) + 1 /\ Len(v) \in 0..Len(w) /\ \A j \in 1..Len(v) : x[j] = w[j]
    BY <1>1, <1>5, <2>3, <2>4
  <2>7. SubSeq(x, 1, Len(v)) = SubSeq(w, 1, Len(v))
    BY <1>1, <2>3, <2>4, <2>6
  <2>8. Len(x) = Len(v) + (a.steps + 1)
    BY <1>5, <2>3, <2>6
  <2> QED BY <2>2, <2>3, <2>5, <2>7, <2>8 DEF Ahead, w, v, x
<1>7. CASE ~a.apply
  <2>1. b.g = a.g /\ b.steps = a.steps /\ b.error = a.error /\ b.apply = (t = "END") /\ b.window = (t = "END")
    BY <1>1, <1>7 DEF Walked
  <2>2. Ahead(b) /\ think /\ b.g = grammar /\ ~Ended(i - 1)
    BY <1>2, <1>7, <2>1 DEF Ahead
  <2> HIDE DEF a
  <2> QED BY <1>2, <1>3, <1>4, <2>1, <2>2 DEF After
<1>8. CASE a.apply
  <2>1. /\ b.apply /\ b.window = a.window
        /\ IF ~a.g.flag /\ Output!Takes(a.g.word, t)
           THEN b.g = Output!Advanced(a.g, t) /\ b.steps = a.steps + 1
           ELSE b.g = a.g /\ b.steps = a.steps
        /\ a.window \/ a.g.flag \/ Output!Takes(a.g.word, t) => b.error = a.error
    BY <1>1, <1>8 DEF Walked
  <2>2. Ahead(b)
    BY <1>2, <1>6, <1>8, <2>1 DEF Ahead
  <2>3. ~think => a.g.flag \/ Output!Takes(a.g.word, t)
    BY <1>2 DEF DraftsFit, Taken
  <2>4. ~b.error
    BY <1>2, <1>8, <2>1, <2>3
  <2>5. ~think => b.g.flag \/ b.g.word = grammar.word \o SubSeq(drafts, 1, i)
    <3> SUFFICES ASSUME ~think PROVE b.g.flag \/ b.g.word = grammar.word \o SubSeq(drafts, 1, i)
      OBVIOUS
    <3>1. CASE a.g.flag
      BY <2>1, <3>1
    <3>2. CASE ~a.g.flag
      <4>1. b.g.word = Append(a.g.word, t) /\ a.g.word = grammar.word \o SubSeq(drafts, 1, i - 1)
        BY <1>2, <1>6, <1>8, <2>3, <3>2
      <4>2. drafts \in Seq(Tokens) /\ i - 1 \in 0..(Len(drafts) - 1)
        BY DEF OutTyped
      <4>3. Append(grammar.word \o SubSeq(drafts, 1, i - 1), drafts[(i - 1) + 1])
              = grammar.word \o SubSeq(drafts, 1, (i - 1) + 1)
        BY <1>5, <4>2, Extend
      <4> QED BY <1>1, <4>1, <4>3
    <3> QED BY <3>1, <3>2
  <2>6. ~think \/ Ended(i - 1)
    BY <1>2, <1>8
  <2> HIDE DEF a
  <2> QED BY <1>2, <1>3, <1>4, <1>8, <2>1, <2>2, <2>4, <2>5, <2>6 DEF After
<1> QED BY <1>7, <1>8

LEMMA AfterAll ==
  ASSUME OutTyped, grammar.on, DraftsFit, NEW l, Walks(l)
  PROVE  \A i \in 0..Len(drafts) : After(l, i)
<1> DEFINE n == Len(drafts)
           B == {i \in 0..n : After(l, i)}
<1>1. n \in Nat
  BY DEF OutTyped
<1>2. After(l, 0)
  <2> DEFINE y == Output!Allowed(grammar, ~think)
             w == grammar.word
  <2>1. /\ l[0].g = grammar /\ l[0].apply = ~think /\ l[0].steps = 0 /\ l[0].error = FALSE
        /\ l[0].window = FALSE /\ l[0].rows = <<y>>
    BY DEF Walks, Start
  <2>2. w \in Seq(Tokens) /\ SubSeq(w, 1, Len(w)) = w
    BY DEF OutTyped, Sound, Grammar
  <2>3. SubSeq(drafts, 1, 0) = << >>
    BY DEF OutTyped
  <2>4. w \o SubSeq(drafts, 1, 0) = w
    BY <2>2, <2>3
  <2>5. Len(l[0].rows) = 1 /\ l[0].rows[1] = y
    BY <2>1
  <2>6. \A j \in 0..0 : j = 0
    OBVIOUS
  <2>7. ~Ended(0)
    BY DEF Ended
  <2>8. Ahead(l[0])
    BY <2>1, <2>2 DEF Ahead
  <2>9. \A j \in 0..0 : l[0].rows[j + 1] = Output!Allowed(l[j].g, l[j].apply)
    BY <2>1, <2>5, <2>6
  <2>10. Len(l[0].rows) = 0 + 1
    BY <2>5
  <2>11. l[0].apply <=> ~think
    BY <2>1
  <2>12. ~l[0].error /\ (~l[0].apply => think /\ l[0].g = grammar) /\ ~(think /\ l[0].apply)
    BY <2>1, <2>11
  <2>13. l[0].g.word = grammar.word \o SubSeq(drafts, 1, 0)
    BY <2>1, <2>4
  <2>14. ~(0 > 0)
    OBVIOUS
  <2> QED BY <2>7, <2>8, <2>9, <2>10, <2>11, <2>12, <2>13, <2>14 DEF After
<1>3. 0 \in B /\ \A i \in 1..n : i - 1 \in B => i \in B
  BY <1>1, <1>2, AfterDraft
<1> HIDE DEF B, n
<1>4. \A i \in 0..n : i \in B
  BY <1>1, <1>3, UpTo
<1> QED BY <1>4 DEF B, n

\* The rollback at the end of the loop undoes it.
LEMMA Rolled ==
  ASSUME Sound(grammar), grammar.on, NEW m \in Loop, Ahead(m)
  PROVE  Output!Rollback(m.g, m.steps) = grammar
<1> DEFINE g == m.g
           w == SubSeq(g.word, 1, Len(g.word) - m.steps)
           r == Output!Rollback(g, m.steps)
<1>1. /\ g \in Grammar /\ g.count = Len(g.word) /\ m.steps \in Nat /\ g.word \in Seq(Tokens)
      /\ grammar \in Grammar /\ grammar.word \in Seq(Tokens)
      /\ grammar.flag = Output!Terminated(grammar.word) /\ grammar.count = Len(grammar.word)
  BY DEF Loop, Sound, Grammar
<1>2. g.on = TRUE /\ grammar.on = TRUE /\ Len(g.word) = Len(grammar.word) + m.steps
      /\ SubSeq(g.word, 1, Len(grammar.word)) = grammar.word
  BY <1>1 DEF Ahead, Grammar
<1>3. Len(g.word) - m.steps = Len(grammar.word)
  BY <1>1, <1>2
<1>4. w = grammar.word
  BY <1>2, <1>3
<1>5. r = [g EXCEPT !.word = w, !.count = g.count - m.steps, !.flag = Output!Terminated(w)]
  BY DEF Output!Rollback
<1>6. r = [g EXCEPT !.word = grammar.word, !.count = grammar.count, !.flag = grammar.flag]
  BY <1>1, <1>3, <1>4, <1>5
<1> HIDE DEF g, w, r
<1>7. r = [on |-> g.on, word |-> grammar.word, count |-> grammar.count, flag |-> grammar.flag]
  BY <1>1, <1>6 DEF Grammar
<1>8. grammar = [on |-> grammar.on, word |-> grammar.word, count |-> grammar.count, flag |-> grammar.flag]
  BY <1>1 DEF Grammar
<1> QED BY <1>2, <1>7, <1>8 DEF r, g

\* What the rows let through is accepted.
Fed(l, n, t, ts, c, rest) ==
  /\ n \in 0..Len(drafts) /\ t \in Tokens /\ ts \in Seq(Tokens) /\ Len(ts) = n + 1 /\ ts[n + 1] = t
  /\ \A i \in 1..n : ts[i] = drafts[i]
  /\ \A i \in 1..n : drafts[i] \in l[Len(drafts)].rows[i]
  /\ t \in l[Len(drafts)].rows[n + 1] /\ c \in 0..(n + 1)
  /\ IF think THEN c > 0 /\ ts[c] = "END" /\ \A j \in 1..(c - 1) : ts[j] # "END" ELSE c = 0
  /\ rest \in Seq(Tokens) /\ Len(rest) = n + 1 - c /\ \A j \in 1..(n + 1 - c) : rest[j] = ts[c + j]

LEMMA StepAccepts ==
  ASSUME OutTyped, grammar.on, DraftsFit, NEW l, Walks(l), NEW n, NEW t, NEW ts, NEW c, NEW rest,
         Fed(l, n, t, ts, c, rest)
  PROVE  LET a == Output!AcceptTokens(grammar, rest)
         IN  /\ a.ok /\ Sound(a.g) /\ a.g.on
             /\ \E k \in 0..Len(rest) :
                  a.g.word = grammar.word \o SubSeq(rest, 1, k) /\ (k = Len(rest) \/ a.g.flag)
<1>0. /\ n \in 0..Len(drafts) /\ t \in Tokens /\ ts \in Seq(Tokens) /\ Len(ts) = n + 1 /\ ts[n + 1] = t
      /\ \A i \in 1..n : ts[i] = drafts[i]
      /\ \A i \in 1..n : drafts[i] \in l[Len(drafts)].rows[i]
      /\ t \in l[Len(drafts)].rows[n + 1] /\ c \in 0..(n + 1)
      /\ IF think THEN c > 0 /\ ts[c] = "END" /\ \A j \in 1..(c - 1) : ts[j] # "END" ELSE c = 0
      /\ rest \in Seq(Tokens) /\ Len(rest) = n + 1 - c /\ \A j \in 1..(n + 1 - c) : rest[j] = ts[c + j]
  BY DEF Fed
<1> USE <1>0
<1> DEFINE N == Len(drafts)
           m == n + 1 - c
<1>1. N \in Nat /\ n \in Nat /\ n <= N /\ c \in Nat /\ m \in Nat /\ drafts \in Seq(Tokens)
      /\ Sound(grammar) /\ N \in 0..N
  BY DEF OutTyped
<1>2. PICK f : Accepts(f, grammar, rest)
  BY <1>1, AcceptRun
<1>3. \A i \in 0..N : After(l, i)
  BY AfterAll
<1>4. \A j \in 0..N : l[N].rows[j + 1] = Output!Allowed(l[j].g, l[j].apply)
  BY <1>1, <1>3 DEF After
<1>5. ASSUME NEW j \in 0..N PROVE l[j] \in Loop /\ Sound(l[j].g) /\ l[j].g.on
  <2>1. l[j] \in Loop /\ After(l, j)
    BY <1>3 DEF Walks
  <2> QED BY <2>1 DEF Loop, After, Ahead
<1>6. \A i \in 1..n : i \in 0..N /\ i - 1 \in 0..N /\ (i - 1) + 1 = i
  BY <1>1
<1>7. \A i \in 1..n : Walked(l[i - 1], l[i], ts[i])
  <2> TAKE i \in 1..n
  <2>1. i \in 1..Len(drafts)
    BY <1>1
  <2>2. l[i] = Output!Walk(l[i - 1], ts[i]) /\ ts[i] = drafts[i] /\ drafts[i] \in Tokens
    BY <1>1, <2>1 DEF Walks
  <2>3. l[i - 1] \in Loop
    BY <1>5, <1>6
  <2> QED BY <2>2, <2>3, WalkIs
<1>8. \A i \in c..n : l[i].apply
  <2> TAKE i \in c..n
  <2>1. i \in 0..N /\ think \in BOOLEAN
    BY <1>1 DEF OutTyped
  <2>2. CASE think
    <3>1. c \in 1..i /\ c \in 1..n
      BY <1>1, <2>2
    <3>2. drafts[c] = "END"
      BY <2>2, <3>1
    <3> QED BY <1>3, <2>1, <3>1, <3>2 DEF After, Ended
  <2>3. CASE ~think
    BY <1>3, <2>1, <2>3 DEF After
  <2> QED BY <2>1, <2>2, <2>3
<1>9. c <= n => l[c].g = grammar
  <2> SUFFICES ASSUME c <= n PROVE l[c].g = grammar
    OBVIOUS
  <2>1. think \in BOOLEAN
    BY DEF OutTyped
  <2>2. CASE think
    <3>1. c \in 1..n /\ c \in 0..N /\ c > 0
      BY <1>1, <2>2
    <3>2. \A j \in 1..(c - 1) : j \in 1..n
      BY <1>1, <3>1
    <3>3. ~Ended(c - 1)
      BY <2>2, <3>2 DEF Ended
    <3> QED BY <1>3, <2>2, <3>1, <3>3 DEF After
  <2>3. CASE ~think
    BY <2>3 DEF Walks, Start
  <2> QED BY <2>1, <2>2, <2>3
\* A token that its row lets through, accepted or ignored.
<1>10. ASSUME NEW i \in c..n
       PROVE  l[i].g.flag \/ Output!Takes(l[i].g.word, ts[i + 1])
  <2>1. i \in 0..N /\ ts[i + 1] \in l[N].rows[i + 1]
    <3>1. i \in 0..N /\ (i = n \/ i + 1 \in 1..n)
      BY <1>1
    <3> QED BY <3>1
  <2>2. ts[i + 1] \in Output!Allowed(l[i].g, TRUE)
    <3>1. l[i].apply = TRUE
      <4>1. l[i].apply \in BOOLEAN
        BY <1>5, <2>1 DEF Loop
      <4> QED BY <1>8, <4>1
    <3> QED BY <1>4, <2>1, <3>1
  <2>3. l[i].g.on
    BY <1>5, <2>1
  <2> QED BY <2>2, <2>3 DEF Output!Allowed
<1>11. \A j \in 0..(n - c) : c <= n => f[j] = [g |-> l[c + j].g, ok |-> TRUE]
  <2> SUFFICES ASSUME c <= n PROVE \A j \in 0..(n - c) : f[j] = [g |-> l[c + j].g, ok |-> TRUE]
    OBVIOUS
  <2> DEFINE B == {j \in 0..(n - c) : f[j] = [g |-> l[c + j].g, ok |-> TRUE]}
  <2>1. n - c \in Nat
    BY <1>1
  <2>2. 0 \in B
    <3>1. f[0] = [g |-> grammar, ok |-> TRUE]
      BY <1>2 DEF Accepts
    <3>2. c + 0 = c /\ l[c].g = grammar /\ 0 \in 0..(n - c)
      BY <1>1, <1>9, <2>1
    <3> QED BY <3>1, <3>2
  <2>3. ASSUME NEW j \in 1..(n - c), f[j - 1] = [g |-> l[c + (j - 1)].g, ok |-> TRUE]
        PROVE  f[j] = [g |-> l[c + j].g, ok |-> TRUE]
    <3> DEFINE i == c + (j - 1)
    <3>1. i \in c..n /\ i + 1 = c + j /\ i + 1 \in 1..n /\ (i + 1) - 1 = i /\ j \in 1..Len(rest)
      BY <1>1, <2>1
    <3> DEFINE u == ts[i + 1]
    <3>2. rest[j] = u /\ f[j] = AcceptStep(f[j - 1], rest[j])
      <4>1. rest[j] = ts[c + j]
        BY <1>1, <3>1
      <4> QED BY <1>2, <3>1, <4>1 DEF Accepts
    <3>3. Walked(l[i], l[i + 1], u) /\ l[i].apply
      BY <1>7, <1>8, <3>1
    <3>4. l[i].g.flag \/ Output!Takes(l[i].g.word, u)
      BY <1>10, <3>1
    <3>5. f[j - 1].g = l[i].g /\ f[j - 1].ok
      BY <2>3
    <3> HIDE DEF i, u
    <3>6. l[i + 1].g = IF l[i].g.flag THEN l[i].g ELSE Output!Advanced(l[i].g, u)
      BY <3>3, <3>4 DEF Walked
    <3>7. f[j] = IF f[j - 1].g.flag THEN f[j - 1] ELSE [f[j - 1] EXCEPT !.g = Output!Advanced(f[j - 1].g, u)]
      BY <3>2, <3>4, <3>5 DEF AcceptStep
    <3>8. f[j] = [g |-> l[i + 1].g, ok |-> TRUE]
      BY <2>3, <3>5, <3>6, <3>7 DEF i
    <3> QED BY <3>1, <3>8
  <2>4. \A j \in 1..(n - c) : j - 1 \in B => j \in B
    <3>1. \A j \in 1..(n - c) : j \in 0..(n - c)
      BY <2>1
    <3> QED BY <2>3, <3>1
  <2> HIDE DEF B
  <2>5. \A j \in 0..(n - c) : j \in B
    BY <2>1, <2>2, <2>4, UpTo
  <2> QED BY <2>5 DEF B
<1>12. f[m].ok
  <2>1. CASE c = n + 1
    <3>1. m = 0
      BY <1>1, <2>1
    <3> QED BY <1>2, <3>1 DEF Accepts
  <2>2. CASE c <= n
    <3>1. m \in 1..Len(rest) /\ m - 1 = n - c /\ n - c \in 0..(n - c) /\ c + (n - c) = n /\ n \in c..n
          /\ c + m = n + 1
      BY <1>1, <2>2
    <3>2. f[m] = AcceptStep(f[m - 1], rest[m]) /\ rest[m] = ts[n + 1]
      BY <1>1, <1>2, <3>1 DEF Accepts
    <3>3. f[m - 1] = [g |-> l[n].g, ok |-> TRUE]
      BY <1>11, <2>2, <3>1
    <3>4. l[n].g.flag \/ Output!Takes(l[n].g.word, ts[n + 1])
      BY <1>10, <3>1
    <3> HIDE DEF m
    <3> QED BY <3>2, <3>3, <3>4 DEF AcceptStep
  <2> QED BY <1>1, <2>1, <2>2
<1>13. Output!AcceptTokens(grammar, rest) = f[m] /\ f[m] \in Outcome /\ Reached(f[m], grammar, rest, m) /\ m = Len(rest)
  <2>1. m = Len(rest) /\ m \in 0..Len(rest)
    BY <1>1
  <2> HIDE DEF m
  <2>2. \A i \in 0..Len(rest) : Reached(f[i], grammar, rest, i)
    BY <1>1, <1>2, AcceptIs
  <2> QED BY <1>2, <2>1, <2>2 DEF Accepts
<1> HIDE DEF m
<1> QED BY <1>12, <1>13 DEF Reached, Outcome

LEMMA AcceptDone ==
  ASSUME NEW g, Sound(g), g.flag, NEW ts \in Seq(Tokens)
  PROVE  Output!AcceptTokens(g, ts) = [g |-> g, ok |-> TRUE]
<1> DEFINE n == Len(ts)
           r == [g |-> g, ok |-> TRUE]
<1>1. PICK f : Accepts(f, g, ts)
  BY AcceptRun
<1> DEFINE B == {i \in 0..n : f[i] = r}
<1>2. n \in Nat
  OBVIOUS
<1>3. 0 \in B
  BY <1>1, <1>2 DEF Accepts
<1>4. ASSUME NEW i \in 1..n, f[i - 1] = r PROVE f[i] = r
  <2>1. f[i] = AcceptStep(f[i - 1], ts[i])
    BY <1>1 DEF Accepts
  <2>2. r.ok /\ r.g = g
    OBVIOUS
  <2> HIDE DEF r
  <2> QED BY <1>4, <2>1, <2>2 DEF AcceptStep
<1>5. \A i \in 1..n : i - 1 \in B => i \in B
  <2> HIDE DEF r, n
  <2>1. \A i \in 1..n : i \in 0..n
    BY <1>2
  <2> QED BY <1>4, <2>1
<1> HIDE DEF B, n, r
<1>6. \A i \in 0..n : i \in B
  BY <1>2, <1>3, <1>5, UpTo
<1>7. f[n] = r
  BY <1>2, <1>6 DEF B
<1> QED BY <1>1, <1>7 DEF Accepts, n, r

----------------------------------------------------------------------------
(* The invariant of the matcher                                            *)

\* The word is where the constrained output stands, or where it was complete.
Follows ==
  grammar.on /\ ~think =>
    \E k \in 0..(Len(out) - from) :
      /\ grammar.word = SubSeq(out, from + 1, from + k)
      /\ from + k = Len(out) \/ grammar.flag

Idle == think \/ ~grammar.on => grammar.word = << >>

OutInv == OutTyped /\ failed = FALSE /\ DraftsFit /\ Follows /\ Idle

\* A step of n drafts and one more token, cut behind the end of the reasoning.
Taking(n, t) == Append(SubSeq(drafts, 1, n), t)
Marks(ts) == {i \in DOMAIN ts : ts[i] = "END"}
Ends(ts) == think /\ Marks(ts) # {}
Cut(ts) == IF Ends(ts) THEN CHOOSE i \in Marks(ts) : \A j \in Marks(ts) : i <= j ELSE 0
Rest(ts) == SubSeq(ts, Cut(ts) + 1, Len(ts))
Back == Output!Rollback(Output!Bitmask.g, Output!Bitmask.steps)

Stepped(n, ts) ==
  /\ \A i \in 1..n : drafts[i] \in Output!Bitmask.rows[i]
  /\ ts[n + 1] \in Output!Bitmask.rows[n + 1]
  /\ out' = out \o ts
  /\ from' = IF Ends(ts) THEN Len(out) + Cut(ts) ELSE from
  /\ think' = (think /\ ~Ends(ts))
  /\ grammar' = IF ~grammar.on \/ (think /\ ~Ends(ts)) THEN Back ELSE Output!AcceptTokens(Back, Rest(ts)).g
  /\ failed' = (failed \/ Output!Bitmask.error \/
                 (grammar.on /\ ~(think /\ ~Ends(ts)) /\ ~Output!AcceptTokens(Back, Rest(ts)).ok))
  /\ drafts' = << >>

\* The tokens of a step.
Batch(n, ts) ==
  /\ ts \in Seq(Tokens) /\ Len(ts) = n + 1 /\ \A i \in 1..n : ts[i] = drafts[i]

LEMMA StepIs ==
  ASSUME OutTyped, Output!Step
  PROVE  \E n \in 0..Len(drafts) : \E ts : Batch(n, ts) /\ Stepped(n, ts) /\ detok' = Output!Deliver(detok, ts)
<1>1. PICK n \in 0..Len(drafts), t \in Tokens :
        LET b == Output!Bitmask
            ts == Append(SubSeq(drafts, 1, n), t)
            marks == {i \in DOMAIN ts : ts[i] = "END"}
            ends == think /\ marks # {}
            cut == IF ends THEN CHOOSE i \in marks : \A j \in marks : i <= j ELSE 0
            a == Output!AcceptTokens(Output!Rollback(b.g, b.steps), SubSeq(ts, cut + 1, Len(ts)))
            open == think /\ ~ends
        IN  /\ \A i \in 1..n : drafts[i] \in b.rows[i]
            /\ t \in b.rows[n + 1]
            /\ out' = out \o ts
            /\ from' = IF ends THEN Len(out) + cut ELSE from
            /\ think' = open
            /\ grammar' = IF ~grammar.on \/ open THEN Output!Rollback(b.g, b.steps) ELSE a.g
            /\ failed' = (failed \/ b.error \/ (grammar.on /\ ~open /\ ~a.ok))
            /\ detok' = Output!Deliver(detok, ts)
  BY Zenon DEF Output!Step
<1>2. LET ts == Taking(n, t)
      IN  /\ \A i \in 1..n : drafts[i] \in Output!Bitmask.rows[i]
          /\ t \in Output!Bitmask.rows[n + 1]
          /\ out' = out \o ts
          /\ from' = IF Ends(ts) THEN Len(out) + Cut(ts) ELSE from
          /\ think' = (think /\ ~Ends(ts))
          /\ grammar' = IF ~grammar.on \/ (think /\ ~Ends(ts)) THEN Back ELSE Output!AcceptTokens(Back, Rest(ts)).g
          /\ failed' = (failed \/ Output!Bitmask.error \/
                          (grammar.on /\ ~(think /\ ~Ends(ts)) /\ ~Output!AcceptTokens(Back, Rest(ts)).ok))
  BY <1>1, Zenon DEF Taking, Marks, Ends, Cut, Rest, Back
<1> DEFINE ts == Taking(n, t)
<1>3. ts \in Seq(Tokens) /\ Len(ts) = n + 1 /\ ts[n + 1] = t /\ \A i \in 1..n : ts[i] = drafts[i]
  BY DEF Taking, OutTyped
<1>4. drafts' = << >>
  BY Zenon DEF Output!Step
<1> HIDE DEF ts
<1>5. Batch(n, ts)
  BY <1>3 DEF Batch
<1>6. Stepped(n, ts)
  BY <1>2, <1>3, <1>4 DEF Stepped, ts
<1>7. detok' = Output!Deliver(detok, ts)
  BY <1>1, Zenon DEF ts, Taking
<1> QED BY <1>5, <1>6, <1>7

\* The first end of the reasoning in a step.
LEMMA CutIs ==
  ASSUME think \in BOOLEAN, NEW n \in Nat, NEW ts, Batch(n, ts)
  PROVE  /\ Cut(ts) \in 0..(n + 1)
         /\ Ends(ts) => /\ Cut(ts) > 0 /\ ts[Cut(ts)] = "END"
                        /\ \A j \in 1..(Cut(ts) - 1) : ts[j] # "END"
         /\ ~Ends(ts) => Cut(ts) = 0
         /\ Rest(ts) \in Seq(Tokens) /\ Len(Rest(ts)) = n + 1 - Cut(ts)
         /\ \A j \in 1..(n + 1 - Cut(ts)) : Rest(ts)[j] = ts[Cut(ts) + j]
<1> DEFINE M == Marks(ts)
           c == Cut(ts)
<1>1. ts \in Seq(Tokens) /\ Len(ts) = n + 1 /\ DOMAIN ts = 1..(n + 1)
  BY DEF Batch
<1>2. M \in SUBSET (1..(n + 1)) /\ M \in SUBSET Nat /\ \A j \in 1..(n + 1) : j \in M <=> ts[j] = "END"
  BY <1>1 DEF Marks
<1>3. Ends(ts) => c \in M /\ \A j \in M : c <= j
  <2>1. Ends(ts) => M # {} /\ c = Min(M)
    BY DEF Ends, Cut, Min
  <2> HIDE DEF M, c
  <2> QED BY <1>2, <2>1, MinOfNaturals
<1>4. ~Ends(ts) => c = 0
  BY DEF Cut
<1>5. c \in 0..(n + 1) /\ (Ends(ts) => c > 0 /\ ts[c] = "END" /\ \A j \in 1..(c - 1) : ts[j] # "END")
  <2> HIDE DEF M, c
  <2>1. CASE Ends(ts)
    <3>1. c \in 1..(n + 1) /\ ts[c] = "END"
      BY <1>2, <1>3, <2>1
    <3>2. \A j \in 1..(c - 1) : j \in 1..(n + 1) /\ ~(c <= j)
      BY <3>1
    <3> QED BY <1>2, <1>3, <2>1, <3>1, <3>2
  <2>2. CASE ~Ends(ts)
    BY <1>4, <2>2
  <2> QED BY <2>1, <2>2
<1>6. Rest(ts) = SubSeq(ts, c + 1, n + 1)
  BY <1>1 DEF Rest
<1> HIDE DEF M, c
<1>7. Rest(ts) \in Seq(Tokens) /\ Len(Rest(ts)) = n + 1 - c /\ \A j \in 1..(n + 1 - c) : Rest(ts)[j] = ts[c + j]
  BY <1>1, <1>5, <1>6
<1> QED BY <1>4, <1>5, <1>7 DEF c

----------------------------------------------------------------------------
(* A step of the request                                                   *)

\* The request has no grammar: nothing moves it and nothing fails.
LEMMA StepOff ==
  ASSUME OutInv, ~grammar.on, NEW n \in 0..Len(drafts), NEW ts, Batch(n, ts), Stepped(n, ts)
  PROVE  grammar' = grammar /\ failed' = FALSE
<1> DEFINE b == Output!Bitmask
<1>1. b.g = grammar /\ b.steps = 0 /\ b.error = FALSE
  BY DEF Output!Bitmask
<1> HIDE DEF b
<1>2. grammar \in Grammar /\ grammar.count = Len(grammar.word) /\ grammar.flag = Output!Terminated(grammar.word)
  BY DEF OutInv, OutTyped, Sound
<1>3. grammar' = Output!Rollback(grammar, 0)
  BY <1>1 DEF Stepped, Back, b
<1>4. SubSeq(grammar.word, 1, Len(grammar.word) - 0) = grammar.word /\ grammar.count - 0 = grammar.count
  BY <1>2 DEF Grammar
<1>5. grammar' = [grammar EXCEPT !.word = grammar.word, !.count = grammar.count, !.flag = grammar.flag]
  BY <1>2, <1>3, <1>4 DEF Output!Rollback
<1>6. grammar' = grammar
  BY <1>2, <1>5 DEF Grammar
<1>7. failed' = FALSE
  BY <1>1 DEF Stepped, OutInv, b
<1> QED BY <1>6, <1>7

\* The loop leaves the matcher where it was, and raises no error.
LEMMA StepBack ==
  ASSUME OutInv, grammar.on
  PROVE  Back = grammar /\ Output!Bitmask.error = FALSE
<1>1. PICK l : Walks(l)
  BY WalkRun DEF OutInv
<1> DEFINE m == l[Len(drafts)]
<1>2. Len(drafts) \in 0..Len(drafts)
  BY DEF OutInv, OutTyped
<1>3. Output!Bitmask = m /\ m \in Loop
  BY <1>1, <1>2 DEF Walks
<1>4. After(l, Len(drafts))
  BY <1>1, <1>2, AfterAll DEF OutInv
<1>5. Ahead(m) /\ ~m.error
  BY <1>4 DEF After
<1> HIDE DEF m
<1>6. m.error \in BOOLEAN
  BY <1>3 DEF Loop
<1>7. Sound(grammar)
  BY DEF OutInv, OutTyped
<1>8. Output!Rollback(m.g, m.steps) = grammar
  BY <1>3, <1>5, <1>7, Rolled
<1> QED BY <1>3, <1>5, <1>6, <1>8 DEF Back

\* The reasoning goes on.
LEMMA StepOpen ==
  ASSUME OutInv, grammar.on, NEW n \in 0..Len(drafts), NEW ts, Batch(n, ts), Stepped(n, ts),
         think, ~Ends(ts)
  PROVE  grammar' = grammar /\ failed' = FALSE
<1>1. Back = grammar /\ Output!Bitmask.error = FALSE
  BY StepBack
<1> QED BY <1>1 DEF Stepped, OutInv

\* What the step gives to the matcher, and what the matcher makes of it.
LEMMA StepTakes ==
  ASSUME OutInv, grammar.on, NEW n \in 0..Len(drafts), NEW ts, Batch(n, ts), Stepped(n, ts),
         ~(think /\ ~Ends(ts))
  PROVE  /\ failed' = FALSE /\ Sound(grammar') /\ grammar'.on
         /\ grammar.flag => grammar' = grammar
         /\ \E k \in 0..Len(Rest(ts)) :
              grammar'.word = grammar.word \o SubSeq(Rest(ts), 1, k) /\ (k = Len(Rest(ts)) \/ grammar'.flag)
<1> DEFINE rest == Rest(ts)
           c == Cut(ts)
           a == Output!AcceptTokens(grammar, rest)
           t == ts[n + 1]
<1>1. n \in Nat /\ ts \in Seq(Tokens) /\ Len(ts) = n + 1 /\ t \in Tokens /\ \A i \in 1..n : ts[i] = drafts[i]
  BY DEF Batch, OutInv, OutTyped
<1>2. /\ c \in 0..(n + 1)
      /\ Ends(ts) => c > 0 /\ ts[c] = "END" /\ \A j \in 1..(c - 1) : ts[j] # "END"
      /\ ~Ends(ts) => c = 0
      /\ rest \in Seq(Tokens) /\ Len(rest) = n + 1 - c /\ \A j \in 1..(n + 1 - c) : rest[j] = ts[c + j]
  BY <1>1, CutIs DEF OutInv, OutTyped
<1>3. PICK l : Walks(l)
  BY WalkRun DEF OutInv
<1>4. Output!Bitmask = l[Len(drafts)]
  BY <1>3 DEF Walks
<1>5. /\ \A i \in 1..n : drafts[i] \in l[Len(drafts)].rows[i]
      /\ t \in l[Len(drafts)].rows[n + 1]
  BY <1>4 DEF Stepped
<1>6. Ends(ts) <=> think
  BY DEF Ends
<1>7. IF think THEN c > 0 /\ ts[c] = "END" /\ \A j \in 1..(c - 1) : ts[j] # "END" ELSE c = 0
  BY <1>2, <1>6
<1>8. OutTyped /\ DraftsFit /\ Sound(grammar)
  BY DEF OutInv, OutTyped
<1>9. Back = grammar /\ Output!Bitmask.error = FALSE
  BY StepBack
<1>10. grammar' = a.g /\ failed' = (failed \/ Output!Bitmask.error \/ ~a.ok)
  BY <1>6, <1>9 DEF Stepped
<1> HIDE DEF rest, c, t
<1>11. /\ a.ok /\ Sound(a.g) /\ a.g.on
       /\ \E k \in 0..Len(rest) :
            a.g.word = grammar.word \o SubSeq(rest, 1, k) /\ (k = Len(rest) \/ a.g.flag)
  <2>1. Fed(l, n, t, ts, c, rest)
    BY <1>1, <1>2, <1>5, <1>7 DEF Fed, t
  <2> QED BY <1>3, <1>8, <2>1, StepAccepts
<1>12. grammar.flag => a.g = grammar
  BY <1>2, <1>8, AcceptDone
<1> HIDE DEF a
<1>13. failed' = FALSE
  BY <1>9, <1>10, <1>11 DEF OutInv
<1> QED BY <1>10, <1>11, <1>12, <1>13 DEF rest

----------------------------------------------------------------------------
(* The invariant holds                                                     *)

LEMMA FollowsOn ==
  ASSUME OutInv, grammar.on, NEW n \in 0..Len(drafts), NEW ts, Batch(n, ts), Stepped(n, ts),
         ~(think /\ ~Ends(ts))
  PROVE  Follows'
<1> DEFINE c == Cut(ts)
           r == Rest(ts)
           w == grammar.word
<1>1. n \in Nat /\ ts \in Seq(Tokens) /\ Len(ts) = n + 1 /\ think \in BOOLEAN
      /\ out \in Seq(Tokens) /\ Len(out) \in Nat /\ from \in 0..Len(out)
  BY DEF Batch, OutInv, OutTyped
<1>2. /\ c \in 0..(n + 1) /\ (~Ends(ts) => c = 0)
      /\ r \in Seq(Tokens) /\ Len(r) = n + 1 - c /\ \A j \in 1..(n + 1 - c) : r[j] = ts[c + j]
  BY <1>1, CutIs
<1>3. PICK k \in 0..Len(r) :
        grammar'.word = w \o SubSeq(r, 1, k) /\ (k = Len(r) \/ grammar'.flag)
  BY StepTakes
<1>4. grammar.flag => grammar' = grammar
  BY StepTakes
<1>5. w \in Seq(Tokens)
  BY DEF OutInv, OutTyped, Sound, Grammar
<1>6. out' = out \o ts /\ Len(out') = Len(out) + (n + 1)
  <2> DEFINE x == out \o ts
  <2>1. x \in Seq(Tokens) /\ Len(x) = Len(out) + Len(ts)
    BY <1>1, ConcatProperties
  <2>2. out' = x
    BY DEF Stepped
  <2> HIDE DEF x
  <2>3. Len(out') = Len(out) + (n + 1)
    BY <1>1, <2>1, <2>2
  <2> QED BY <2>2, <2>3 DEF x
<1>7. CASE Ends(ts)
  <2>1. from' = Len(out) + c /\ w = << >>
    BY <1>7 DEF Stepped, OutInv, Idle, Ends
  <2> HIDE DEF c, r
  <2>a. Len(r) = Len(ts) - c /\ c \in 0..Len(ts)
    BY <1>1, <1>2
  <2>2. k \in 0..(Len(ts) - c) /\ c \in 0..Len(ts) /\ Len(r) = Len(ts) - c
        /\ \A j \in 1..Len(r) : r[j] = ts[c + j]
    <3>1. \A j \in 1..Len(r) : r[j] = ts[c + j]
      BY <1>2
    <3> QED BY <2>a, <3>1
  <2>3. SubSeq(out \o ts, Len(out) + c + 1, Len(out) + c + k) = SubSeq(r, 1, k)
    BY <1>1, <1>2, <2>2, PartAdded
  <2>4. grammar'.word = SubSeq(r, 1, k)
    <3>1. SubSeq(r, 1, k) \in Seq(Tokens)
      BY <1>2
    <3> QED BY <1>3, <2>1, <3>1, ConcatEmptySeq
  <2>5. grammar'.word = SubSeq(out', from' + 1, from' + k)
    BY <1>6, <2>1, <2>3, <2>4
  <2>6. k \in 0..(Len(out') - from') /\ (from' + k = Len(out') <=> k = Len(r))
    <3> DEFINE x == Len(out)
               y == Len(out')
               z == Len(r)
    <3>1. /\ x \in Nat /\ y = x + (n + 1) /\ from' = x + c /\ z = n + 1 - c /\ n \in Nat /\ c \in 0..(n + 1)
          /\ k \in 0..z
      BY <1>1, <1>2, <1>6, <2>1
    <3> HIDE DEF x, y, z
    <3>2. k \in 0..(y - from') /\ (from' + k = y <=> k = z)
      BY <3>1
    <3> QED BY <3>2 DEF x, y, z
  <2> QED BY <1>3, <2>5, <2>6 DEF Follows
<1>8. CASE ~Ends(ts)
  <2>1. from' = from /\ ~think
    BY <1>8 DEF Stepped
  <2>2. PICK k0 \in 0..(Len(out) - from) :
          w = SubSeq(out, from + 1, from + k0) /\ (from + k0 = Len(out) \/ grammar.flag)
    BY <2>1 DEF OutInv, Follows
  <2>3. CASE grammar.flag
    <3>1. from \in Nat /\ from + k0 \in Nat /\ from <= from + k0 /\ from + k0 <= Len(out)
          /\ k0 \in 0..(Len(out') - from)
      BY <1>1, <1>6, <2>2
    <3>2. SubSeq(out \o ts, from + 1, from + k0) = SubSeq(out, from + 1, from + k0)
      BY <1>1, <3>1, PartKept
    <3>3. grammar' = grammar
      BY <1>4, <2>3
    <3> QED BY <1>6, <2>1, <2>2, <2>3, <3>1, <3>2, <3>3 DEF Follows
  <2>4. CASE ~grammar.flag
    <3>1. from + k0 = Len(out) /\ w = SubSeq(out, from + 1, Len(out))
      BY <2>2, <2>4
    <3>2. c = 0
      BY <1>2, <1>8
    <3>3. r = ts
      <4> HIDE DEF c, r
      <4>1. Len(r) = Len(ts) /\ \A j \in 1..Len(r) : r[j] = ts[j]
        BY <1>1, <1>2, <3>2
      <4> QED BY <1>1, <1>2, <4>1, SameSeq
    <3> HIDE DEF c, r
    <3>4. k \in 0..Len(ts) /\ Len(r) = n + 1
      BY <1>1, <3>3
    <3>5. grammar'.word = SubSeq(out, from + 1, Len(out)) \o SubSeq(ts, 1, k)
      BY <1>3, <3>1, <3>3
    <3>6. grammar'.word = SubSeq(out \o ts, from + 1, Len(out) + k)
      BY <1>1, <3>4, <3>5, PartGrows
    <3> DEFINE q == k0 + k
    <3>7. q \in 0..(Len(out') - from) /\ from + q = Len(out) + k /\ (k = Len(r) => from + q = Len(out'))
      <4> DEFINE x == Len(out)
                 y == Len(out')
                 z == Len(r)
      <4>1. /\ x \in Nat /\ y = x + (n + 1) /\ from \in 0..x /\ z = n + 1 /\ n \in Nat
            /\ k \in 0..z /\ k0 \in 0..(x - from) /\ from + k0 = x
        BY <1>1, <1>6, <2>2, <3>1, <3>4
      <4> HIDE DEF x, y, z
      <4>2. q \in 0..(y - from) /\ from + q = x + k /\ (k = z => from + q = y)
        BY <4>1
      <4> QED BY <4>2 DEF x, y, z
    <3> HIDE DEF q
    <3>8. grammar'.word = SubSeq(out', from' + 1, from' + q)
      BY <1>6, <2>1, <3>6, <3>7
    <3>9. from' + q = Len(out') \/ grammar'.flag
      BY <1>3, <2>1, <3>7
    <3> QED BY <2>1, <3>7, <3>8, <3>9 DEF Follows
  <2> QED BY <2>3, <2>4
<1> QED BY <1>7, <1>8

LEMMA OutStep ==
  ASSUME OutInv, Output!Step
  PROVE  OutInv'
<1>1. PICK n \in 0..Len(drafts) : \E ts : Batch(n, ts) /\ Stepped(n, ts)
  BY StepIs DEF OutInv
<1>2. PICK ts : Batch(n, ts) /\ Stepped(n, ts)
  BY <1>1
<1>3. n \in Nat /\ ts \in Seq(Tokens) /\ Len(ts) = n + 1 /\ think \in BOOLEAN
      /\ out \in Seq(Tokens) /\ Len(out) \in Nat /\ from \in 0..Len(out) /\ grammar \in Grammar /\ Sound(grammar)
  BY <1>2 DEF Batch, OutInv, OutTyped, Sound
<1>4. Cut(ts) \in 0..(n + 1)
  BY <1>2, <1>3, CutIs
<1>5. /\ drafts' = << >> /\ think' = (think /\ ~Ends(ts)) /\ out' = out \o ts
      /\ from' = IF Ends(ts) THEN Len(out) + Cut(ts) ELSE from
  BY <1>2 DEF Stepped
<1>6. /\ think' \in BOOLEAN /\ drafts' \in Seq(Tokens) /\ out' \in Seq(Tokens)
      /\ from' \in 0..Len(out') /\ Len(drafts') = 0
  <2>1. out' \in Seq(Tokens) /\ Len(out') = Len(out) + (n + 1)
    <3> DEFINE x == out \o ts
    <3>1. x \in Seq(Tokens) /\ Len(x) = Len(out) + Len(ts)
      BY <1>3, ConcatProperties
    <3> HIDE DEF x
    <3>2. out' = x
      BY <1>5 DEF x
    <3> QED BY <1>3, <3>1, <3>2
  <2>2. from' \in 0..Len(out')
    BY <1>3, <1>4, <1>5, <2>1
  <2>3. drafts' \in Seq(Tokens) /\ Len(drafts') = 0
    BY <1>5, EmptySeq
  <2>4. think' \in BOOLEAN
    BY <1>5
  <2> QED BY <2>1, <2>2, <2>3, <2>4
<1>7. DraftsFit'
  <2>1. \A i \in 1..0 : FALSE
    OBVIOUS
  <2> QED BY <1>6, <2>1 DEF DraftsFit, Taken
<1>8. Idle <=> (think \/ ~grammar.on => grammar.word = << >>)
  BY DEF Idle
<1>9. Idle' <=> (think' \/ ~grammar'.on => grammar'.word = << >>)
  BY DEF Idle
<1>10. CASE ~grammar.on
  <2>1. grammar' = grammar /\ failed' = FALSE
    BY <1>2, <1>10, StepOff
  <2>2. Sound(grammar)'
    BY <1>3, <2>1 DEF Sound, Grammar, Output!Terminated
  <2>3. Follows'
    BY <1>10, <2>1 DEF Follows
  <2>4. Idle'
    BY <1>8, <1>9, <1>10, <2>1 DEF OutInv
  <2> QED BY <1>6, <1>7, <2>1, <2>2, <2>3, <2>4 DEF OutInv, OutTyped
<1>11. CASE grammar.on /\ think /\ ~Ends(ts)
  <2>1. grammar' = grammar /\ failed' = FALSE
    BY <1>2, <1>11, StepOpen
  <2>2. Sound(grammar)'
    BY <1>3, <2>1 DEF Sound, Grammar, Output!Terminated
  <2>3. Follows'
    BY <1>5, <1>11 DEF Follows
  <2>4. Idle'
    BY <1>8, <1>9, <1>11, <2>1 DEF OutInv
  <2> QED BY <1>6, <1>7, <2>1, <2>2, <2>3, <2>4 DEF OutInv, OutTyped
<1>12. CASE grammar.on /\ ~(think /\ ~Ends(ts))
  <2>1. failed' = FALSE /\ Sound(grammar') /\ grammar'.on
    BY <1>2, <1>12, StepTakes
  <2>2. Sound(grammar)'
    BY <2>1 DEF Sound, Grammar, Output!Terminated
  <2>3. Follows'
    BY <1>2, <1>12, FollowsOn
  <2>4. Idle'
    BY <1>5, <1>9, <1>12, <2>1
  <2> QED BY <1>6, <1>7, <2>1, <2>2, <2>3, <2>4 DEF OutInv, OutTyped
<1> QED BY <1>10, <1>11, <1>12

LEMMA OutDraft ==
  ASSUME OutInv, Output!Draft
  PROVE  OutInv'
<1>1. UNCHANGED <<grammar, think, out, from, failed>>
  BY DEF Output!Draft
<1>2. PICK ts \in Seq(Tokens) :
        drafts' = IF grammar.on /\ ~think THEN Output!ValidateTokens(grammar, ts) ELSE ts
  <2>1. PICK ts \in Output!SeqOf(Tokens, MaxDraft) :
          drafts' = IF grammar.on /\ ~think THEN Output!ValidateTokens(grammar, ts) ELSE ts
    BY DEF Output!Draft
  <2>2. ts \in Seq(Tokens)
    <3>1. PICK m \in 0..MaxDraft : ts \in [1..m -> Tokens]
      BY DEF Output!SeqOf
    <3>2. m \in Nat
      BY <3>1
    <3> QED BY <3>1, <3>2
  <2> QED BY <2>1, <2>2
<1>3. grammar.flag \in BOOLEAN
  BY DEF OutInv, OutTyped, Sound, Grammar
<1>4. drafts' \in Seq(Tokens) /\ (grammar.on /\ ~think => Taken(grammar, drafts', Len(drafts')))
  <2>1. CASE ~(grammar.on /\ ~think)
    BY <1>2, <2>1
  <2>2. CASE grammar.on /\ ~think /\ grammar.flag
    <3>1. drafts' = << >>
      BY <1>2, <2>2 DEF Output!ValidateTokens
    <3>2. Len(drafts') = 0 /\ drafts' \in Seq(Tokens) /\ \A i \in 1..0 : FALSE
      BY <3>1
    <3> QED BY <3>2 DEF Taken
  <2>3. CASE grammar.on /\ ~think /\ ~grammar.flag
    <3>1. PICK n \in 0..Len(ts) :
            Output!ValidateTokens(grammar, ts) = SubSeq(ts, 1, n) /\ Taken(grammar, ts, n)
      BY <2>3, ValidateIs
    <3>2. drafts' = SubSeq(ts, 1, n)
      BY <1>2, <2>3, <3>1
    <3>3. drafts' \in Seq(Tokens) /\ Len(drafts') = n /\ \A i \in 1..n : drafts'[i] = ts[i]
      BY <3>2
    <3>4. \A i \in 1..n : SubSeq(drafts', 1, i - 1) = SubSeq(ts, 1, i - 1)
      <4> TAKE i \in 1..n
      <4> DEFINE x == SubSeq(drafts', 1, i - 1)
                 y == SubSeq(ts, 1, i - 1)
      <4>1. x \in Seq(Tokens) /\ y \in Seq(Tokens) /\ Len(x) = i - 1 /\ Len(y) = i - 1
            /\ \A j \in 1..(i - 1) : x[j] = drafts'[j] /\ y[j] = ts[j] /\ j \in 1..n
        BY <3>3
      <4> HIDE DEF x, y
      <4>2. x = y
        BY <3>3, <4>1, SameSeq
      <4> QED BY <4>2 DEF x, y
    <3>5. Taken(grammar, drafts', n)
      BY <3>1, <3>3, <3>4 DEF Taken
    <3> QED BY <3>3, <3>5
  <2> QED BY <2>1, <2>2, <2>3
<1>5. DraftsFit'
  <2>1. Taken(grammar, drafts', Len(drafts')) => Taken(grammar, drafts, Len(drafts))'
    BY <1>1 DEF Taken, Output!Takes, Output!IsPrefix
  <2> QED BY <1>1, <1>4, <2>1 DEF DraftsFit
<1>6. OutTyped'
  BY <1>1, <1>4 DEF OutInv, OutTyped, Sound, Grammar, Output!Terminated
<1>7. Follows' /\ Idle' /\ failed' = FALSE
  BY <1>1 DEF OutInv, Follows, Idle
<1> QED BY <1>5, <1>6, <1>7 DEF OutInv

LEMMA OutReset ==
  ASSUME OutInv, Output!Reset
  PROVE  OutInv'
<1>1. /\ grammar.flag /\ UNCHANGED <<think, failed>> /\ out' = << >> /\ from' = 0 /\ drafts' = << >>
      /\ grammar' = [grammar EXCEPT !.word = << >>, !.count = 0, !.flag = FALSE]
  BY DEF Output!Reset
<1>2. grammar \in Grammar /\ Sound(grammar)
  BY DEF OutInv, OutTyped, Sound
<1>3. grammar' \in Grammar /\ grammar'.word = << >> /\ grammar'.count = 0 /\ grammar'.flag = FALSE
      /\ grammar'.on = grammar.on
  <2>1. << >> \in Seq(Tokens)
    BY EmptySeq
  <2> DEFINE e == << >>
  <2>2. grammar' = [grammar EXCEPT !.word = e, !.count = 0, !.flag = FALSE] /\ e \in Seq(Tokens)
    BY <1>1, <2>1
  <2> HIDE DEF e
  <2>3. grammar' \in Grammar /\ grammar'.word = e /\ grammar'.count = 0 /\ grammar'.flag = FALSE
        /\ grammar'.on = grammar.on
    BY <1>2, <2>2 DEF Grammar
  <2> QED BY <2>3 DEF e
<1>4. Output!Terminated(<< >>) = FALSE
  BY OutputAssumption DEF Output!Terminated
<1>5. Sound(grammar)'
  <2>1. Len(<< >>) = 0
    OBVIOUS
  <2> QED BY <1>3, <1>4, <2>1 DEF Sound, Grammar, Output!Terminated
<1>6. OutTyped'
  <2>1. drafts' \in Seq(Tokens) /\ out' \in Seq(Tokens) /\ from' \in 0..Len(out')
    BY <1>1
  <2>2. think' \in BOOLEAN
    BY <1>1 DEF OutInv, OutTyped
  <2> QED BY <1>5, <2>1, <2>2 DEF OutTyped
<1>7. DraftsFit'
  <2>1. Len(drafts') = 0 /\ \A i \in 1..0 : FALSE
    BY <1>1
  <2> QED BY <2>1 DEF DraftsFit, Taken
<1>8. Follows'
  <2>1. 0 \in 0..(Len(out') - from') /\ SubSeq(out', from' + 1, from' + 0) = << >> /\ from' + 0 = Len(out')
    BY <1>1
  <2> QED BY <1>3, <2>1 DEF Follows
<1>9. Idle' /\ failed' = FALSE
  BY <1>1, <1>3 DEF OutInv, Idle
<1> QED BY <1>6, <1>7, <1>8, <1>9 DEF OutInv

LEMMA OutStarts ==
  ASSUME Output!Init
  PROVE  OutInv
<1>1. /\ think \in BOOLEAN /\ drafts = << >> /\ out = << >> /\ from = 0 /\ failed = FALSE
      /\ grammar \in [on : BOOLEAN, word : {<< >>}, count : {0}, flag : {FALSE}]
  BY DEF Output!Init
<1>2. grammar.word = << >> /\ grammar.count = 0 /\ grammar.flag = FALSE /\ grammar \in Grammar
  <2> DEFINE e == << >>
  <2>1. e \in Seq(Tokens) /\ grammar \in [on : BOOLEAN, word : {e}, count : {0}, flag : {FALSE}]
    BY <1>1, EmptySeq
  <2> HIDE DEF e
  <2>2. /\ grammar.word = e /\ grammar.count = 0 /\ grammar.flag = FALSE /\ grammar.on \in BOOLEAN
        /\ grammar = [on |-> grammar.on, word |-> grammar.word, count |-> grammar.count, flag |-> grammar.flag]
    BY <2>1
  <2>3. grammar \in Grammar
    <3>1. grammar.count \in Nat /\ grammar.word \in Seq(Tokens)
      BY <2>1, <2>2
    <3>2. grammar.flag \in BOOLEAN
      BY <2>2
    <3>3. grammar.on \in BOOLEAN
      BY <2>2
    <3> QED BY <2>2, <3>1, <3>2, <3>3 DEF Grammar
  <2> QED BY <2>2, <2>3 DEF e
<1>3. Output!Terminated(<< >>) = FALSE
  BY OutputAssumption DEF Output!Terminated
<1>4. Sound(grammar)
  <2>1. Len(<< >>) = 0
    OBVIOUS
  <2> QED BY <1>2, <1>3, <2>1 DEF Sound
<1>5. OutTyped
  BY <1>1, <1>4 DEF OutTyped
<1>6. DraftsFit
  <2>1. Len(drafts) = 0 /\ \A i \in 1..0 : FALSE
    BY <1>1
  <2> QED BY <2>1 DEF DraftsFit, Taken
<1>7. Follows
  <2>1. 0 \in 0..(Len(out) - from) /\ SubSeq(out, from + 1, from + 0) = << >> /\ from + 0 = Len(out)
    BY <1>1
  <2> QED BY <1>2, <2>1 DEF Follows
<1> QED BY <1>1, <1>2, <1>5, <1>6, <1>7 DEF OutInv, Idle

LEMMA OutHolds ==
  ASSUME OutInv
  PROVE  Output!GrammarFollowsOutput /\ Output!NoSpuriousFailure
<1>1. Output!NoSpuriousFailure
  BY DEF Output!NoSpuriousFailure, OutInv
<1>2. ASSUME grammar.on
      PROVE  LET w == IF think THEN << >> ELSE SubSeq(out, from + 1, Len(out))
             IN  /\ Output!IsPrefix(grammar.word, w)
                 /\ grammar.word = w \/ Output!Terminated(grammar.word)
                 /\ grammar.flag = Output!Terminated(grammar.word)
                 /\ grammar.count = Len(grammar.word)
  <2>1. /\ grammar.flag = Output!Terminated(grammar.word) /\ grammar.count = Len(grammar.word)
        /\ grammar.word \in Seq(Tokens) /\ out \in Seq(Tokens) /\ from \in 0..Len(out) /\ think \in BOOLEAN
    BY DEF OutInv, OutTyped, Sound, Grammar
  <2>2. CASE think
    <3>1. grammar.word = << >>
      BY <2>2 DEF OutInv, Idle
    <3>2. Output!IsPrefix(<< >>, << >>)
      BY DEF Output!IsPrefix
    <3> QED BY <2>1, <2>2, <3>1, <3>2
  <2>3. CASE ~think
    <3> DEFINE w == SubSeq(out, from + 1, Len(out))
    <3>1. PICK k \in 0..(Len(out) - from) :
            grammar.word = SubSeq(out, from + 1, from + k) /\ (from + k = Len(out) \/ grammar.flag)
      BY <1>2, <2>3 DEF OutInv, Follows
    <3>2. Len(out) \in Nat /\ from \in Nat /\ from <= from + k /\ from + k \in Nat /\ from + k <= Len(out)
      BY <2>1
    <3>3. /\ w \in Seq(Tokens) /\ Len(w) = Len(out) - from
          /\ \A i \in 1..(Len(out) - from) : w[i] = out[from + i]
      BY <2>1, <3>2, PartIs
    <3>4. /\ grammar.word \in Seq(Tokens) /\ Len(grammar.word) = k
          /\ \A i \in 1..k : grammar.word[i] = out[from + i]
      <4> DEFINE b == from + k
      <4>1. b - from = k
        BY <3>2
      <4> HIDE DEF b
      <4>2. b \in Nat /\ from <= b /\ b <= Len(out) /\ grammar.word = SubSeq(out, from + 1, b)
        BY <3>1, <3>2 DEF b
      <4> QED BY <2>1, <3>2, <4>1, <4>2, PartIs
    <3> HIDE DEF w
    <3>5. Output!IsPrefix(grammar.word, w)
      BY <3>2, <3>3, <3>4 DEF Output!IsPrefix
    <3>6. from + k = Len(out) => grammar.word = w
      <4> SUFFICES ASSUME from + k = Len(out) PROVE grammar.word = w
        OBVIOUS
      <4>1. grammar.word = SubSeq(out, from + 1, from + k)
        BY <3>1
      <4> QED BY <4>1 DEF w
    <3> QED BY <2>1, <2>3, <3>1, <3>5, <3>6 DEF w
  <2> QED BY <2>1, <2>2, <2>3
<1> QED BY <1>1, <1>2 DEF Output!GrammarFollowsOutput

LEMMA FlattenType ==
  ASSUME NEW S, NEW n \in Nat, NEW s \in [1..n -> Seq(S)]
  PROVE  Output!FlattenSeq(s) \in Seq(S)
<1>1. Len(s) = n
  <2>1. s \in Seq(Seq(S))
    OBVIOUS
  <2> QED BY <2>1
<1>2. CASE n = 0
  <2>1. Output!FlattenSeq(s) = s
    BY <1>1, <1>2 DEF Output!FlattenSeq
  <2>2. s = << >>
    BY <1>2
  <2> QED BY <2>1, <2>2, EmptySeq
<1>3. CASE n > 0
  <2> DEFINE F == [i \in 1..n |-> [x \in Seq(S) |-> IF i = 1 THEN s[i] ELSE x \o s[i]]]
  <2>1. F \in [1..n -> [Seq(S) -> Seq(S)]] /\ << >> \in Seq(S)
    <3>1. \A i \in 1..n, x \in Seq(S) : s[i] \in Seq(S) /\ x \o s[i] \in Seq(S)
      BY ConcatProperties
    <3> QED BY <3>1, EmptySeq
  <2>2. \A i \in 1..n, x \in Seq(S) : F[i][x] = IF i = 1 THEN s[i] ELSE x \o s[i]
    OBVIOUS
  <2> HIDE DEF F
  <2>3. PICK h : Iterates(h, n, Seq(S), << >>, F)
    BY <2>1, Iterated
  <2>4. ASSUME NEW i \in 1..n
        PROVE  h[i] = (IF i = 1 THEN s[i] ELSE h[i - 1] \o s[i]) /\ h[i] \in Seq(S)
    <3>1. i \in 0..n /\ i - 1 \in 0..n /\ i # 0
      OBVIOUS
    <3>2. h \in [0..n -> Seq(S)] /\ h = [j \in 0..n |-> IF j = 0 THEN << >> ELSE F[j][h[j - 1]]]
      BY <2>3 DEF Iterates
    <3>3. h[i] = F[i][h[i - 1]] /\ h[i - 1] \in Seq(S) /\ h[i] \in Seq(S)
      BY <3>1, <3>2
    <3> QED BY <2>2, <3>3
  <2> DEFINE g == [i \in 1..n |-> h[i]]
  <2>5. g = [i \in 1..n |-> IF i = 1 THEN s[i] ELSE g[i - 1] \o s[i]]
    <3>1. \A i \in 1..n : g[i] = IF i = 1 THEN s[i] ELSE g[i - 1] \o s[i]
      <4> TAKE i \in 1..n
      <4>1. g[i] = h[i] /\ (i # 1 => g[i - 1] = h[i - 1])
        OBVIOUS
      <4> HIDE DEF g
      <4> QED BY <2>4, <4>1
    <3>2. g = [i \in 1..n |-> g[i]]
      OBVIOUS
    <3> HIDE DEF g
    <3> QED BY <3>1, <3>2
  <2> HIDE DEF g
  <2> DEFINE flatten[i \in 1..Len(s)] == IF i = 1 THEN s[i] ELSE flatten[i - 1] \o s[i]
  <2>6. flatten = [i \in 1..n |-> IF i = 1 THEN s[i] ELSE flatten[i - 1] \o s[i]]
    BY <1>1, <2>5
  <2>7. Output!FlattenSeq(s) = flatten[Len(s)]
    BY <1>1, <1>3 DEF Output!FlattenSeq
  <2> HIDE DEF flatten
  <2>8. \A i \in 1..n : flatten[i] = IF i = 1 THEN s[i] ELSE flatten[i - 1] \o s[i]
    BY <2>6
  <2> DEFINE B == {i \in 0..n : i = 0 \/ flatten[i] \in Seq(S)}
  <2>9. 0 \in B
    OBVIOUS
  <2>10. ASSUME NEW i \in 1..n, i - 1 \in B PROVE i \in B
    <3>1. s[i] \in Seq(S) /\ i \in 0..n
      OBVIOUS
    <3>2. CASE i = 1
      BY <2>8, <3>1, <3>2
    <3>3. CASE i # 1
      <4>1. flatten[i - 1] \in Seq(S)
        BY <2>10, <3>3
      <4>2. flatten[i - 1] \o s[i] \in Seq(S)
        BY <3>1, <4>1, ConcatProperties
      <4>3. flatten[i] = flatten[i - 1] \o s[i]
        BY <2>8, <3>3
      <4> QED BY <3>1, <4>2, <4>3
    <3> QED BY <3>2, <3>3
  <2> HIDE DEF B
  <2>11. \A i \in 0..n : i \in B
    BY <2>9, <2>10, UpTo
  <2>12. flatten[n] \in Seq(S)
    <3>1. n \in B /\ n # 0
      BY <1>3, <2>11
    <3> QED BY <3>1 DEF B
  <2> QED BY <1>1, <2>7, <2>12
<1> QED BY <1>2, <1>3

----------------------------------------------------------------------------
(* The stop string                                                         *)

Strings == Seq(STRING) \ {<< >>}

\* Where s ends in the text.
EndsAt(text, s, e) == \E i \in Output!Positions(text, s, 0) : e = i + Len(s)

LEMMA EndIs ==
  ASSUME NEW text \in Seq(STRING), NEW s \in Strings, NEW e
  PROVE  EndsAt(text, s, e) <=> /\ e \in Len(s)..Len(text)
                                /\ SubSeq(text, (e - Len(s)) + 1, e) = s
<1>1. Len(s) \in Nat /\ Len(text) \in Nat
  BY DEF Strings
<1>2. ASSUME EndsAt(text, s, e) PROVE e \in Len(s)..Len(text) /\ SubSeq(text, (e - Len(s)) + 1, e) = s
  <2>1. PICK i \in 0..Len(text) : e = i + Len(s) /\ i + Len(s) <= Len(text) /\ SubSeq(text, i + 1, i + Len(s)) = s
    BY <1>2 DEF EndsAt, Output!Positions, Output!At
  <2>2. e - Len(s) = i /\ e \in Len(s)..Len(text)
    BY <1>1, <2>1
  <2> QED BY <2>1, <2>2
<1>3. ASSUME e \in Len(s)..Len(text), SubSeq(text, (e - Len(s)) + 1, e) = s PROVE EndsAt(text, s, e)
  <2> DEFINE i == e - Len(s)
  <2>1. i \in 0..Len(text) /\ i + Len(s) = e /\ e <= Len(text)
    BY <1>1, <1>3
  <2>2. SubSeq(text, i + 1, e) = s
    BY <1>3
  <2> HIDE DEF i
  <2>3. i \in Output!Positions(text, s, 0)
    BY <2>1, <2>2 DEF Output!Positions, Output!At
  <2> QED BY <2>1, <2>3 DEF EndsAt
<1> QED BY <1>2, <1>3

\* What ends in the old text ends there in the new one, and nothing else does.
LEMMA EndKept ==
  ASSUME NEW u \in Seq(STRING), NEW v \in Seq(STRING), NEW s \in Strings, NEW e \in Nat, e <= Len(u)
  PROVE  EndsAt(u \o v, s, e) <=> EndsAt(u, s, e)
<1> DEFINE x == u \o v
<1>1. x \in Seq(STRING) /\ Len(x) = Len(u) + Len(v) /\ Len(u) \in Nat /\ Len(v) \in Nat
  BY ConcatProperties
<1>2. Len(s) \in Nat
  BY DEF Strings
<1>3. EndsAt(x, s, e) <=> e \in Len(s)..Len(x) /\ SubSeq(x, (e - Len(s)) + 1, e) = s
  BY <1>1, EndIs
<1>4. EndsAt(u, s, e) <=> e \in Len(s)..Len(u) /\ SubSeq(u, (e - Len(s)) + 1, e) = s
  BY EndIs
<1>5. CASE Len(s) <= e
  <2> DEFINE a == e - Len(s)
  <2>1. a \in Nat /\ a <= e
    BY <1>2, <1>5
  <2> HIDE DEF a
  <2>2. SubSeq(x, a + 1, e) = SubSeq(u, a + 1, e)
    BY <2>1, PartKept
  <2>3. e \in Len(s)..Len(x) /\ e \in Len(s)..Len(u)
    BY <1>1, <1>2, <1>5
  <2> QED BY <1>3, <1>4, <2>2, <2>3 DEF a
<1>6. CASE ~(Len(s) <= e)
  BY <1>1, <1>2, <1>3, <1>4, <1>6
<1> QED BY <1>5, <1>6

\* Looking back from b by one less than s finds what ends behind b.
LEMMA LookBack ==
  ASSUME NEW text \in Seq(STRING), NEW s \in Strings, NEW b \in Nat, NEW e
  PROVE  (\E i \in Output!Positions(text, s, Output!Minus(b + 1, Len(s))) : e = i + Len(s))
           <=> EndsAt(text, s, e) /\ e > b
<1> DEFINE m == Output!Minus(b + 1, Len(s))
<1>1. Len(s) \in Nat /\ Len(text) \in Nat
  BY DEF Strings
<1>2. m \in Nat /\ \A i \in Nat : i >= m <=> i + Len(s) > b
  BY <1>1 DEF Output!Minus
<1> HIDE DEF m
<1>3. \A i : i \in Output!Positions(text, s, m) <=> i \in Output!Positions(text, s, 0) /\ i >= m
  <2> TAKE i
  <2>1. i \in m..Len(text) <=> i \in 0..Len(text) /\ i >= m
    BY <1>1, <1>2
  <2> QED BY <2>1 DEF Output!Positions
<1>4. \A i : i \in Output!Positions(text, s, 0) => i \in Nat
  BY DEF Output!Positions
<1>5. (\E i \in Output!Positions(text, s, m) : e = i + Len(s)) <=> EndsAt(text, s, e) /\ e > b
  BY <1>2, <1>3, <1>4 DEF EndsAt
<1> QED BY <1>5 DEF m

Closes(d) == {i + Len(Marker) : i \in Output!Positions(d.text, Marker, 0)}
Edge(d) ==
  IF d.guard /\ Closes(d) # {} THEN CHOOSE e \in Closes(d) : \A x \in Closes(d) : e <= x ELSE 0
Timely(d) ==
  d.stopped <=> /\ ~(d.guard /\ Closes(d) = {})
                /\ \E e : EndsAt(d.text, d.stop, e) /\ e > Edge(d)

Detok == [text : Seq(STRING), guard : BOOLEAN, closed : BOOLEAN, stop : Stops, stopped : BOOLEAN]

\* The detokenizer knows of the end of the reasoning, and stops where it should.
StopSound(d) ==
  d \in Detok /\ (d.guard => (d.closed <=> Closes(d) # {})) /\ Timely(d)

LEMMA EdgeIs ==
  ASSUME NEW d \in Detok
  PROVE  /\ \A e : e \in Closes(d) <=> EndsAt(d.text, Marker, e)
         /\ \A e : e \in Closes(d) => e \in Nat /\ e <= Len(d.text)
         /\ d.guard /\ Closes(d) # {} => Edge(d) \in Closes(d) /\ \A e \in Closes(d) : Edge(d) <= e
         /\ Edge(d) \in Nat
<1>1. d.text \in Seq(STRING) /\ Marker \in Strings /\ Len(Marker) \in Nat /\ Len(d.text) \in Nat
  BY OutputAssumption DEF Detok, Strings
<1>2. \A e : e \in Closes(d) <=> EndsAt(d.text, Marker, e)
  BY DEF Closes, EndsAt
<1>3. \A e : EndsAt(d.text, Marker, e) => e \in Len(Marker)..Len(d.text)
  BY <1>1, EndIs
<1>4. \A e : e \in Closes(d) => e \in Nat /\ e <= Len(d.text)
  BY <1>1, <1>2, <1>3
<1> DEFINE C == Closes(d)
<1>5. ASSUME d.guard, C # {} PROVE Edge(d) \in C /\ \A e \in C : Edge(d) <= e
  <2>1. Edge(d) = Min(C)
    BY <1>5 DEF Edge, Min
  <2>2. C \in SUBSET Nat
    BY <1>4
  <2> HIDE DEF C
  <2> QED BY <1>5, <2>1, <2>2, MinOfNaturals
<1>6. Edge(d) \in Nat
  <2>1. CASE d.guard /\ C # {}
    BY <1>4, <1>5, <2>1
  <2>2. CASE ~(d.guard /\ C # {})
    BY <2>2 DEF Edge
  <2> QED BY <2>1, <2>2
<1> QED BY <1>2, <1>4, <1>5, <1>6

\* What Deliver does: the text grows, and what is new in it counts.
Grown(d, d2, old) ==
  /\ d2 \in Detok /\ d2.guard = d.guard /\ d2.stop = d.stop
  /\ d2.closed <=> d.closed \/ (d.guard /\ ~d.closed /\ \E e : EndsAt(d2.text, Marker, e) /\ e > old)
  /\ LET close == d.guard /\ ~d.closed /\ \E e : EndsAt(d2.text, Marker, e) /\ e > old
         offset == IF close THEN Edge(d2) ELSE old
     IN  d2.stopped <=> (~d.guard \/ d.closed \/ close) /\ \E e : EndsAt(d2.text, d.stop, e) /\ e > offset

LEMMA GrownIs ==
  ASSUME NEW d \in Detok, NEW ts \in Seq(Tokens), d.guard /\ ~d.closed => Closes(d) = {}
  PROVE  LET d2 == Output!Deliver(d, ts)
         IN  Grown(d, d2, Len(d.text)) /\ \E v \in Seq(STRING) : d2.text = d.text \o v
<1> DEFINE old == Len(d.text)
           v == Output!FlattenSeq([i \in DOMAIN ts |-> Text[ts[i]]])
           text == d.text \o v
           ends == {i + Len(Marker) : i \in Output!Positions(text, Marker, Output!MarkerFrom(d))}
           close == d.guard /\ ~d.closed /\ ends # {}
           offset == IF close THEN CHOOSE e \in ends : \A x \in ends : e <= x ELSE old
           live == ~d.guard \/ d.closed \/ close
           stopped == live /\ offset < Len(text) /\
                        Output!Positions(text, d.stop, Output!Minus(offset + 1, Len(d.stop))) # {}
           closed == d.closed \/ close
           d2 == Output!Deliver(d, ts)
<1>1. d2 = [d EXCEPT !.text = text, !.closed = closed, !.stopped = stopped]
  BY DEF Output!Deliver
<1>2. d.text \in Seq(STRING) /\ old \in Nat /\ d.stop \in Strings /\ Marker \in Strings /\ Len(Marker) \in Nat
  BY OutputAssumption DEF Detok, Strings
<1>3. v \in Seq(STRING)
  <2>1. Len(ts) \in Nat /\ DOMAIN ts = 1..Len(ts) /\ \A i \in 1..Len(ts) : Text[ts[i]] \in Seq(STRING)
    BY OutputAssumption
  <2>2. [i \in DOMAIN ts |-> Text[ts[i]]] \in [1..Len(ts) -> Seq(STRING)]
    BY <2>1
  <2> QED BY <2>1, <2>2, FlattenType
<1>4. text \in Seq(STRING) /\ Len(text) = old + Len(v) /\ Len(v) \in Nat
  <2> HIDE DEF v
  <2> QED BY <1>2, <1>3, ConcatProperties
<1> HIDE DEF v
<1>5. \A e : e \in ends <=> EndsAt(text, Marker, e) /\ e > old
  <2>1. Output!MarkerFrom(d) = Output!Minus(old + 1, Len(Marker))
    BY DEF Output!MarkerFrom
  <2>2. \A e : (\E i \in Output!Positions(text, Marker, Output!Minus(old + 1, Len(Marker))) : e = i + Len(Marker))
              <=> EndsAt(text, Marker, e) /\ e > old
    <3> HIDE DEF text, old
    <3> QED BY <1>2, <1>4, LookBack
  <2> HIDE DEF old, text
  <2> QED BY <2>1, <2>2
<1> HIDE DEF d2, closed, stopped
<1>6. closed \in BOOLEAN /\ stopped \in BOOLEAN
  BY DEF closed, stopped, Detok
<1>7. d2 \in Detok /\ d2.text = text /\ d2.closed = closed /\ d2.stopped = stopped /\ d2.guard = d.guard
      /\ d2.stop = d.stop
  <2> HIDE DEF text
  <2> QED BY <1>1, <1>4, <1>6 DEF Detok
<1>8. close <=> d.guard /\ ~d.closed /\ \E e : EndsAt(text, Marker, e) /\ e > old
  <2> HIDE DEF text, old, ends
  <2> QED BY <1>5
<1>9. close => ends = Closes(d2) /\ offset = Edge(d2)
  <2> SUFFICES ASSUME close PROVE ends = Closes(d2) /\ offset = Edge(d2)
    OBVIOUS
  <2>1. Closes(d) = {} /\ ends # {} /\ d2.guard
    BY <1>7
  <2> HIDE DEF text, old, ends, offset
  <2>2. \A e : EndsAt(text, Marker, e) => e > old
    <3> TAKE e
    <3> SUFFICES ASSUME EndsAt(text, Marker, e), ~(e > old) PROVE FALSE
      OBVIOUS
    <3>1. e \in Len(Marker)..Len(text)
      BY <1>2, <1>4, EndIs
    <3>2. e \in Nat /\ e <= Len(d.text)
      BY <1>2, <1>4, <3>1 DEF old
    <3>3. EndsAt(d.text, Marker, e)
      BY <1>2, <1>3, <3>2, EndKept DEF text
    <3> QED BY <2>1, <3>3, EdgeIs
  <2>3. \A e : e \in Closes(d2) <=> EndsAt(text, Marker, e)
    BY <1>7, EdgeIs
  <2>4. ends = Closes(d2)
    BY <1>5, <2>2, <2>3
  <2>5. offset = CHOOSE e \in ends : \A x \in ends : e <= x
    BY DEF offset
  <2> QED BY <2>1, <2>4, <2>5 DEF Edge
<1>10. offset \in Nat
  <2>1. CASE close
    BY <1>7, <1>9, <2>1, EdgeIs
  <2>2. CASE ~close
    BY <1>2, <2>2
  <2> QED BY <2>1, <2>2
<1>11. stopped <=> live /\ \E e : EndsAt(text, d.stop, e) /\ e > offset
  <2> HIDE DEF text, offset, live, old
  <2> DEFINE P == Output!Positions(text, d.stop, Output!Minus(offset + 1, Len(d.stop)))
  <2>1. \A e : (\E i \in P : e = i + Len(d.stop)) <=> EndsAt(text, d.stop, e) /\ e > offset
    BY <1>2, <1>4, <1>10, LookBack
  <2>2. stopped <=> live /\ offset < Len(text) /\ P # {}
    BY DEF stopped
  <2> HIDE DEF P
  <2>3. P # {} <=> \E e : EndsAt(text, d.stop, e) /\ e > offset
    BY <2>1
  <2>4. \A e : EndsAt(text, d.stop, e) /\ e > offset => offset < Len(text)
    <3> TAKE e
    <3> SUFFICES ASSUME EndsAt(text, d.stop, e), e > offset PROVE offset < Len(text)
      OBVIOUS
    <3>1. e \in Len(d.stop)..Len(text) /\ Len(d.stop) \in Nat /\ Len(text) \in Nat
      BY <1>2, <1>4, EndIs DEF Strings
    <3> QED BY <1>10, <3>1
  <2> QED BY <2>2, <2>3, <2>4
<1>12. Grown(d, d2, old)
  <2> DEFINE q == d.guard /\ ~d.closed /\ \E e : EndsAt(d2.text, Marker, e) /\ e > old
  <2>1. close <=> q
    BY <1>7, <1>8
  <2>2. live <=> ~d.guard \/ d.closed \/ close
    OBVIOUS
  <2>3. (close => offset = Edge(d2)) /\ (~close => offset = old)
    BY <1>9
  <2>4. d2.closed <=> d.closed \/ close
    BY <1>7 DEF closed
  <2> HIDE DEF close, live, offset, old, text
  <2>5. offset = IF q THEN Edge(d2) ELSE old
    BY <2>1, <2>3
  <2>6. d2.closed <=> d.closed \/ q
    BY <2>1, <2>4
  <2>7. d2.stopped <=> (~d.guard \/ d.closed \/ q) /\ \E e : EndsAt(d2.text, d.stop, e) /\ e > IF q THEN Edge(d2) ELSE old
    BY <1>7, <1>11, <2>1, <2>2, <2>5
  <2> QED BY <1>7, <2>6, <2>7 DEF Grown
<1> QED BY <1>3, <1>7, <1>12 DEF d2

LEMMA DeliverSound ==
  ASSUME NEW d, StopSound(d), ~d.stopped, NEW ts \in Seq(Tokens)
  PROVE  StopSound(Output!Deliver(d, ts))
<1> DEFINE d2 == Output!Deliver(d, ts)
           old == Len(d.text)
           s == d.stop
<1>1. d \in Detok /\ (d.guard => (d.closed <=> Closes(d) # {})) /\ Timely(d)
  BY DEF StopSound
<1>2. d.guard /\ ~d.closed => Closes(d) = {}
  BY <1>1
<1>3. Grown(d, d2, old) /\ \E v \in Seq(STRING) : d2.text = d.text \o v
  BY <1>1, <1>2, GrownIs
<1> HIDE DEF d2
<1>4. PICK v \in Seq(STRING) : d2.text = d.text \o v
  BY <1>3
<1>5. d.text \in Seq(STRING) /\ s \in Strings /\ Marker \in Strings /\ old \in Nat /\ d2 \in Detok /\ d2.guard = d.guard
      /\ d2.stop = s
  BY <1>1, <1>3, OutputAssumption DEF Detok, Strings, Grown
<1>6. \A e : e \in Closes(d) <=> EndsAt(d.text, Marker, e)
  BY <1>1, EdgeIs
<1>7. \A e : e \in Closes(d2) <=> EndsAt(d2.text, Marker, e)
  BY <1>5, EdgeIs
<1>8. \A e \in Nat : e <= old => (EndsAt(d2.text, Marker, e) <=> EndsAt(d.text, Marker, e))
                              /\ (EndsAt(d2.text, s, e) <=> EndsAt(d.text, s, e))
  BY <1>4, <1>5, EndKept
<1>9. \A e : EndsAt(d2.text, Marker, e) \/ EndsAt(d2.text, s, e) => e \in Nat /\ e > 0
  <2> TAKE e
  <2>1. Len(s) \in Nat \ {0} /\ Len(Marker) \in Nat \ {0} /\ Len(d2.text) \in Nat /\ d2.text \in Seq(STRING)
    BY <1>5, EmptySeq DEF Strings, Detok
  <2>2. EndsAt(d2.text, Marker, e) => e \in Len(Marker)..Len(d2.text)
    BY <1>5, <2>1, EndIs
  <2>3. EndsAt(d2.text, s, e) => e \in Len(s)..Len(d2.text)
    BY <1>5, <2>1, EndIs
  <2> QED BY <2>1, <2>2, <2>3
<1>10. Edge(d) \in Nat /\ (d.guard /\ Closes(d) # {} => Edge(d) \in Closes(d) /\ Edge(d) <= old
                                                     /\ \A e \in Closes(d) : Edge(d) <= e)
  BY <1>1, EdgeIs
<1>11. Edge(d2) \in Nat /\ (d.guard /\ Closes(d2) # {} => Edge(d2) \in Closes(d2) /\ \A e \in Closes(d2) : Edge(d2) <= e)
  BY <1>5, EdgeIs
\* Nothing has stopped it yet.
<1>12. ~(d.guard /\ Closes(d) = {}) => \A e : EndsAt(d.text, s, e) => ~(e > Edge(d))
  BY <1>1 DEF Timely
<1> HIDE DEF old, s
<1>13. CASE ~d.guard
  <2>1. Edge(d) = 0 /\ Edge(d2) = 0
    BY <1>5, <1>13 DEF Edge
  <2>2. d2.stopped <=> \E e : EndsAt(d2.text, s, e) /\ e > old
    BY <1>3, <1>13 DEF Grown, s
  <2>3. \A e : EndsAt(d2.text, s, e) => e > old
    <3> TAKE e
    <3> SUFFICES ASSUME EndsAt(d2.text, s, e), ~(e > old) PROVE FALSE
      OBVIOUS
    <3>1. e \in Nat /\ e > 0 /\ e <= old
      BY <1>5, <1>9
    <3> QED BY <1>8, <1>12, <1>13, <2>1, <3>1
  <2>4. Timely(d2)
    BY <1>5, <1>9, <1>13, <2>1, <2>2, <2>3 DEF Timely
  <2> QED BY <1>5, <1>13, <2>4 DEF StopSound, d2
<1>14. CASE d.guard /\ d.closed
  <2>1. Closes(d) # {} /\ Edge(d) \in Closes(d) /\ Edge(d) <= old
    BY <1>1, <1>10, <1>14
  <2>2. Edge(d) \in Closes(d2)
    BY <1>6, <1>7, <1>8, <1>10, <2>1
  <2>3. Edge(d2) = Edge(d)
    <3>1. Edge(d2) \in Closes(d2) /\ Edge(d2) <= Edge(d)
      BY <1>11, <1>14, <2>2
    <3>2. Edge(d2) <= old
      BY <1>5, <1>10, <1>11, <2>1, <3>1
    <3>3. Edge(d2) \in Closes(d)
      BY <1>6, <1>7, <1>8, <1>11, <3>1, <3>2
    <3>4. Edge(d) <= Edge(d2)
      BY <1>10, <1>14, <2>1, <3>3
    <3> QED BY <1>10, <1>11, <3>1, <3>4
  <2>4. d2.closed /\ (d2.stopped <=> \E e : EndsAt(d2.text, s, e) /\ e > old)
    BY <1>3, <1>14 DEF Grown, s
  <2>5. \A e : EndsAt(d2.text, s, e) => (e > old <=> e > Edge(d))
    <3> TAKE e
    <3> SUFFICES ASSUME EndsAt(d2.text, s, e) PROVE e > old <=> e > Edge(d)
      OBVIOUS
    <3>1. e \in Nat
      BY <1>9
    <3>2. e <= old => ~(e > Edge(d))
      BY <1>8, <1>12, <2>1, <3>1
    <3> QED BY <1>5, <1>10, <2>1, <3>1, <3>2
  <2>6. Closes(d2) # {}
    BY <2>2
  <2>7. Timely(d2)
    BY <1>5, <2>3, <2>4, <2>5, <2>6 DEF Timely
  <2> QED BY <1>5, <2>4, <2>6, <2>7 DEF StopSound, d2
<1>15. CASE d.guard /\ ~d.closed
  <2> DEFINE close == \E e : EndsAt(d2.text, Marker, e) /\ e > old
  <2>1. close <=> Closes(d2) # {}
    <3>1. \A e : EndsAt(d2.text, Marker, e) => e > old
      <4> TAKE e
      <4> SUFFICES ASSUME EndsAt(d2.text, Marker, e), ~(e > old) PROVE FALSE
        OBVIOUS
      <4>1. e \in Nat /\ e <= old
        BY <1>5, <1>9
      <4> QED BY <1>2, <1>6, <1>8, <1>15, <4>1
    <3> QED BY <1>7, <3>1
  <2>2. /\ d2.closed <=> close
        /\ d2.stopped <=> close /\ \E e : EndsAt(d2.text, s, e) /\ e > IF close THEN Edge(d2) ELSE old
    BY <1>3, <1>15 DEF Grown, s
  <2> HIDE DEF close
  <2>3. d2.stopped <=> close /\ \E e : EndsAt(d2.text, s, e) /\ e > Edge(d2)
    BY <2>2
  <2>4. Timely(d2)
    BY <1>5, <1>15, <2>1, <2>3 DEF Timely
  <2> QED BY <1>5, <2>1, <2>2, <2>4 DEF StopSound, d2
<1> QED BY <1>13, <1>14, <1>15

LEMMA StopsStep ==
  ASSUME StopSound(detok), OutTyped, Output!Next \/ UNCHANGED ovars
  PROVE  StopSound(detok')
<1>1. CASE Output!Draft \/ UNCHANGED ovars
  <2>1. detok' = detok
    BY <1>1 DEF Output!Draft, ovars
  <2> QED BY <2>1
<1>2. CASE Output!Step
  <2>1. ~detok.stopped
    BY <1>2, Zenon DEF Output!Step, Output!Active
  <2>2. PICK n \in 0..Len(drafts) : \E ts : Batch(n, ts) /\ detok' = Output!Deliver(detok, ts)
    BY <1>2, StepIs
  <2>3. PICK ts : Batch(n, ts) /\ detok' = Output!Deliver(detok, ts)
    BY <2>2
  <2>4. ts \in Seq(Tokens)
    BY <2>3 DEF Batch
  <2> QED BY <2>1, <2>3, <2>4, DeliverSound
<1>3. CASE Output!Reset
  <2>1. detok' = [detok EXCEPT !.text = << >>, !.guard = FALSE] /\ ~detok.stopped /\ detok \in Detok
    BY <1>3 DEF Output!Reset, Output!Active, StopSound
  <2> DEFINE w == << >>
             x == detok'
  <2>2. w \in Seq(STRING) /\ Len(w) = 0
    BY EmptySeq
  <2>3. x = [detok EXCEPT !.text = w, !.guard = FALSE]
    BY <2>1
  <2> HIDE DEF w, x
  <2>4. x \in Detok /\ x.text = w /\ x.guard = FALSE /\ ~x.stopped
    BY <2>1, <2>2, <2>3 DEF Detok
  <2>5. \A e : ~EndsAt(w, x.stop, e)
    <3> TAKE e
    <3>1. x.stop \in Strings
      BY <2>4, OutputAssumption DEF Detok, Strings
    <3>2. Len(x.stop) \in Nat \ {0}
      BY <3>1, EmptySeq DEF Strings
    <3>3. EndsAt(w, x.stop, e) => e \in Len(x.stop)..0
      BY <2>2, <3>1, EndIs
    <3> QED BY <3>2, <3>3
  <2>6. StopSound(x)
    BY <2>4, <2>5 DEF StopSound, Timely
  <2> QED BY <2>6 DEF x
<1> QED BY <1>1, <1>2, <1>3 DEF Output!Next

LEMMA StopsStart ==
  ASSUME Output!Init
  PROVE  StopSound(detok)
<1>1. PICK armed \in BOOLEAN, s \in Stops :
        detok = [text |-> << >>, guard |-> think /\ armed, closed |-> FALSE, stop |-> s, stopped |-> FALSE]
  BY DEF Output!Init
<1> DEFINE w == << >>
           g == think /\ armed
<1>2. w \in Seq(STRING) /\ Len(w) = 0
  BY EmptySeq
<1>3. g \in BOOLEAN /\ detok = [text |-> w, guard |-> g, closed |-> FALSE, stop |-> s, stopped |-> FALSE]
  BY <1>1
<1> HIDE DEF w, g
<1>4. detok \in Detok /\ detok.text = w /\ detok.closed = FALSE /\ detok.stopped = FALSE /\ detok.stop = s
  BY <1>2, <1>3 DEF Detok
<1>5. s \in Strings /\ Marker \in Strings
  BY OutputAssumption DEF Strings
<1>6. \A e : ~EndsAt(w, s, e) /\ ~EndsAt(w, Marker, e)
  <2> TAKE e
  <2>1. Len(s) \in Nat \ {0} /\ Len(Marker) \in Nat \ {0}
    BY <1>5, EmptySeq DEF Strings
  <2>2. EndsAt(w, s, e) => e \in Len(s)..0
    BY <1>2, <1>5, EndIs
  <2>3. EndsAt(w, Marker, e) => e \in Len(Marker)..0
    BY <1>2, <1>5, EndIs
  <2> QED BY <2>1, <2>2, <2>3
<1>7. Closes(detok) = {}
  BY <1>4, <1>6, EdgeIs
<1> QED BY <1>4, <1>6, <1>7 DEF StopSound, Timely

LEMMA StopsHold ==
  ASSUME StopSound(detok)
  PROVE  Output!StopsExactlyAfterReasoning
<1> DEFINE P == Output!Positions(detok.text, detok.stop, 0)
<1>1. Timely(detok)
  BY DEF StopSound
<1>2. (\E e : EndsAt(detok.text, detok.stop, e) /\ e > Edge(detok))
        <=> \E i \in P : i + Len(detok.stop) > Edge(detok)
  BY DEF EndsAt
<1> HIDE DEF P
<1>3. detok.stopped <=> /\ ~(detok.guard /\ Closes(detok) = {})
                        /\ \E i \in P : i + Len(detok.stop) > Edge(detok)
  BY <1>1, <1>2 DEF Timely
<1> QED BY <1>3 DEF Output!StopsExactlyAfterReasoning, Closes, Edge, P

----------------------------------------------------------------------------
(* The request: the three theorems                                         *)

RequestInv == part = "output" => OutInv /\ StopSound(detok)

LEMMA RequestInvariance == PartsSpec => []RequestInv
<1>1. PartsInit => RequestInv
  BY OutStarts, StopsStart DEF PartsInit, RequestInv
<1>2. RequestInv /\ [PartsNext]_<<part, vars, kvars, ovars, mvars>> => RequestInv'
  <2> SUFFICES ASSUME RequestInv, [PartsNext]_<<part, vars, kvars, ovars, mvars>>, part' = "output"
               PROVE  (OutInv /\ StopSound(detok))'
    BY DEF RequestInv
  <2>1. part = "output" /\ (Output!Next \/ UNCHANGED ovars)
    BY DEF PartsNext, Indexing, Planning, Constraining, Multiplying
  <2>2. OutInv /\ OutTyped /\ StopSound(detok)
    BY <2>1 DEF RequestInv, OutInv
  <2>3. StopSound(detok')
    BY <2>1, <2>2, StopsStep
  <2>4. StopSound(detok)'
    BY <2>3 DEF StopSound, Timely, Edge, Closes, EndsAt, Output!Positions, Output!At
  <2>5. OutInv'
    <3>1. CASE UNCHANGED ovars
      <4>1. UNCHANGED <<grammar, think, drafts, out, from, failed>>
        BY <3>1 DEF ovars
      <4>2. OutTyped'
        BY <2>2, <4>1 DEF OutTyped, Sound, Grammar, Output!Terminated
      <4>3. DraftsFit'
        BY <2>2, <4>1 DEF OutInv, DraftsFit, Taken, Output!Takes, Output!IsPrefix
      <4>4. Follows' /\ Idle' /\ failed' = FALSE
        BY <2>2, <4>1 DEF OutInv, Follows, Idle
      <4> QED BY <4>2, <4>3, <4>4 DEF OutInv
    <3> QED BY <2>1, <2>2, <3>1, OutStep, OutDraft, OutReset DEF Output!Next
  <2> QED BY <2>4, <2>5
<1> QED BY <1>1, <1>2, PTL DEF PartsSpec

\* For every language, draft and batch: between two steps the matcher stands
\* where the constrained output stands (patch_xgrammar_termination.py:70-180).
THEOREM MatcherFollowsOutput == PartsSpec => []GrammarFollowsOutput
<1>1. RequestInv => GrammarFollowsOutput
  BY OutHolds DEF RequestInv, GrammarFollowsOutput
<1> QED BY <1>1, RequestInvariance, PTL

\* For every language, draft and batch: nothing the drafter proposes and no
\* step makes the grammar fail (patch_xgrammar_termination.py:160-175).
THEOREM DraftsNeverFail == PartsSpec => []NoSpuriousFailure
<1>1. RequestInv => NoSpuriousFailure
  BY OutHolds DEF RequestInv, NoSpuriousFailure
<1> QED BY <1>1, RequestInvariance, PTL

\* For every text of the tokens, marker and stop string: the request stops
\* when the string is completed behind the marker, and at no other time,
\* however it is cut into steps (patch_suppress_stops_in_reasoning.py:88-161).
THEOREM StopsCountAfterReasoning == PartsSpec => []StopsExactlyAfterReasoning
<1>1. RequestInv => StopsExactlyAfterReasoning
  BY StopsHold DEF RequestInv, StopsExactlyAfterReasoning
<1> QED BY <1>1, RequestInvariance, PTL
=============================================================================

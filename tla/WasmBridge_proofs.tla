------------------------- MODULE WasmBridge_proofs -------------------------
(* Lemmas about Marshal and WasmBridge.  First the type codes and letters, *)
(* and what is read from the cells of an argument list; then the indices:  *)
(* each numbering gives every symbol, or every signature, an index of its  *)
(* own and leaves none out.                                                *)
EXTENDS WasmBridge, SequenceTheorems, FiniteSetTheorems, TLAPS

AllLetters == {LetterOrder[i] : i \in DOMAIN LetterOrder}

\* Two types have two codes: a type is found again from its code.
LEMMA TypeOfCode ==
    ASSUME NEW t \in Types
    PROVE  CITYPE(t) \in 0..12 /\ TypeOrder[CITYPE(t) + 1] = t
<1>1. DOMAIN TypeOrder = 1..13
  BY DEF TypeOrder
<1>2. PICK i \in 1..13 : TypeOrder[i] = t
  BY <1>1 DEF Types
<1>3. \E k \in DOMAIN TypeOrder : TypeOrder[k] = t
  BY <1>1, <1>2
<1> DEFINE c == CHOOSE k \in DOMAIN TypeOrder : TypeOrder[k] = t
<1>4. c \in 1..13 /\ TypeOrder[c] = t
  BY <1>1, <1>3
<1>5. CITYPE(t) = c - 1
  BY DEF CITYPE
<1> HIDE DEF c
<1> QED
  BY <1>4, <1>5

\* The letters value_in refuses are those of u64, uptr and sptr.
LEMMA LetterType ==
    ASSUME NEW c \in 0..12
    PROVE  /\ Letter(c) \in AllLetters
           /\ Letter(c) \in NoResult => TypeOrder[c + 1] \in {"u64", "uptr", "sptr"}
<1>1. c \in {0, 1, 2, 3, 4, 5, 6, 7, 8, 9, 10, 11, 12}
  OBVIOUS
<1>2. DOMAIN LetterOrder = 1..13
  BY DEF LetterOrder
<1>3. Letter(c) \in AllLetters
  BY <1>2 DEF Letter, AllLetters
<1>4. Letter(c) \in NoResult => c \in {1, 7, 8}
  BY <1>1 DEF Letter, LetterOrder, NoResult
<1>5. TypeOrder[2] = "u64" /\ TypeOrder[8] = "uptr" /\ TypeOrder[9] = "sptr"
  BY DEF TypeOrder
<1> QED
  BY <1>3, <1>4, <1>5

-----------------------------------------------------------------------------
(* Signatures.                                                             *)

\* A list of types has as many codes.
LEMMA CodesType ==
    ASSUME NEW ts \in Seq(Types)
    PROVE  /\ Codes(ts) \in Seq(0..12) /\ Len(Codes(ts)) = Len(ts)
           /\ DOMAIN Codes(ts) = 1..Len(ts)
           /\ \A i \in 1..Len(ts) : Codes(ts)[i] = CITYPE(ts[i])
<1>1. DOMAIN ts = 1..Len(ts) /\ Len(ts) \in Nat
  BY LenProperties
<1>2. \A i \in 1..Len(ts) : CITYPE(ts[i]) \in 0..12
  BY TypeOfCode, ElementOfSeq
<1> QED
  BY <1>1, <1>2 DEF Codes

\* A list of codes is a list of numbers.
LEMMA CodesNumbers ==
    ASSUME NEW ts \in Seq(Types)
    PROVE  Codes(ts) \in Seq(Nat) /\ Codes(ts) \in Seq(Int)
<1>1. DOMAIN ts = 1..Len(ts) /\ Len(ts) \in Nat
  BY LenProperties
<1>2. \A i \in 1..Len(ts) : CITYPE(ts[i]) \in Nat /\ CITYPE(ts[i]) \in Int
  <2>1. \A i \in 1..Len(ts) : CITYPE(ts[i]) \in 0..12
    BY TypeOfCode, ElementOfSeq
  <2> QED
    BY <2>1
<1> QED
  BY <1>1, <1>2 DEF Codes

\* A list of codes has as many letters.
LEMMA LettersType ==
    ASSUME NEW cs \in Seq(0..12)
    PROVE  /\ Letters(cs) \in Seq(AllLetters) /\ Len(Letters(cs)) = Len(cs)
           /\ DOMAIN Letters(cs) = 1..Len(cs)
           /\ \A i \in 1..Len(cs) : Letters(cs)[i] = Letter(cs[i])
<1>1. DOMAIN cs = 1..Len(cs) /\ Len(cs) \in Nat
  BY LenProperties
<1>2. \A i \in 1..Len(cs) : Letter(cs[i]) \in AllLetters
  BY LetterType, ElementOfSeq
<1> QED
  BY <1>1, <1>2 DEF Letters

\* A signature that fits is kept as it is; of another one letters are lost, none is made up.
LEMMA KeptPart ==
    ASSUME NEW sig \in Seq(AllLetters)
    PROVE  /\ Kept(sig) \in Seq(AllLetters) /\ Len(Kept(sig)) <= Len(sig)
           /\ Len(sig) < SigBuf => Kept(sig) = sig
           /\ \A i \in 1..Len(Kept(sig)) : Kept(sig)[i] = sig[i]
<1>1. Len(sig) \in Nat /\ DOMAIN sig = 1..Len(sig)
  BY LenProperties
<1>2. CASE Len(sig) < SigBuf
  BY <1>1, <1>2 DEF Kept
<1>3. CASE ~(Len(sig) < SigBuf)
  <2>1. 1 \in Int /\ SigBuf - 1 \in 0..Len(sig)
    BY <1>1, <1>3, MarshalAssumption
  <2>2. Kept(sig) = SubSeq(sig, 1, SigBuf - 1)
    BY <1>3 DEF Kept
  <2>3. /\ SubSeq(sig, 1, SigBuf - 1) \in Seq(AllLetters)
        /\ Len(SubSeq(sig, 1, SigBuf - 1)) = SigBuf - 1
        /\ \A i \in 1..(SigBuf - 1) : SubSeq(sig, 1, SigBuf - 1)[i] = sig[i]
    BY <1>1, <2>1, ElementOfSeq, SMTT(20)
  <2> QED
    BY <1>1, <1>3, <2>1, <2>2, <2>3
<1> QED
  BY <1>2, <1>3

-----------------------------------------------------------------------------
(* Cells.                                                                  *)

\* Cells read by the letters they were written by give the values.
LEMMA ReadCells ==
    ASSUME NEW sig \in Seq(AllLetters), NEW vals
    PROVE  ReadAll(Cells(sig, vals), 0, sig) = [i \in DOMAIN sig |-> vals[i]]
<1>1. DOMAIN sig = 1..Len(sig) /\ Len(sig) \in Nat
  BY LenProperties
<1>2. \A i \in DOMAIN sig : i + 0 = i
  BY <1>1
<1>3. \A i \in DOMAIN sig : Read(Cells(sig, vals), i, sig[i]) = vals[i]
  BY DEF Read, Cells, Cell
<1> QED
  BY <1>2, <1>3, Zenon DEF ReadAll

\* Cells can be joined with the cell of an address.
LEMMA CellsSeq ==
    ASSUME NEW sig \in Seq(AllLetters), NEW vals, NEW c
    PROVE  \E S : c \in S /\ Cells(sig, vals) \in Seq(S)
<1> DEFINE S == {c} \cup {Cell(sig[i], vals[i]) : i \in DOMAIN sig}
<1>1. DOMAIN sig = 1..Len(sig) /\ Len(sig) \in Nat
  BY LenProperties
<1>2. \A i \in 1..Len(sig) : Cell(sig[i], vals[i]) \in S
  BY <1>1
<1> HIDE DEF S
<1>3. [i \in 1..Len(sig) |-> Cell(sig[i], vals[i])] \in Seq(S)
  BY <1>1, <1>2
<1>4. c \in S
  BY DEF S
<1> QED
  BY <1>1, <1>3, <1>4 DEF Cells

\* The arguments of a call reach a stub, each under its letter.
LEMMA ReadArguments ==
    ASSUME NEW sig \in Seq(AllLetters), NEW args, NEW addr
    PROVE  ReadAll(InCells(FALSE, addr, sig, args), 0, sig) = Padded(sig, args)
<1> DEFINE vals == Padded(sig, args)
<1>1. PICK S : Cells(sig, vals) \in Seq(S)
  BY CellsSeq
<1>2. InCells(FALSE, addr, sig, args) = <<>> \o Cells(sig, vals)
  BY DEF InCells
<1>3. InCells(FALSE, addr, sig, args) = Cells(sig, vals)
  BY <1>1, <1>2, ConcatEmptySeq
<1>4. [i \in DOMAIN sig |-> vals[i]] = vals
  BY DEF Padded
<1> QED
  BY <1>3, <1>4, ReadCells

\* With a dispatch function they follow the native address.
LEMMA ReadDispatched ==
    ASSUME NEW sig \in Seq(AllLetters), NEW args, NEW addr
    PROVE  /\ Read(InCells(TRUE, addr, sig, args), 1, "p") = addr
           /\ ReadAll(InCells(TRUE, addr, sig, args), 1, sig) = Padded(sig, args)
<1> DEFINE vals == Padded(sig, args)
           head == Cell("p", addr)
           body == Cells(sig, vals)
<1>1. DOMAIN sig = 1..Len(sig) /\ Len(sig) \in Nat
  BY LenProperties
<1>2. PICK S : head \in S /\ body \in Seq(S)
  BY CellsSeq
<1>3. Len(body) = Len(sig) /\ \A i \in 1..Len(sig) : body[i] = Cell(sig[i], vals[i])
  BY <1>1 DEF Cells
<1>4. [i \in DOMAIN sig |-> vals[i]] = vals
  BY DEF Padded
<1>5. InCells(TRUE, addr, sig, args) = <<head>> \o body
  BY DEF InCells
<1> HIDE DEF head, body, vals
<1> DEFINE first == <<head>>
           cells == first \o body
<1>6. first \in Seq(S) /\ Len(first) = 1 /\ first[1] = head
  BY <1>2
<1> HIDE DEF first
<1>7. /\ cells \in Seq(S) /\ Len(cells) = Len(first) + Len(body)
      /\ \A i \in 1..(Len(first) + Len(body)) :
            cells[i] = IF i <= Len(first) THEN first[i] ELSE body[i - Len(first)]
  BY <1>2, <1>6, ConcatProperties
<1> HIDE DEF cells
<1>8. DOMAIN cells = 1..(1 + Len(sig))
  BY <1>3, <1>6, <1>7, LenProperties
<1>9. cells[1] = head
  BY <1>1, <1>3, <1>6, <1>7
<1>10. \A i \in DOMAIN sig : i + 1 \in DOMAIN cells /\ cells[i + 1] = Cell(sig[i], vals[i])
  BY <1>1, <1>3, <1>6, <1>7, <1>8
<1>11. Read(cells, 1, "p") = addr
  BY <1>1, <1>8, <1>9 DEF Read, Cell, head
<1>12. ASSUME NEW i \in DOMAIN sig PROVE Read(cells, i + 1, sig[i]) = vals[i]
  <2>1. i + 1 \in DOMAIN cells /\ cells[i + 1] = Cell(sig[i], vals[i])
    BY <1>10
  <2> QED
    BY <2>1 DEF Read, Cell
<1>13. ReadAll(cells, 1, sig) = [i \in DOMAIN sig |-> vals[i]]
  BY <1>12, Zenon DEF ReadAll
<1> QED
  BY <1>4, <1>5, <1>11, <1>13 DEF cells, first, vals

-----------------------------------------------------------------------------
(* The indices of WasmBridge.                                              *)

\* How many elements of a set of numbers are smaller than a given one.
Rank(S, s) == Cardinality({t \in S : t < s})

\* Counting the smaller elements numbers a finite set from 0 without gaps.
LEMMA RankProperties ==
    ASSUME NEW S \in SUBSET Int, IsFiniteSet(S)
    PROVE  /\ Cardinality(S) \in Nat
           /\ \A s \in S : Rank(S, s) \in 0..(Cardinality(S) - 1)
           /\ \A s, t \in S : Rank(S, s) = Rank(S, t) => s = t
           /\ \A k \in 0..(Cardinality(S) - 1) : \E s \in S : Rank(S, s) = k
<1> DEFINE Below(s) == {t \in S : t < s}
<1>1. Cardinality(S) \in Nat
  BY FS_CardinalityType
<1>2. ASSUME NEW s \in S
      PROVE  IsFiniteSet(Below(s)) /\ Cardinality(Below(s)) \in Nat
  BY FS_Subset, FS_CardinalityType
<1>3. ASSUME NEW s \in S PROVE Cardinality(Below(s)) < Cardinality(S)
  <2>1. Below(s) \in SUBSET S /\ s \notin Below(s)
    OBVIOUS
  <2>2. Cardinality(Below(s)) <= Cardinality(S) /\ Cardinality(Below(s)) # Cardinality(S)
    BY <2>1, FS_Subset
  <2> QED
    BY <1>1, <1>2, <2>2
<1>4. ASSUME NEW s \in S, NEW t \in S, s < t
      PROVE  Cardinality(Below(s)) < Cardinality(Below(t))
  <2>1. s \in Int /\ t \in Int /\ ~(s < s) /\ \A u \in S : u < s => u < t
    BY <1>4
  <2>2. Below(s) \in SUBSET Below(t) /\ s \in Below(t) /\ s \notin Below(s)
    BY <1>4, <2>1
  <2>3. /\ Cardinality(Below(s)) <= Cardinality(Below(t))
        /\ Cardinality(Below(s)) # Cardinality(Below(t))
    BY <1>2, <2>2, FS_Subset
  <2> QED
    BY <1>2, <2>3
<1> DEFINE T == 0..(Cardinality(S) - 1)
           f == [s \in S |-> Cardinality(Below(s))]
<1>5. f \in [S -> T]
  BY <1>1, <1>2, <1>3
<1>6. \A s, t \in S : f[s] = f[t] => s = t
  <2> SUFFICES ASSUME NEW s \in S, NEW t \in S, s # t PROVE f[s] # f[t]
    OBVIOUS
  <2>1. s < t \/ t < s
    OBVIOUS
  <2> QED
    BY <1>2, <1>4, <2>1
<1>7. f \in Injection(S, T)
  <2> HIDE DEF f, T
  <2>1. f \in [S -> T] /\ \A a, b \in S : f[a] = f[b] => a = b
    BY <1>5, <1>6
  <2> QED
    BY <2>1 DEF Injection, IsInjective
<1>8. IsFiniteSet(T) /\ Cardinality(T) = Cardinality(S)
  <2> DEFINE n == Cardinality(S)
  <2>1. n \in Nat /\ 0 \in Int /\ n - 1 \in Int
    BY <1>1
  <2> HIDE DEF n
  <2>2. /\ IsFiniteSet(0..(n - 1))
        /\ Cardinality(0..(n - 1)) = IF 0 > n - 1 THEN 0 ELSE n - 1 - 0 + 1
    BY <2>1, FS_Interval
  <2>3. IsFiniteSet(0..(n - 1)) /\ Cardinality(0..(n - 1)) = n
    BY <2>1, <2>2
  <2> QED
    BY <2>3 DEF n
<1>9. f \in Surjection(S, T)
  BY <1>7, <1>8, FS_Injection
<1>10. \A k \in T : \E s \in S : f[s] = k
  BY <1>9 DEF Surjection
<1>11. \A s \in S : f[s] = Rank(S, s) /\ f[s] \in T
  BY <1>5 DEF Rank
<1> HIDE DEF f
<1> QED
  BY <1>1, <1>6, <1>10, <1>11

-----------------------------------------------------------------------------
(* Symbols.                                                                *)

\* Every symbol of the header is either an import or an export.
LEMMA SymFacts ==
    /\ Syms = 1..Len(Header) /\ Len(Header) \in Nat /\ IsFiniteSet(Syms)
    /\ \A s \in Syms : Header[s] \in Functions \cup Variables
    /\ Syms = Imports \cup Exports /\ Imports \cap Exports = {}
    /\ IsFiniteSet(Imports) /\ IsFiniteSet(Exports)
    /\ Imports \in SUBSET Int /\ Exports \in SUBSET Int
<1>1. Syms = 1..Len(Header) /\ Len(Header) \in Nat
  BY WasmAssumption, LenProperties DEF Syms
<1>2. IsFiniteSet(Syms)
  BY <1>1, FS_Interval
<1>3. \A s \in Syms : Header[s] \in Functions \cup Variables
  BY <1>1, WasmAssumption, ElementOfSeq
<1>4. \A s \in Syms : Header[s].role \in {"import", "export"}
  BY <1>3 DEF Functions, Variables
<1>5. Syms = Imports \cup Exports /\ Imports \cap Exports = {}
  BY <1>4 DEF Imports, Exports
<1>6. Imports \in SUBSET Syms /\ Exports \in SUBSET Syms
  BY DEF Imports, Exports
<1>7. IsFiniteSet(Imports) /\ IsFiniteSet(Exports)
  BY <1>2, <1>6, FS_Subset
<1> QED
  BY <1>1, <1>2, <1>3, <1>5, <1>6, <1>7

\* Every import has an index of its own, and every index below the total an import.
LEMMA ImportIndices ==
    /\ TOTAL_IMPORTS \in Nat
    /\ \A s \in Imports : importidx(s) \in 0..(TOTAL_IMPORTS - 1)
    /\ \A s, t \in Imports : importidx(s) = importidx(t) => s = t
    /\ \A k \in 0..(TOTAL_IMPORTS - 1) : \E s \in Imports : importidx(s) = k
<1>1. \A s \in Imports : importidx(s) = Rank(Imports, s)
  BY DEF importidx, Rank
<1> QED
  BY <1>1, SymFacts, RankProperties DEF TOTAL_IMPORTS

\* The same for exports.
LEMMA ExportIndices ==
    /\ TOTAL_EXPORTS \in Nat
    /\ \A s \in Exports : exportidx(s) \in 0..(TOTAL_EXPORTS - 1)
    /\ \A s, t \in Exports : exportidx(s) = exportidx(t) => s = t
    /\ \A k \in 0..(TOTAL_EXPORTS - 1) : \E s \in Exports : exportidx(s) = k
<1>1. \A s \in Exports : exportidx(s) = Rank(Exports, s)
  BY DEF exportidx, Rank
<1> QED
  BY <1>1, SymFacts, RankProperties DEF TOTAL_EXPORTS

\* An import or export is found under its index.
LEMMA FoundAt ==
    /\ \A k \in 0..(TOTAL_IMPORTS - 1) :
          /\ ImportAt(k) # {} /\ The(ImportAt(k)) \in Imports
          /\ importidx(The(ImportAt(k))) = k
    /\ \A k \in 0..(TOTAL_EXPORTS - 1) :
          /\ ExportAt(k) # {} /\ The(ExportAt(k)) \in Exports
          /\ exportidx(The(ExportAt(k))) = k
<1>1. ASSUME NEW k \in 0..(TOTAL_IMPORTS - 1)
      PROVE  ImportAt(k) # {} /\ The(ImportAt(k)) \in ImportAt(k)
  <2>1. PICK s \in Imports : importidx(s) = k
    BY ImportIndices
  <2> QED
    BY <2>1 DEF ImportAt, The
<1>2. ASSUME NEW k \in 0..(TOTAL_EXPORTS - 1)
      PROVE  ExportAt(k) # {} /\ The(ExportAt(k)) \in ExportAt(k)
  <2>1. PICK s \in Exports : exportidx(s) = k
    BY ExportIndices
  <2> QED
    BY <2>1 DEF ExportAt, The
<1> QED
  BY <1>1, <1>2 DEF ImportAt, ExportAt

\* In the common numbering of the call infos too no index stands for two symbols.
LEMMA CallinfoFound ==
    ASSUME NEW s \in Syms
    PROVE  TOTALINDEX(s) \in CallinfoIds /\ CallinfoOf(TOTALINDEX(s)) = Header[s]
<1>1. ASSUME NEW t \in Syms, TOTALINDEX(t) = TOTALINDEX(s) PROVE t = s
  <2>1. \A u \in Syms : u \in Imports \/ (u \in Exports /\ u \notin Imports)
    BY SymFacts
  <2>2. \A u \in Imports : TOTALINDEX(u) = importidx(u)
    BY DEF TOTALINDEX, TOTALINDEX_IMPORT
  <2>3. \A u \in Exports : u \notin Imports => TOTALINDEX(u) = exportidx(u) + TOTAL_IMPORTS
    BY DEF TOTALINDEX, TOTALINDEX_EXPORT
  <2>4. CASE s \in Imports /\ t \in Imports
    BY <1>1, <2>2, <2>4, ImportIndices
  <2>5. CASE s \notin Imports /\ t \notin Imports
    <3>1. s \in Exports /\ t \in Exports
      BY <2>1, <2>5
    <3>2. exportidx(s) + TOTAL_IMPORTS = exportidx(t) + TOTAL_IMPORTS
      BY <1>1, <2>3, <2>5, <3>1
    <3>3. exportidx(s) = exportidx(t)
      BY <3>1, <3>2, ExportIndices, ImportIndices
    <3> QED
      BY <3>1, <3>3, ExportIndices
  <2>6. ASSUME NEW u \in Imports, NEW v \in Exports, v \notin Imports
        PROVE  TOTALINDEX(u) # TOTALINDEX(v)
    <3>1. importidx(u) \in 0..(TOTAL_IMPORTS - 1) /\ TOTAL_IMPORTS \in Nat
          /\ exportidx(v) \in 0..(TOTAL_EXPORTS - 1) /\ TOTAL_EXPORTS \in Nat
      BY ImportIndices, ExportIndices
    <3>2. TOTALINDEX(u) = importidx(u) /\ TOTALINDEX(v) = exportidx(v) + TOTAL_IMPORTS
      BY <2>2, <2>3, <2>6
    <3> QED
      BY <3>1, <3>2
  <2> QED
    BY <1>1, <2>1, <2>4, <2>5, <2>6
<1>2. TOTALINDEX(s) \in CallinfoIds
  BY DEF CallinfoIds
<1> DEFINE u == CHOOSE t \in Syms : TOTALINDEX(t) = TOTALINDEX(s)
<1>3. u \in Syms /\ TOTALINDEX(u) = TOTALINDEX(s)
  OBVIOUS
<1>4. CallinfoOf(TOTALINDEX(s)) = Header[u]
  BY DEF CallinfoOf
<1> HIDE DEF u
<1> QED
  BY <1>1, <1>2, <1>3, <1>4

-----------------------------------------------------------------------------
(* Types.                                                                  *)

\* The types are numbered without gaps, and each index has a signature.
LEMMA TypesFound ==
    /\ TOTAL_TYPES \in Nat \ {0}
    /\ TypeIds = 0..(TOTAL_TYPES - 1)
    /\ \A k \in TypeIds : TypeAt(k) \in Signatures
<1>1. DOMAIN FuncTypes = 1..Len(FuncTypes) /\ Len(FuncTypes) \in Nat
      /\ \A i \in DOMAIN FuncTypes : FuncTypes[i] \in Signatures
  BY WasmAssumption, LenProperties, ElementOfSeq
<1>2. NewTypes \in SUBSET DOMAIN FuncTypes
  BY DEF NewTypes
<1>3. IsFiniteSet(NewTypes) /\ NewTypes \in SUBSET Int
  <2>1. IsFiniteSet(DOMAIN FuncTypes)
    BY <1>1, FS_Interval
  <2> QED
    BY <1>1, <1>2, <2>1, FS_Subset
<1>4. \A i \in NewTypes : TYPE_IDX(i) = 1 + Rank(NewTypes, i)
  BY DEF TYPE_IDX, Rank
<1> DEFINE n == Cardinality(NewTypes)
<1>5. /\ n \in Nat
      /\ \A i \in NewTypes : Rank(NewTypes, i) \in 0..(n - 1)
      /\ \A k \in 0..(n - 1) : \E i \in NewTypes : Rank(NewTypes, i) = k
  BY <1>3, RankProperties
<1>6. TOTAL_TYPES = 1 + n
  BY DEF TOTAL_TYPES
<1> HIDE DEF n
<1>7. ASSUME NEW k \in TypeIds PROVE k \in 0..n
  BY <1>4, <1>5 DEF TypeIds
<1>8. ASSUME NEW k \in 0..n PROVE k \in TypeIds
  <2>1. CASE k = 0
    BY <2>1 DEF TypeIds
  <2>2. CASE k # 0
    <3>1. k - 1 \in 0..(n - 1)
      BY <1>5, <2>2
    <3>2. PICK i \in NewTypes : Rank(NewTypes, i) = k - 1
      BY <1>5, <3>1
    <3>3. TYPE_IDX(i) = k
      BY <1>4, <3>2
    <3> QED
      BY <3>3 DEF TypeIds
  <2> QED
    BY <2>1, <2>2
<1>9. ASSUME NEW k \in TypeIds PROVE TypeAt(k) \in Signatures
  <2>1. CASE k = 0
    BY <2>1 DEF TypeAt, NoArgs, Signatures, Results
  <2>2. CASE k # 0
    <3>1. \E i \in NewTypes : TYPE_IDX(i) = k
      BY <2>2 DEF TypeIds
    <3>2. (CHOOSE i \in NewTypes : TYPE_IDX(i) = k) \in NewTypes
      BY <3>1
    <3> QED
      BY <1>1, <1>2, <2>2, <3>2 DEF TypeAt
  <2> QED
    BY <2>1, <2>2
<1>10. TypeIds = 0..n
  BY <1>7, <1>8
<1> QED
  BY <1>5, <1>6, <1>9, <1>10

\* The types of a function are known to the stubs and have the codes of the header.
LEMMA SignatureTypes ==
    ASSUME NEW sig, sig.in \in Seq(WasmTypes), sig.out \in Results
    PROVE  /\ sig.in \in Seq(Types) /\ sig.out \in Seq(Types)
           /\ WasmCodes(sig.in) = Codes(sig.in) /\ WasmCodes(sig.out) = Codes(sig.out)
           /\ Len(sig.out) \in {0, 1}
<1>1. \A t \in WasmTypes : WasmCode(t) = CITYPE(t)
  BY DEF WasmCode, WasmTypes
<1>2. DOMAIN TypeOrder = 1..13 /\ TypeOrder[1] = "u32" /\ TypeOrder[2] = "u64"
      /\ TypeOrder[3] = "f32" /\ TypeOrder[4] = "f64"
  BY DEF TypeOrder
<1>3. WasmTypes \subseteq Types
  BY <1>2 DEF WasmTypes, Types
<1>4. sig.out \in Seq(WasmTypes) /\ Len(sig.out) \in {0, 1}
  <2>1. CASE sig.out = <<>>
    BY <2>1
  <2>2. CASE sig.out # <<>>
    <3>1. PICK t \in WasmTypes : sig.out = <<t>>
      BY <2>2 DEF Results
    <3>2. <<t>> \in Seq(WasmTypes) /\ Len(<<t>>) = 1
      OBVIOUS
    <3> QED
      BY <3>1, <3>2
  <2> QED
    BY <2>1, <2>2
<1>5. ASSUME NEW ts \in Seq(WasmTypes) PROVE ts \in Seq(Types) /\ WasmCodes(ts) = Codes(ts)
  <2>1. DOMAIN ts = 1..Len(ts) /\ \A i \in DOMAIN ts : ts[i] \in WasmTypes
    BY LenProperties, ElementOfSeq
  <2>2. ts \in Seq(Types)
    BY <1>3, SeqMonotonic
  <2> QED
    BY <1>1, <2>1, <2>2 DEF WasmCodes, Codes
<1> QED
  BY <1>4, <1>5
=============================================================================

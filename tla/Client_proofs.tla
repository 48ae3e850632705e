--------------------------- MODULE Client_proofs ---------------------------
(* Proofs about Client, for every library: stub tables, headers, types and *)
(* buffer sizes.  The inductive invariant has four parts: what dynamic     *)
(* linking has reported, what the program has learned so far, what it has  *)
(* linked, and what the last call left behind.                             *)
EXTENDS Client, WasmBridge_proofs

-----------------------------------------------------------------------------
(* The inductive invariant.                                                *)

DlInv == DlTypeOK /\ GetReportsItself

Phases == {"load", "ask", "use", "abort", "crash"}
PhaseInv == /\ phase \in Phases /\ kind \in {"none", "stub", "wasm"}
            /\ (kind = "none") <=> (phase = "load")

\* The counts are those of the library; nothing has been asked before it is loaded.
StubCounts == [exports |-> Len(Apis), imports |-> 0, types |-> 0]
WasmCounts == [exports |-> TOTAL_EXPORTS, imports |-> TOTAL_IMPORTS, types |-> TOTAL_TYPES]
CountsInv == /\ kind = "none" => counts = NoCounts /\ next = 0 /\ ask = NoAsk /\ names = <<>>
             /\ kind = "stub" => counts = StubCounts
             /\ kind = "wasm" => counts = WasmCounts

\* The questions are over when the program begins to use the library.
NextInv == /\ next \in Nat
           /\ phase = "ask" => next < Total
           /\ phase \in {"use", "abort", "crash"} => next = Total

\* The symbol and the address behind the n-th object of a WebAssembly module.
SymOf(n) == IF n < TOTAL_EXPORTS THEN The(ExportAt(n)) ELSE The(ImportAt(n - TOTAL_EXPORTS))
TypeOf(n) == n - TOTAL_EXPORTS - TOTAL_IMPORTS
AddrOf(n) == IF n < TOTAL_EXPORTS THEN ExportValue(SymOf(n))
             ELSE IF n < TOTAL_EXPORTS + TOTAL_IMPORTS THEN Import(SymOf(n))
             ELSE TypeStub(TypeOf(n))

\* A question in progress is about the next object, with a buffer of the right size.
AskInv ==
    phase = "ask" =>
      \/ ask.fn = "none"
      \/ /\ ask.fn = "arg_info" /\ kind = "stub" /\ next < Len(Apis)
         /\ ask.idx = next /\ ask.addr = Stub(next) /\ ask.wrote = 0
         /\ ask.room = 3 + Len(Api(next).in) + Len(Api(next).out)
      \/ /\ ask.fn \in {"counts", "types"} /\ kind = "wasm"
         /\ next < TOTAL_EXPORTS + TOTAL_IMPORTS
         /\ ask.idx = TOTALINDEX(SymOf(next)) /\ ask.addr = AddrOf(next) /\ ask.wrote = 0
         /\ ask.fn = "types" =>
               ask.room = 3 + Len(Header[SymOf(next)].in) + Len(Header[SymOf(next)].out)
      \/ /\ ask.fn = "type" /\ kind = "wasm" /\ next >= TOTAL_EXPORTS + TOTAL_IMPORTS
         /\ ask.idx = TypeOf(next) /\ ask.wrote = 0
         /\ ask.room = 4 + Len(TypeAt(TypeOf(next)).in) + Len(TypeAt(TypeOf(next)).out)

\* The names of the imports asked for, each under its index.
Named == IF next < counts.exports THEN 0
         ELSE IF next < counts.exports + counts.imports
           THEN next - counts.exports + (IF ask.fn = "none" THEN 0 ELSE 1)
         ELSE counts.imports
NamesInv == /\ names \in Seq(Imports) /\ Len(names) = Named
            /\ \A i \in 1..Len(names) : importidx(names[i]) = i - 1

\* The objects behind next have been described.
LearnedInv == \A n \in 0..(next - 1) : /\ kind = "stub" => Stub(n) \in DOMAIN learned
                                       /\ kind = "wasm" => AddrOf(n) \in DOMAIN learned

LearnInv == /\ PhaseInv /\ CountsInv /\ NextInv /\ AskInv /\ NamesInv /\ LearnedInv
            /\ LearnedIsDeclared /\ AnswersFit

LinkInv == /\ WasmTypeOK
           /\ given \in [Imports -> Contexts \cup {NotGiven}]
           /\ \A s \in Imports : given[s] # NotGiven => given[s].sym = s
           /\ RightImport
           /\ running \subseteq ExportFuncs
           /\ running # {} => kind = "wasm"

CallInv == ValuesArrive /\ NoNullUse

IInv == DlInv /\ LearnInv /\ LinkInv /\ CallInv

-----------------------------------------------------------------------------
(* What the program reads from an answer about types.                      *)

\* A header of cells, the codes of the arguments, the codes of the results, in a buffer of
\* their size.
Description(head, ins, outs) ==
    Answer(Len(head) + Len(ins) + Len(outs), head \o (ins \o outs))

\* A buffer of the size of an answer gives back its three parts.
LEMMA ReadDescription ==
    ASSUME NEW S, NEW head \in Seq(S), NEW ins \in Seq(S), NEW outs \in Seq(S)
    PROVE  /\ Len(head \o (ins \o outs)) = Len(head) + Len(ins) + Len(outs)
           /\ \A i \in 1..Len(head) : Peek(Description(head, ins, outs), i) = head[i]
           /\ Slice(Description(head, ins, outs), Len(head), Len(ins)) = ins
           /\ Slice(Description(head, ins, outs), Len(head) + Len(ins), Len(outs)) = outs
<1> DEFINE room == Len(head) + Len(ins) + Len(outs)
           cells == head \o (ins \o outs)
           buf == Answer(room, cells)
<1> DEFINE tail == ins \o outs
<1> HIDE DEF cells, buf
<1>1. /\ Len(head) \in Nat /\ Len(ins) \in Nat /\ Len(outs) \in Nat
      /\ DOMAIN ins = 1..Len(ins) /\ DOMAIN outs = 1..Len(outs)
  BY LenProperties
<1>2. /\ tail \in Seq(S) /\ Len(tail) = Len(ins) + Len(outs)
      /\ \A i \in 1..(Len(ins) + Len(outs)) :
            tail[i] = IF i <= Len(ins) THEN ins[i] ELSE outs[i - Len(ins)]
  BY ConcatProperties
<1> HIDE DEF tail
<1>3. /\ cells \in Seq(S) /\ Len(cells) = room
      /\ \A i \in 1..room : cells[i] = IF i <= Len(head) THEN head[i] ELSE tail[i - Len(head)]
  <2>1. cells = head \o tail /\ Len(head) + Len(tail) = room
    BY <1>1, <1>2 DEF tail, cells
  <2>2. /\ head \o tail \in Seq(S) /\ Len(head \o tail) = Len(head) + Len(tail)
        /\ \A i \in 1..(Len(head) + Len(tail)) :
              (head \o tail)[i] = IF i <= Len(head) THEN head[i] ELSE tail[i - Len(head)]
    <3>1. tail \in Seq(S)
      BY <1>2
    <3> QED
      BY <3>1, ConcatProperties
  <2> QED
    BY <2>1, <2>2
<1>4. DOMAIN cells = 1..room /\ room \in Nat
  BY <1>1, <1>3, LenProperties
<1>5. \A i \in 1..room : Peek(buf, i) = cells[i]
  <2>1. /\ DOMAIN buf = 1..room
        /\ \A i \in 1..room : buf[i] = IF i \in DOMAIN cells THEN cells[i] ELSE Junk
    BY DEF Answer, buf
  <2> HIDE DEF room
  <2> QED
    BY <1>4, <2>1 DEF Peek
<1>6. \A i \in 1..Len(head) : Peek(buf, i) = head[i]
  <2> TAKE i \in 1..Len(head)
  <2>1. i \in 1..room /\ i <= Len(head)
    BY <1>1
  <2> QED
    BY <1>3, <1>5, <2>1
<1>7. \A i \in 1..Len(ins) : Peek(buf, Len(head) + i) = ins[i]
  <2> TAKE i \in 1..Len(ins)
  <2>1. /\ Len(head) + i \in 1..room /\ ~(Len(head) + i <= Len(head))
        /\ Len(head) + i - Len(head) = i /\ i <= Len(ins) /\ i \in 1..(Len(ins) + Len(outs))
    BY <1>1
  <2> QED
    BY <1>2, <1>3, <1>5, <2>1
<1>8. \A i \in 1..Len(outs) : Peek(buf, Len(head) + Len(ins) + i) = outs[i]
  <2> TAKE i \in 1..Len(outs)
  <2> DEFINE k == Len(head) + Len(ins) + i
             j == Len(ins) + i
  <2>1. /\ k \in 1..room /\ ~(k <= Len(head)) /\ k - Len(head) = j
        /\ j \in 1..(Len(ins) + Len(outs)) /\ ~(j <= Len(ins)) /\ j - Len(ins) = i
    BY <1>1
  <2> HIDE DEF k, j
  <2>2. Peek(buf, k) = tail[j]
    BY <1>3, <1>5, <2>1
  <2>3. tail[j] = outs[i]
    BY <1>2, <2>1
  <2> QED
    BY <2>2, <2>3 DEF k
<1>9. Slice(buf, Len(head), Len(ins)) = ins
  BY <1>1, <1>7 DEF Slice
<1>10. Slice(buf, Len(head) + Len(ins), Len(outs)) = outs
  BY <1>1, <1>8 DEF Slice
<1> QED
  BY <1>3, <1>6, <1>9, <1>10 DEF Description, cells, buf

\* The functions of a stub library have types, and one result at most.
LEMMA ApiFacts ==
    /\ Len(Apis) \in Nat \ {0} /\ ApiIds = 0..(Len(Apis) - 1)
    /\ \A id \in ApiIds : /\ Api(id).in \in Seq(Types) /\ Api(id).out \in Seq(Types)
                          /\ Len(Api(id).out) \in {0, 1}
<1> DEFINE Outs == {<<>>} \cup {<<t>> : t \in Types}
           R == [in : Seq(Types), out : Outs]
<1>1. Apis \in Seq(R) /\ Apis # <<>>
  BY ApisAssumption, ClientAssumption
<1>2. \A o \in Outs : o \in Seq(Types) /\ Len(o) \in {0, 1}
  <2> TAKE o \in Outs
  <2>1. CASE o = <<>>
    BY <2>1
  <2>2. CASE o # <<>>
    <3>1. PICK t \in Types : o = <<t>>
      BY <2>2
    <3>2. <<t>> \in Seq(Types) /\ Len(<<t>>) = 1
      OBVIOUS
    <3> QED
      BY <3>1, <3>2
  <2> QED
    BY <2>1, <2>2
<1> HIDE DEF Outs
<1>3. \A r \in R : r.in \in Seq(Types) /\ r.out \in Outs
  OBVIOUS
<1> HIDE DEF R
<1>4. Len(Apis) \in Nat \ {0}
  BY <1>1, EmptySeq
<1>5. \A id \in 0..(Len(Apis) - 1) : Apis[id + 1] \in R
  BY <1>1, <1>4, ElementOfSeq
<1> QED
  BY <1>2, <1>3, <1>4, <1>5 DEF ApiIds, Api

\* The three operations of a dispatch function.
LEMMA StubAnswers ==
    /\ stub_dispatch(1, 0) = library_info
    /\ \A id : stub_dispatch(2, id) = library_export_info(id)
    /\ \A id : stub_dispatch(6, id) = library_arg_info(id)
BY DEF stub_dispatch

\* What AskTypes takes from a buffer with the two counts in the cells head - 1 and head.
Told(buf, head) == [in |-> Slice(buf, head, Peek(buf, head - 1)),
                    out |-> Slice(buf, head + Peek(buf, head - 1), Peek(buf, head))]

\* With the two counts at the end of its header, an answer is read as it was written.
LEMMA ToldDescription ==
    ASSUME NEW S, NEW head \in Seq(S), NEW ins \in Seq(S), NEW outs \in Seq(S),
           Len(head) \in {3, 4},
           head[Len(head) - 1] = Len(ins), head[Len(head)] = Len(outs)
    PROVE  /\ Told(Description(head, ins, outs), Len(head)) = [in |-> ins, out |-> outs]
           /\ Peek(Description(head, ins, outs), 2) = head[2]
           /\ Len(head \o (ins \o outs)) = Len(head) + Len(ins) + Len(outs)
<1> DEFINE buf == Description(head, ins, outs)
<1>1. /\ Len(head \o (ins \o outs)) = Len(head) + Len(ins) + Len(outs)
      /\ \A i \in 1..Len(head) : Peek(buf, i) = head[i]
      /\ Slice(buf, Len(head), Len(ins)) = ins
      /\ Slice(buf, Len(head) + Len(ins), Len(outs)) = outs
  BY ReadDescription
<1> HIDE DEF buf
<1>2. Len(head) - 1 \in 1..Len(head) /\ Len(head) \in 1..Len(head) /\ 2 \in 1..Len(head)
  <2> DEFINE k == Len(head)
  <2>1. k \in {3, 4}
    OBVIOUS
  <2> HIDE DEF k
  <2>2. k - 1 \in 1..k /\ k \in 1..k /\ 2 \in 1..k
    BY <2>1
  <2> QED
    BY <2>2 DEF k
<1>3. Peek(buf, Len(head) - 1) = Len(ins) /\ Peek(buf, Len(head)) = Len(outs)
  BY <1>1, <1>2
<1> QED
  BY <1>1, <1>2, <1>3 DEF Told, buf

\* A stub library describes a function by the types of its nccc_api() line.
LEMMA StubDescription ==
    ASSUME NEW id \in ApiIds
    PROVE  /\ Len(stub_dispatch(6, id)) = 3 + Len(Api(id).in) + Len(Api(id).out)
           /\ Told(Answer(3 + Len(Api(id).in) + Len(Api(id).out), stub_dispatch(6, id)), 3)
                = [in |-> Codes(Api(id).in), out |-> Codes(Api(id).out)]
<1> DEFINE ins == Codes(Api(id).in)
           outs == Codes(Api(id).out)
           n == Len(Api(id).in)
           m == Len(Api(id).out)
           room == 3 + n + m
           head == <<0, n, m>>
<1>1. Api(id).in \in Seq(Types) /\ Api(id).out \in Seq(Types)
  BY ApiFacts
<1>2. /\ ins \in Seq(0..12) /\ outs \in Seq(0..12) /\ Len(ins) = n /\ Len(outs) = m
      /\ n \in Nat /\ m \in Nat
  BY <1>1, CodesType, LenProperties
<1>3. ins \in Seq(Nat) /\ outs \in Seq(Nat)
  BY <1>1, CodesNumbers
<1>4. stub_dispatch(6, id) = head \o (ins \o outs)
  BY StubAnswers DEF library_arg_info
<1>5. /\ head \in Seq(Nat) /\ Len(head) = 3
      /\ head[2] = n /\ head[3] = m /\ Len(head) - 1 = 2
  BY <1>2
<1> HIDE DEF ins, outs, head
<1>6. /\ Told(Description(head, ins, outs), 3) = [in |-> ins, out |-> outs]
      /\ Len(head \o (ins \o outs)) = Len(head) + Len(ins) + Len(outs)
  <2>1. head \in Seq(Nat) /\ ins \in Seq(Nat) /\ outs \in Seq(Nat)
    BY <1>3, <1>5
  <2>2. Len(head) \in {3, 4} /\ head[Len(head) - 1] = Len(ins) /\ head[Len(head)] = Len(outs)
    BY <1>2, <1>5
  <2>3. /\ Told(Description(head, ins, outs), Len(head)) = [in |-> ins, out |-> outs]
        /\ Len(head \o (ins \o outs)) = Len(head) + Len(ins) + Len(outs)
    BY <2>1, <2>2, ToldDescription
  <2> QED
    BY <1>5, <2>3
<1>7. Answer(room, stub_dispatch(6, id)) = Description(head, ins, outs)
  BY <1>2, <1>4, <1>5 DEF Description
<1> QED
  BY <1>2, <1>4, <1>5, <1>6, <1>7 DEF ins, outs

\* The codes of a symbol: those of its types, and negative ones for memories and tables.
LEMMA HeaderCodes ==
    ASSUME NEW s \in Syms
    PROVE  /\ WasmCodes(Header[s].in) \in Seq(Int) /\ WasmCodes(Header[s].out) \in Seq(Int)
           /\ Len(WasmCodes(Header[s].in)) = Len(Header[s].in)
           /\ Len(WasmCodes(Header[s].out)) = Len(Header[s].out)
           /\ Len(Header[s].in) \in Nat /\ Len(Header[s].out) \in {0, 1}
<1>1. CASE Header[s] \in Functions
  <2>1. Header[s].in \in Seq(WasmTypes) /\ Header[s].out \in Results
    BY <1>1 DEF Functions
  <2>2. /\ Header[s].in \in Seq(Types) /\ Header[s].out \in Seq(Types)
        /\ WasmCodes(Header[s].in) = Codes(Header[s].in)
        /\ WasmCodes(Header[s].out) = Codes(Header[s].out)
        /\ Len(Header[s].out) \in {0, 1}
    BY <2>1, SignatureTypes
  <2>3. /\ Codes(Header[s].in) \in Seq(0..12) /\ Codes(Header[s].out) \in Seq(0..12)
        /\ Len(Codes(Header[s].in)) = Len(Header[s].in)
        /\ Len(Codes(Header[s].out)) = Len(Header[s].out)
    BY <2>2, CodesType
  <2>4. Codes(Header[s].in) \in Seq(Int) /\ Codes(Header[s].out) \in Seq(Int)
    BY <2>2, CodesNumbers
  <2> QED
    BY <2>2, <2>3, <2>4, LenProperties
<1>2. CASE Header[s] \in Variables
  <2>1. Header[s].in = <<>>
    BY <1>2 DEF Variables
  <2>2. PICK t \in WasmTypes \cup {"wasm_rt_memory_t", "wasm_rt_table_t"} : Header[s].out = <<t>>
    BY <1>2 DEF Variables
  <2>3. WasmTypes \subseteq Types
    <3>1. DOMAIN TypeOrder = 1..13 /\ TypeOrder[1] = "u32" /\ TypeOrder[2] = "u64"
          /\ TypeOrder[3] = "f32" /\ TypeOrder[4] = "f64"
      BY DEF TypeOrder
    <3> QED
      BY <3>1 DEF WasmTypes, Types
  <2>4. WasmCode(t) \in Int
    BY <2>2, <2>3, TypeOfCode DEF WasmCode
  <2>5. WasmCodes(<<t>>) = <<WasmCode(t)>> /\ WasmCodes(<<>>) = <<>>
    BY DEF WasmCodes
  <2>6. /\ <<WasmCode(t)>> \in Seq(Int) /\ Len(<<WasmCode(t)>>) = 1 /\ Len(<<t>>) = 1
        /\ <<>> \in Seq(Int) /\ Len(<<>>) = 0
    BY <2>4
  <2>7. WasmCodes(Header[s].in) \in Seq(Int) /\ Len(WasmCodes(Header[s].in)) = Len(Header[s].in)
        /\ Len(Header[s].in) \in Nat
    BY <2>1, <2>5, <2>6
  <2>8. WasmCodes(Header[s].out) \in Seq(Int) /\ Len(WasmCodes(Header[s].out)) = Len(Header[s].out)
        /\ Len(Header[s].out) \in {0, 1}
    BY <2>2, <2>5, <2>6
  <2> QED
    BY <2>7, <2>8
<1> QED
  BY <1>1, <1>2, SymFacts

\* The codes of a function type.
LEMMA SignatureCodes ==
    ASSUME NEW sig \in Signatures
    PROVE  /\ WasmCodes(sig.in) \in Seq(Int) /\ WasmCodes(sig.out) \in Seq(Int)
           /\ Len(WasmCodes(sig.in)) = Len(sig.in) /\ Len(WasmCodes(sig.out)) = Len(sig.out)
           /\ Len(sig.in) \in Nat /\ Len(sig.out) \in {0, 1}
<1>1. sig.in \in Seq(WasmTypes) /\ sig.out \in Results
  BY DEF Signatures
<1>2. /\ sig.in \in Seq(Types) /\ sig.out \in Seq(Types)
      /\ WasmCodes(sig.in) = Codes(sig.in) /\ WasmCodes(sig.out) = Codes(sig.out)
      /\ Len(sig.out) \in {0, 1}
  BY <1>1, SignatureTypes
<1>3. /\ Codes(sig.in) \in Seq(0..12) /\ Codes(sig.out) \in Seq(0..12)
      /\ Len(Codes(sig.in)) = Len(sig.in) /\ Len(Codes(sig.out)) = Len(sig.out)
  BY <1>2, CodesType
<1>4. Codes(sig.in) \in Seq(Int) /\ Codes(sig.out) \in Seq(Int)
  BY <1>2, CodesNumbers
<1> QED
  BY <1>2, <1>3, <1>4, LenProperties

\* The bridge describes a symbol, under its index in the common numbering, by its declaration.
LEMMA SymbolDescription ==
    ASSUME NEW s \in Syms
    PROVE  /\ Len(callinfo_get_types(TOTALINDEX(s))) = 3 + Len(Header[s].in) + Len(Header[s].out)
           /\ Told(Answer(3 + Len(Header[s].in) + Len(Header[s].out),
                          callinfo_get_types(TOTALINDEX(s))), 3)
                = [in |-> WasmCodes(Header[s].in), out |-> WasmCodes(Header[s].out)]
<1> DEFINE ins == WasmCodes(Header[s].in)
           outs == WasmCodes(Header[s].out)
           n == Len(Header[s].in)
           m == Len(Header[s].out)
           room == 3 + n + m
           head == <<0, n, m>>
<1>1. /\ ins \in Seq(Int) /\ outs \in Seq(Int) /\ Len(ins) = n /\ Len(outs) = m
      /\ n \in Nat /\ m \in Nat
  BY HeaderCodes
<1>2. callinfo_get_types(TOTALINDEX(s)) = head \o (ins \o outs)
  BY CallinfoFound DEF callinfo_get_types, Counts, TypeCodes
<1>3. head \in Seq(Int) /\ Len(head) = 3 /\ head[2] = n /\ head[3] = m /\ Len(head) - 1 = 2
  BY <1>1
<1> HIDE DEF ins, outs, head
<1>5. /\ Told(Description(head, ins, outs), 3) = [in |-> ins, out |-> outs]
      /\ Len(head \o (ins \o outs)) = Len(head) + Len(ins) + Len(outs)
  <2>1. head \in Seq(Int) /\ ins \in Seq(Int) /\ outs \in Seq(Int)
    BY <1>1, <1>3
  <2>2. Len(head) \in {3, 4} /\ head[Len(head) - 1] = Len(ins) /\ head[Len(head)] = Len(outs)
    BY <1>1, <1>3
  <2>3. /\ Told(Description(head, ins, outs), Len(head)) = [in |-> ins, out |-> outs]
        /\ Len(head \o (ins \o outs)) = Len(head) + Len(ins) + Len(outs)
    BY <2>1, <2>2, ToldDescription
  <2> QED
    BY <1>3, <2>3
<1>6. Answer(room, callinfo_get_types(TOTALINDEX(s))) = Description(head, ins, outs)
  BY <1>1, <1>2, <1>3 DEF Description
<1> QED
  BY <1>1, <1>2, <1>3, <1>5, <1>6 DEF ins, outs

\* It describes a function type by its signature, with the stub to call it through.
LEMMA TypeDescription ==
    ASSUME NEW k \in TypeIds
    PROVE  /\ Len(typebridge_get_types(k)) = 4 + Len(TypeAt(k).in) + Len(TypeAt(k).out)
           /\ Peek(Answer(4 + Len(TypeAt(k).in) + Len(TypeAt(k).out), typebridge_get_types(k)), 2)
                = TypeStub(k)
           /\ Told(Answer(4 + Len(TypeAt(k).in) + Len(TypeAt(k).out), typebridge_get_types(k)), 4)
                = [in |-> WasmCodes(TypeAt(k).in), out |-> WasmCodes(TypeAt(k).out)]
<1> DEFINE ins == WasmCodes(TypeAt(k).in)
           outs == WasmCodes(TypeAt(k).out)
           n == Len(TypeAt(k).in)
           m == Len(TypeAt(k).out)
           room == 4 + n + m
           stub == TypeStub(k)
           S == Int \cup {stub}
           head == <<0, stub, n, m>>
<1>1. /\ ins \in Seq(Int) /\ outs \in Seq(Int) /\ Len(ins) = n /\ Len(outs) = m
      /\ n \in Nat /\ m \in Nat
  BY SignatureCodes, TypesFound
<1>2. typebridge_get_types(k) = head \o (ins \o outs)
  BY DEF typebridge_get_types, TypeCodes
<1> HIDE DEF stub
<1>3. ins \in Seq(S) /\ outs \in Seq(S)
  BY <1>1, SeqMonotonic
<1>4. /\ head \in Seq(S) /\ Len(head) = 4
      /\ head[2] = stub /\ head[3] = n /\ head[4] = m /\ Len(head) - 1 = 3
  BY <1>1
<1> HIDE DEF ins, outs, head, S
<1>6. /\ Told(Description(head, ins, outs), 4) = [in |-> ins, out |-> outs]
      /\ Peek(Description(head, ins, outs), 2) = stub
      /\ Len(head \o (ins \o outs)) = Len(head) + Len(ins) + Len(outs)
  <2>1. head \in Seq(S) /\ ins \in Seq(S) /\ outs \in Seq(S)
    BY <1>3, <1>4
  <2>2. Len(head) \in {3, 4} /\ head[Len(head) - 1] = Len(ins) /\ head[Len(head)] = Len(outs)
    BY <1>1, <1>4
  <2>3. /\ Told(Description(head, ins, outs), Len(head)) = [in |-> ins, out |-> outs]
        /\ Peek(Description(head, ins, outs), 2) = head[2]
        /\ Len(head \o (ins \o outs)) = Len(head) + Len(ins) + Len(outs)
    BY <2>1, <2>2, ToldDescription
  <2> QED
    BY <1>4, <2>3
<1>7. Answer(room, typebridge_get_types(k)) = Description(head, ins, outs)
  BY <1>1, <1>2, <1>4 DEF Description
<1> QED
  BY <1>1, <1>2, <1>4, <1>6, <1>7 DEF ins, outs, stub

-----------------------------------------------------------------------------
(* The answers to the questions keep LearnInv.                             *)

\* How many objects there are, by kind of library.
LEMMA Totals ==
    ASSUME PhaseInv, CountsInv
    PROVE  /\ kind = "stub" => Total = Len(Apis)
           /\ kind = "wasm" => Total = TOTAL_EXPORTS + TOTAL_IMPORTS + TOTAL_TYPES
           /\ kind = "none" => Total = 0
           /\ Total \in Nat
<1>1. Len(Apis) \in Nat /\ TOTAL_EXPORTS \in Nat /\ TOTAL_IMPORTS \in Nat /\ TOTAL_TYPES \in Nat
  BY ApiFacts, ImportIndices, ExportIndices, TypesFound
<1>2. CASE kind = "stub"
  BY <1>1, <1>2 DEF CountsInv, StubCounts, Total
<1>3. CASE kind = "wasm"
  BY <1>1, <1>3 DEF CountsInv, WasmCounts, Total
<1>4. CASE kind = "none"
  BY <1>4 DEF CountsInv, NoCounts, Total
<1> QED
  BY <1>2, <1>3, <1>4 DEF PhaseInv

\* What an object behind the counters is.
LEMMA SymOfNext ==
    ASSUME NEW n \in 0..(TOTAL_EXPORTS + TOTAL_IMPORTS - 1)
    PROVE  /\ SymOf(n) \in Syms
           /\ n < TOTAL_EXPORTS => /\ SymOf(n) = The(ExportAt(n)) /\ SymOf(n) \in Exports
                                   /\ exportidx(SymOf(n)) = n /\ AddrOf(n) = ExportValue(SymOf(n))
                                   /\ TOTALINDEX(SymOf(n)) = TOTALINDEX_EXPORT(SymOf(n))
           /\ n >= TOTAL_EXPORTS => /\ SymOf(n) = The(ImportAt(n - TOTAL_EXPORTS))
                                    /\ ImportAt(n - TOTAL_EXPORTS) # {}
                                    /\ SymOf(n) \in Imports
                                    /\ importidx(SymOf(n)) = n - TOTAL_EXPORTS
                                    /\ AddrOf(n) = Import(SymOf(n))
                                    /\ TOTALINDEX(SymOf(n)) = TOTALINDEX_IMPORT(SymOf(n))
<1>1. TOTAL_EXPORTS \in Nat /\ TOTAL_IMPORTS \in Nat
  BY ImportIndices, ExportIndices
<1>2. CASE n < TOTAL_EXPORTS
  <2>1. SymOf(n) = The(ExportAt(n)) /\ AddrOf(n) = ExportValue(SymOf(n))
    BY <1>2 DEF SymOf, AddrOf
  <2>2. n \in 0..(TOTAL_EXPORTS - 1)
    BY <1>1, <1>2
  <2>3. SymOf(n) \in Exports /\ exportidx(SymOf(n)) = n
    BY <2>1, <2>2, FoundAt
  <2>4. SymOf(n) \in Syms /\ SymOf(n) \notin Imports
    BY <2>3, SymFacts
  <2> QED
    BY <1>1, <1>2, <2>1, <2>3, <2>4 DEF TOTALINDEX
<1>3. CASE ~(n < TOTAL_EXPORTS)
  <2>1. SymOf(n) = The(ImportAt(n - TOTAL_EXPORTS)) /\ AddrOf(n) = Import(SymOf(n))
    BY <1>1, <1>3 DEF SymOf, AddrOf
  <2>2. n - TOTAL_EXPORTS \in 0..(TOTAL_IMPORTS - 1)
    BY <1>1, <1>3
  <2>3. /\ SymOf(n) \in Imports /\ importidx(SymOf(n)) = n - TOTAL_EXPORTS
        /\ ImportAt(n - TOTAL_EXPORTS) # {}
    BY <2>1, <2>2, FoundAt
  <2>4. SymOf(n) \in Syms
    BY <2>3, SymFacts
  <2> QED
    BY <1>1, <1>3, <2>1, <2>3, <2>4 DEF TOTALINDEX
<1> QED
  BY <1>2, <1>3

\* Actions that ask nothing keep it.
LEMMA LearnKept ==
    ASSUME LearnInv, UNCHANGED <<kind, counts, next, ask, learned, names>>,
           phase' = phase \/ (phase = "use" /\ phase' \in {"use", "abort", "crash"})
    PROVE  LearnInv'
<1>1. PhaseInv' /\ CountsInv' /\ Total' = Total
  BY DEF LearnInv, PhaseInv, Phases, CountsInv, Total
<1>2. NextInv'
  BY <1>1 DEF LearnInv, NextInv
<1>3. AskInv'
  BY DEF LearnInv, AskInv
<1>4. NamesInv'
  BY DEF LearnInv, NamesInv, Named
<1>5. LearnedInv' /\ LearnedIsDeclared' /\ AnswersFit'
  BY DEF LearnInv, LearnedInv, LearnedIsDeclared, AnswersFit
<1> QED
  BY <1>1, <1>2, <1>3, <1>4, <1>5 DEF LearnInv

\* The entry point has been found: nothing is known yet but the counts.
LEMMA AskLibraryKeeps ==
    ASSUME DlInv, LearnInv, AskLibrary
    PROVE  LearnInv'
<1>1. reply.obj \in Libraries /\ kind' \in {"stub", "wasm"}
  BY ClientAssumption DEF AskLibrary, DlInv, DlTypeOK
<1>2. /\ kind = "none" /\ next = 0 /\ ask = NoAsk /\ names = <<>> /\ phase' = "ask"
      /\ UNCHANGED <<next, ask, learned, names>>
  BY DEF AskLibrary, LearnInv, PhaseInv, CountsInv
<1>3. PhaseInv'
  BY <1>1, <1>2 DEF PhaseInv, Phases
<1>4. /\ kind' = "stub" => counts' = StubCounts
      /\ kind' = "wasm" => counts' = WasmCounts
  BY <1>1, StubAnswers DEF AskLibrary, library_info, wasm_library_info, StubCounts, WasmCounts
<1>5. CountsInv'
  BY <1>1, <1>4 DEF CountsInv
<1>6. /\ Len(Apis) \in Nat \ {0} /\ TOTAL_EXPORTS \in Nat /\ TOTAL_IMPORTS \in Nat
      /\ TOTAL_TYPES \in Nat \ {0}
  BY ApiFacts, ImportIndices, ExportIndices, TypesFound
<1>7. /\ counts'.exports \in Nat /\ counts'.imports \in Nat /\ Total' \in Nat \ {0}
  BY <1>1, <1>4, <1>6 DEF Total, StubCounts, WasmCounts
<1>8. NextInv'
  BY <1>2, <1>7 DEF NextInv
<1>9. AskInv'
  BY <1>2 DEF AskInv, NoAsk
<1>10. NamesInv'
  <2>1. Named' = 0
    <3>1. next' = 0 /\ ask'.fn = "none"
      BY <1>2 DEF NoAsk
    <3>2. counts'.exports \in Nat /\ counts'.imports \in Nat
      BY <1>7
    <3> QED
      BY <3>1, <3>2 DEF Named
  <2> QED
    BY <1>2, <2>1 DEF NamesInv
<1>11. LearnedInv'
  BY <1>2 DEF LearnedInv
<1>12. LearnedIsDeclared' /\ AnswersFit'
  BY <1>2 DEF LearnInv, LearnedIsDeclared, AnswersFit
<1> QED
  BY <1>3, <1>5, <1>8, <1>9, <1>10, <1>11, <1>12 DEF LearnInv

\* What does not depend on the question in progress stays as it is.
LEMMA AskKeeps ==
    ASSUME LearnInv, phase = "ask", UNCHANGED <<phase, kind, counts, next, learned>>,
           ask'.wrote = 0, AskInv', NamesInv'
    PROVE  LearnInv'
<1>1. PhaseInv'
  BY DEF LearnInv, PhaseInv
<1>2. CountsInv'
  BY <1>1 DEF LearnInv, CountsInv, PhaseInv
<1>3. NextInv'
  BY DEF LearnInv, NextInv, Total
<1>4. LearnedInv' /\ LearnedIsDeclared'
  BY DEF LearnInv, LearnedInv, LearnedIsDeclared
<1>5. AnswersFit'
  BY DEF AnswersFit
<1> QED
  BY <1>1, <1>2, <1>3, <1>4, <1>5 DEF LearnInv

\* library_get_export names the object and its index in the common numbering.
LEMMA AskExportKeeps ==
    ASSUME LearnInv, AskExport
    PROVE  LearnInv'
<1>1. /\ phase = "ask" /\ next \in Nat /\ next < counts.exports /\ kind \in {"stub", "wasm"}
      /\ UNCHANGED <<phase, kind, counts, next, learned, names>>
  BY DEF AskExport, LearnInv, PhaseInv, NextInv
<1>2. CASE kind = "stub"
  <2> DEFINE cells == library_export_info(next)
  <2>1. next < Len(Apis) /\ next \in ApiIds
    BY <1>1, <1>2, ApiFacts DEF LearnInv, CountsInv, StubCounts
  <2>2. /\ cells[2] = next /\ cells[6] = Stub(next)
        /\ cells[7] = Len(Api(next).in) /\ cells[8] = Len(Api(next).out)
    BY <2>1 DEF library_export_info
  <2> HIDE DEF cells
  <2>3. ask' = [fn |-> "arg_info", idx |-> next, addr |-> Stub(next),
                room |-> 3 + Len(Api(next).in) + Len(Api(next).out), wrote |-> 0]
    BY <1>2, <2>2, StubAnswers DEF AskExport, cells
  <2>4. AskInv'
    BY <1>1, <1>2, <2>1, <2>3 DEF AskInv
  <2>5. NamesInv'
    BY <1>1 DEF NamesInv, LearnInv, Named
  <2> QED
    BY <1>1, <2>3, <2>4, <2>5, AskKeeps
<1>3. CASE kind = "wasm"
  <2> DEFINE cells == library_get_export(next)
  <2>1. next < TOTAL_EXPORTS /\ TOTAL_EXPORTS \in Nat /\ TOTAL_IMPORTS \in Nat
    BY <1>1, <1>3, ExportIndices, ImportIndices DEF LearnInv, CountsInv, WasmCounts
  <2>2. next \in 0..(TOTAL_EXPORTS + TOTAL_IMPORTS - 1)
    BY <1>1, <2>1
  <2>3. /\ SymOf(next) = The(ExportAt(next)) /\ AddrOf(next) = ExportValue(SymOf(next))
        /\ TOTALINDEX(SymOf(next)) = TOTALINDEX_EXPORT(SymOf(next))
    BY <2>1, <2>2, SymOfNext
  <2>4. cells[4] = TOTALINDEX(SymOf(next)) /\ cells[3] = AddrOf(next)
    BY <2>3 DEF library_get_export
  <2> HIDE DEF cells
  <2>5. /\ ask'.fn = "counts" /\ ask'.idx = TOTALINDEX(SymOf(next)) /\ ask'.addr = AddrOf(next)
        /\ ask'.wrote = 0
    BY <1>3, <2>4 DEF AskExport, cells, NoAsk
  <2>6. AskInv'
    BY <1>1, <1>3, <2>1, <2>5 DEF AskInv
  <2>7. NamesInv'
    BY <1>1 DEF NamesInv, LearnInv, Named
  <2> QED
    BY <1>1, <2>5, <2>6, <2>7, AskKeeps
<1> QED
  BY <1>1, <1>2, <1>3

\* library_get_import names the import, which is the next one.
LEMMA AskImportKeeps ==
    ASSUME LearnInv, AskImport
    PROVE  LearnInv'
<1> DEFINE k == next - counts.exports
           cells == library_get_import(k)
           s == SymOf(next)
<1>1. /\ phase = "ask" /\ ask.fn = "none" /\ next \in Nat
      /\ counts.exports <= next /\ next < counts.exports + counts.imports
      /\ UNCHANGED <<phase, kind, counts, next, learned>>
  BY DEF AskImport, LearnInv, NextInv
<1>2. TOTAL_EXPORTS \in Nat /\ TOTAL_IMPORTS \in Nat
  BY ExportIndices, ImportIndices
<1>3. kind = "wasm"
  <2>1. kind # "none"
    BY <1>1 DEF LearnInv, PhaseInv
  <2>2. CASE kind = "stub"
    <3>1. counts.imports = 0 /\ counts.exports = Len(Apis) /\ Len(Apis) \in Nat
      BY <2>2, ApiFacts DEF LearnInv, CountsInv, StubCounts
    <3> QED
      BY <1>1, <3>1
  <2> QED
    BY <2>1, <2>2 DEF LearnInv, PhaseInv
<1>4. counts.exports = TOTAL_EXPORTS /\ counts.imports = TOTAL_IMPORTS
  BY <1>3 DEF LearnInv, CountsInv, WasmCounts
<1>5. next >= TOTAL_EXPORTS /\ next \in 0..(TOTAL_EXPORTS + TOTAL_IMPORTS - 1)
  BY <1>1, <1>2, <1>4
<1>6. /\ s = The(ImportAt(k)) /\ ImportAt(k) # {} /\ s \in Imports /\ importidx(s) = k
      /\ AddrOf(next) = Import(s) /\ TOTALINDEX(s) = TOTALINDEX_IMPORT(s)
  BY <1>4, <1>5, SymOfNext
<1>7. cells[2] = s /\ cells[4] = TOTALINDEX(s)
  BY <1>6 DEF library_get_import
<1> HIDE DEF cells
<1>8. /\ names' = Append(names, s)
      /\ ask'.fn = "counts" /\ ask'.idx = TOTALINDEX(s) /\ ask'.addr = Import(s)
      /\ ask'.wrote = 0
  BY <1>7 DEF AskImport, cells, NoAsk
<1> HIDE DEF s
<1>9. AskInv'
  BY <1>1, <1>3, <1>5, <1>2, <1>6, <1>8 DEF AskInv, s
<1>10. NamesInv'
  <2>1. names \in Seq(Imports) /\ Len(names) = k /\ \A i \in 1..Len(names) : importidx(names[i]) = i - 1
    <3>1. Named = k
      BY <1>1, <1>2, <1>4 DEF Named
    <3> QED
      BY <3>1 DEF LearnInv, NamesInv
  <2>2. Named' = k + 1
    BY <1>1, <1>2, <1>4, <1>8 DEF Named
  <2>3. k \in Nat
    BY <1>1, <1>2, <1>4
  <2> HIDE DEF k
  <2>4. /\ names' \in Seq(Imports) /\ Len(names') = k + 1
        /\ \A i \in 1..k : names'[i] = names[i]
        /\ names'[k + 1] = s
    BY <1>6, <1>8, <2>1, AppendProperties
  <2>5. \A i \in 1..(k + 1) : importidx(names'[i]) = i - 1
    <3> TAKE i \in 1..(k + 1)
    <3>1. CASE i \in 1..k
      BY <2>1, <2>4, <3>1
    <3>2. CASE i = k + 1
      BY <1>6, <2>3, <2>4, <3>2
    <3> QED
      BY <2>3, <3>1, <3>2
  <2> QED
    BY <2>2, <2>4, <2>5 DEF NamesInv
<1> QED
  BY <1>1, <1>8, <1>9, <1>10, AskKeeps

\* typebridge_get_counts sizes the buffer for a type.
LEMMA AskTypeKeeps ==
    ASSUME LearnInv, AskType
    PROVE  LearnInv'
<1> DEFINE k == next - counts.exports - counts.imports
           cells == typebridge_get_counts(k)
<1>1. /\ phase = "ask" /\ ask.fn = "none" /\ next \in Nat
      /\ counts.exports + counts.imports <= next /\ next < Total
      /\ UNCHANGED <<phase, kind, counts, next, learned, names>>
  BY DEF AskType, LearnInv, NextInv
<1>2. TOTAL_EXPORTS \in Nat /\ TOTAL_IMPORTS \in Nat /\ TOTAL_TYPES \in Nat
  BY ExportIndices, ImportIndices, TypesFound
<1>3. kind = "wasm"
  <2>1. kind # "none"
    BY <1>1 DEF LearnInv, PhaseInv
  <2>2. CASE kind = "stub"
    <3>1. counts.imports = 0 /\ counts.exports = Len(Apis) /\ counts.types = 0 /\ Len(Apis) \in Nat
      BY <2>2, ApiFacts DEF LearnInv, CountsInv, StubCounts
    <3> QED
      BY <1>1, <3>1 DEF Total
  <2> QED
    BY <2>1, <2>2 DEF LearnInv, PhaseInv
<1>4. /\ counts.exports = TOTAL_EXPORTS /\ counts.imports = TOTAL_IMPORTS
      /\ counts.types = TOTAL_TYPES
  BY <1>3 DEF LearnInv, CountsInv, WasmCounts
<1>5. k = TypeOf(next) /\ k \in TypeIds /\ next >= TOTAL_EXPORTS + TOTAL_IMPORTS
  BY <1>1, <1>2, <1>4, TypesFound DEF TypeOf, Total
<1>6. cells[2] = Len(TypeAt(k).in) /\ cells[3] = Len(TypeAt(k).out)
  BY <1>5 DEF typebridge_get_counts, Counts
<1> HIDE DEF cells
<1>7. /\ ask'.fn = "type" /\ ask'.idx = k /\ ask'.wrote = 0
      /\ ask'.room = 4 + Len(TypeAt(k).in) + Len(TypeAt(k).out)
  BY <1>6 DEF AskType, cells, NoAsk
<1>8. AskInv'
  BY <1>1, <1>3, <1>5, <1>7 DEF AskInv
<1>9. NamesInv'
  BY <1>1, <1>2, <1>4 DEF NamesInv, LearnInv, Named
<1> QED
  BY <1>1, <1>7, <1>8, <1>9, AskKeeps

\* callinfo_get_counts sizes the buffer for a symbol.
LEMMA AskCountsKeeps ==
    ASSUME LearnInv, AskCounts
    PROVE  LearnInv'
<1> DEFINE s == SymOf(next)
           cells == callinfo_get_counts(ask.idx)
<1>1. /\ phase = "ask" /\ ask.fn = "counts" /\ next \in Nat
      /\ UNCHANGED <<phase, kind, counts, next, learned, names>>
  BY DEF AskCounts, LearnInv, NextInv
<1>2. /\ kind = "wasm" /\ next < TOTAL_EXPORTS + TOTAL_IMPORTS
      /\ ask.idx = TOTALINDEX(s) /\ ask.addr = AddrOf(next) /\ ask.wrote = 0
  BY <1>1 DEF LearnInv, AskInv
<1>3. TOTAL_EXPORTS \in Nat /\ TOTAL_IMPORTS \in Nat
  BY ExportIndices, ImportIndices
<1>4. s \in Syms
  BY <1>1, <1>2, <1>3, SymOfNext
<1> HIDE DEF s
<1>5. cells[2] = Len(Header[s].in) /\ cells[3] = Len(Header[s].out)
  BY <1>2, <1>4, CallinfoFound DEF callinfo_get_counts, Counts
<1> HIDE DEF cells
<1>6. ask' = [ask EXCEPT !.fn = "types", !.room = 3 + Len(Header[s].in) + Len(Header[s].out)]
  BY <1>5 DEF AskCounts, cells
<1>7. /\ ask'.fn = "types" /\ ask'.room = 3 + Len(Header[s].in) + Len(Header[s].out)
      /\ ask'.idx = ask.idx /\ ask'.addr = ask.addr /\ ask'.wrote = ask.wrote
  BY <1>6
<1>8. AskInv'
  BY <1>1, <1>2, <1>7 DEF AskInv, s
<1>9. NamesInv'
  BY <1>1, <1>7 DEF NamesInv, LearnInv, Named
<1> QED
  BY <1>1, <1>2, <1>7, <1>8, <1>9, AskKeeps

\* The answer to a question about types is the declaration of the next object.
ObjectOf(n) == IF kind = "stub" THEN Stub(n) ELSE AddrOf(n)

\* What is declared of an object is found from its kind.
LEMMA DeclaredByKind ==
    /\ \A k : Declared(<<"stub", k>>) = [in |-> Codes(Api(k).in), out |-> Codes(Api(k).out)]
    /\ \A k : Declared(<<"typestub", k>>)
               = [in |-> WasmCodes(TypeAt(k).in), out |-> WasmCodes(TypeAt(k).out)]
    /\ \A s : \A a \in {<<"nccc", s>>, <<"variable", s>>, <<"import", s>>} :
           Declared(a) = [in |-> WasmCodes(Header[s].in), out |-> WasmCodes(Header[s].out)]
BY DEF Declared

\* What AskTypes reads is the declaration of the object asked for, in a full buffer.
LEMMA AnswerDeclares ==
    ASSUME LearnInv, phase = "ask", ask.fn \in {"arg_info", "types", "type"},
           NEW cells, NEW buf, NEW head, NEW addr,
           cells = CASE ask.fn = "arg_info" -> stub_dispatch(6, ask.idx)
                     [] ask.fn = "types" -> callinfo_get_types(ask.idx)
                     [] ask.fn = "type" -> typebridge_get_types(ask.idx),
           buf = Answer(ask.room, cells),
           head = IF ask.fn = "type" THEN 4 ELSE 3,
           addr = IF ask.fn = "type" THEN Peek(buf, 2) ELSE ask.addr
    PROVE  /\ Len(cells) = ask.room
           /\ addr = ObjectOf(next)
           /\ Told(buf, head) = Declared(addr)
<1>1. next \in Nat
  BY DEF LearnInv, NextInv
<1>2. TOTAL_EXPORTS \in Nat /\ TOTAL_IMPORTS \in Nat /\ TOTAL_TYPES \in Nat
  BY ExportIndices, ImportIndices, TypesFound
<1>3. CASE ask.fn = "arg_info"
  <2>1. /\ kind = "stub" /\ next < Len(Apis)
        /\ ask.idx = next /\ ask.addr = Stub(next)
        /\ ask.room = 3 + Len(Api(next).in) + Len(Api(next).out)
    BY <1>3 DEF LearnInv, AskInv
  <2>2. next \in ApiIds
    BY <1>1, <2>1, ApiFacts
  <2>3. cells = stub_dispatch(6, next) /\ head = 3 /\ addr = Stub(next)
    BY <1>3, <2>1
  <2>4. /\ Len(stub_dispatch(6, next)) = 3 + Len(Api(next).in) + Len(Api(next).out)
        /\ Told(Answer(3 + Len(Api(next).in) + Len(Api(next).out), stub_dispatch(6, next)), 3)
             = [in |-> Codes(Api(next).in), out |-> Codes(Api(next).out)]
    BY <2>2, StubDescription
  <2>5. /\ Len(cells) = ask.room
        /\ Told(buf, 3) = [in |-> Codes(Api(next).in), out |-> Codes(Api(next).out)]
    BY <2>1, <2>3, <2>4, Zenon
  <2>6. Declared(addr) = [in |-> Codes(Api(next).in), out |-> Codes(Api(next).out)]
    <3>1. addr = <<"stub", next>>
      BY <2>3 DEF Stub
    <3> QED
      BY <3>1, DeclaredByKind, Zenon
  <2> QED
    BY <2>1, <2>3, <2>4, <2>5, <2>6 DEF ObjectOf
<1>4. CASE ask.fn = "types"
  <2> DEFINE s == SymOf(next)
  <2>1. /\ kind = "wasm" /\ next < TOTAL_EXPORTS + TOTAL_IMPORTS
        /\ ask.idx = TOTALINDEX(s) /\ ask.addr = AddrOf(next)
        /\ ask.room = 3 + Len(Header[s].in) + Len(Header[s].out)
    BY <1>4 DEF LearnInv, AskInv
  <2>2. next \in 0..(TOTAL_EXPORTS + TOTAL_IMPORTS - 1)
    BY <1>1, <1>2, <2>1
  <2>3. s \in Syms
    BY <2>2, SymOfNext
  <2>4. AddrOf(next) \in {<<"nccc", s>>, <<"variable", s>>, <<"import", s>>}
    <3>1. next < TOTAL_EXPORTS => AddrOf(next) = ExportValue(s)
      BY <2>2, SymOfNext
    <3>2. next >= TOTAL_EXPORTS => AddrOf(next) = Import(s)
      BY <2>2, SymOfNext
    <3>3. next < TOTAL_EXPORTS \/ next >= TOTAL_EXPORTS
      BY <1>1, <1>2
    <3> HIDE DEF s
    <3> QED
      BY <3>1, <3>2, <3>3 DEF ExportValue, NcccFn, PointerTo, Import
  <2> HIDE DEF s
  <2>5. cells = callinfo_get_types(TOTALINDEX(s)) /\ head = 3 /\ addr = AddrOf(next)
    BY <1>4, <2>1
  <2>6. /\ Len(callinfo_get_types(TOTALINDEX(s))) = 3 + Len(Header[s].in) + Len(Header[s].out)
        /\ Told(Answer(3 + Len(Header[s].in) + Len(Header[s].out),
                       callinfo_get_types(TOTALINDEX(s))), 3)
             = [in |-> WasmCodes(Header[s].in), out |-> WasmCodes(Header[s].out)]
    BY <2>3, SymbolDescription
  <2>7. /\ Len(cells) = ask.room
        /\ Told(buf, 3) = [in |-> WasmCodes(Header[s].in), out |-> WasmCodes(Header[s].out)]
    BY <2>1, <2>5, <2>6, Zenon
  <2>8. Declared(addr) = [in |-> WasmCodes(Header[s].in), out |-> WasmCodes(Header[s].out)]
    <3>1. addr \in {<<"nccc", s>>, <<"variable", s>>, <<"import", s>>}
      BY <2>4, <2>5, Zenon
    <3> QED
      BY <3>1, DeclaredByKind, Zenon
  <2> QED
    BY <2>1, <2>5, <2>6, <2>7, <2>8 DEF ObjectOf
<1>5. CASE ask.fn = "type"
  <2> DEFINE k == TypeOf(next)
  <2>1. /\ kind = "wasm" /\ next >= TOTAL_EXPORTS + TOTAL_IMPORTS /\ ask.idx = k
        /\ ask.room = 4 + Len(TypeAt(k).in) + Len(TypeAt(k).out)
    BY <1>5 DEF LearnInv, AskInv
  <2>2. counts = WasmCounts /\ next < Total
    BY <2>1 DEF LearnInv, CountsInv, NextInv
  <2>3. k \in TypeIds
    BY <1>1, <1>2, <2>1, <2>2, TypesFound DEF TypeOf, Total, WasmCounts
  <2>4. AddrOf(next) = TypeStub(k)
    BY <1>1, <1>2, <2>1 DEF AddrOf
  <2> HIDE DEF k
  <2>5. cells = typebridge_get_types(k) /\ head = 4 /\ addr = Peek(buf, 2)
    BY <1>5, <2>1
  <2>6. /\ Len(typebridge_get_types(k)) = 4 + Len(TypeAt(k).in) + Len(TypeAt(k).out)
        /\ Peek(Answer(4 + Len(TypeAt(k).in) + Len(TypeAt(k).out), typebridge_get_types(k)), 2)
             = TypeStub(k)
        /\ Told(Answer(4 + Len(TypeAt(k).in) + Len(TypeAt(k).out), typebridge_get_types(k)), 4)
             = [in |-> WasmCodes(TypeAt(k).in), out |-> WasmCodes(TypeAt(k).out)]
    BY <2>3, TypeDescription
  <2>7. /\ Len(cells) = ask.room /\ Peek(buf, 2) = TypeStub(k)
        /\ Told(buf, 4) = [in |-> WasmCodes(TypeAt(k).in), out |-> WasmCodes(TypeAt(k).out)]
    BY <2>1, <2>5, <2>6, Zenon
  <2>8. Declared(addr) = [in |-> WasmCodes(TypeAt(k).in), out |-> WasmCodes(TypeAt(k).out)]
    <3>1. addr = <<"typestub", k>>
      BY <2>5, <2>7 DEF TypeStub
    <3> QED
      BY <3>1, DeclaredByKind, Zenon
  <2> QED
    BY <2>1, <2>4, <2>5, <2>6, <2>7, <2>8 DEF ObjectOf
<1> QED
  BY <1>3, <1>4, <1>5

\* With the answer one more object is known, and known as it is declared.
LEMMA AskTypesKeeps ==
    ASSUME LearnInv, AskTypes
    PROVE  LearnInv'
<1> DEFINE cells == CASE ask.fn = "arg_info" -> stub_dispatch(6, ask.idx)
                      [] ask.fn = "types" -> callinfo_get_types(ask.idx)
                      [] ask.fn = "type" -> typebridge_get_types(ask.idx)
           buf == Answer(ask.room, cells)
           head == IF ask.fn = "type" THEN 4 ELSE 3
           addr == IF ask.fn = "type" THEN Peek(buf, 2) ELSE ask.addr
<1>1. /\ phase = "ask" /\ ask.fn \in {"arg_info", "types", "type"}
      /\ next \in Nat /\ next < Total /\ kind \in {"stub", "wasm"}
      /\ next' = next + 1 /\ phase' = (IF next' = Total THEN "use" ELSE "ask")
      /\ UNCHANGED <<kind, counts, names>>
  BY DEF AskTypes, LearnInv, NextInv, PhaseInv
<1>2. Len(cells) = ask.room /\ addr = ObjectOf(next) /\ Told(buf, head) = Declared(addr)
  <2> HIDE DEF cells
  <2>1. cells = CASE ask.fn = "arg_info" -> stub_dispatch(6, ask.idx)
                  [] ask.fn = "types" -> callinfo_get_types(ask.idx)
                  [] ask.fn = "type" -> typebridge_get_types(ask.idx)
    BY DEF cells
  <2> QED
    BY <1>1, <2>1, AnswerDeclares
<1>3. /\ learned' = [a \in DOMAIN learned \cup {addr} |->
                        IF a = addr THEN Told(buf, head) ELSE learned[a]]
      /\ ask' = [ask EXCEPT !.fn = "none", !.wrote = Len(cells)]
  BY DEF AskTypes, Told
<1> HIDE DEF cells, buf, head, addr
<1>4. ask'.fn = "none" /\ ask'.wrote = ask.room /\ ask'.room = ask.room
  BY <1>2, <1>3
<1>5. Total' = Total /\ Total \in Nat
  BY <1>1, Totals DEF Total, LearnInv
<1>6. PhaseInv' /\ CountsInv'
  BY <1>1 DEF LearnInv, PhaseInv, Phases, CountsInv
<1>7. NextInv'
  BY <1>1, <1>5 DEF NextInv
<1>8. AskInv'
  BY <1>4 DEF AskInv
<1>9. NamesInv'
  <2>1. counts.exports \in Nat /\ counts.imports \in Nat /\ counts.types \in Nat
    BY <1>1, ApiFacts, ExportIndices, ImportIndices, TypesFound
       DEF LearnInv, CountsInv, StubCounts, WasmCounts
  <2>2. Named' = Named
    <3>1. next < counts.exports + counts.imports + counts.types
      BY <1>1 DEF Total
    <3> QED
      BY <1>1, <1>4, <2>1, <3>1 DEF Named
  <2> QED
    BY <1>1, <2>2 DEF LearnInv, NamesInv
<1>10. LearnedInv'
  <2> SUFFICES ASSUME NEW n \in 0..next
               PROVE  ObjectOf(n) \in DOMAIN learned'
    BY <1>1 DEF LearnedInv, ObjectOf
  <2>1. DOMAIN learned' = DOMAIN learned \cup {addr}
    BY <1>3
  <2>2. CASE n = next
    BY <1>2, <2>1, <2>2
  <2>3. CASE n # next
    <3>1. n \in 0..(next - 1)
      BY <1>1, <2>3
    <3> QED
      BY <1>1, <2>1, <3>1 DEF LearnInv, LearnedInv, ObjectOf
  <2> QED
    BY <2>2, <2>3
<1>11. LearnedIsDeclared'
  BY <1>2, <1>3 DEF LearnInv, LearnedIsDeclared
<1>12. AnswersFit'
  BY <1>4 DEF AnswersFit
<1> QED
  BY <1>6, <1>7, <1>8, <1>9, <1>10, <1>11, <1>12 DEF LearnInv

-----------------------------------------------------------------------------
(* Dynamic linking, and the imports.                                       *)

\* dlfcn_get has cleared the error before it asks, so what dlerror reports is its own.
LEMMA DlKept ==
    ASSUME DlInv, [Next]_vars
    PROVE  DlInv'
<1>1. CASE UNCHANGED dlvars
  BY <1>1 DEF dlvars, DlInv, DlTypeOK, GetReportsItself, Has
<1>2. ASSUME NEW p \in Paths, Open(p)
      PROVE  DlInv'
  <2>1. /\ reply'.op = "open" /\ reply'.res \in {0, -1} /\ platform' = platform
        /\ lastError' \in BOOLEAN
    BY <1>2 DEF Open, dlfcn_open, NoReply, ErrorAfterSuccess, DlInv, DlTypeOK
  <2> QED
    BY <2>1 DEF DlInv, DlTypeOK, GetReportsItself
<1>3. ASSUME NEW n \in Names, Get(n)
      PROVE  DlInv'
  <2> DEFINE l == reply.obj
  <2>1. l \in Libraries /\ platform' = platform /\ lastError' = FALSE
    BY <1>3 DEF Get, dlfcn_get
  <2>2. PICK errs \in (IF Has(l, n) THEN ErrorAfterSuccess(ErrorBefore) ELSE {TRUE}) :
           reply' = IF errs
                      THEN [op |-> "get", obj |-> l, name |-> n, res |-> -1, ptr |-> -1]
                      ELSE [op |-> "get", obj |-> l, name |-> n, res |-> 0,
                            ptr |-> Symtab[l][n]]
    BY <1>3 DEF Get, dlfcn_get
  <2>3. errs = ~Has(l, n)
    BY <2>2 DEF ErrorAfterSuccess, ErrorBefore
  <2> HIDE DEF l
  <2>4. /\ reply'.op = "get" /\ reply'.obj = l /\ reply'.name = n /\ reply'.res \in {0, -1}
        /\ reply'.res = 0 <=> Has(l, n)
        /\ reply'.res = 0 => reply'.ptr = Symtab[l][n]
    <3>1. CASE Has(l, n)
      <4>1. reply' = [op |-> "get", obj |-> l, name |-> n, res |-> 0, ptr |-> Symtab[l][n]]
        BY <2>2, <2>3, <3>1
      <4> QED
        BY <3>1, <4>1
    <3>2. CASE ~Has(l, n)
      <4>1. reply' = [op |-> "get", obj |-> l, name |-> n, res |-> -1, ptr |-> -1]
        BY <2>2, <2>3, <3>2
      <4> QED
        BY <3>2, <4>1
    <3> QED
      BY <3>1, <3>2
  <2>5. DlTypeOK'
    BY <2>1, <2>4 DEF DlInv, DlTypeOK
  <2>6. GetReportsItself'
    BY <2>1, <2>4 DEF GetReportsItself, Has
  <2> QED
    BY <2>5, <2>6 DEF DlInv
<1> QED
  BY <1>1, <1>2, <1>3 DEF Next, vars, AskLibrary, AskExport, AskImport, AskType, AskCounts,
     AskTypes, AskBeyond, SetImport, InitModule, CallStub, CallExport, Return, CallPointer, CallImport,
     CallBack, UseObject, CallbackThrows, Stopped

\* What leaves the linked imports alone keeps them right.
LEMMA LinkKept ==
    ASSUME LinkInv, UNCHANGED <<wasmvars, given>>,
           kind' = kind \/ running' = {},
           running' \subseteq ExportFuncs, running' # {} => kind' = "wasm"
    PROVE  LinkInv'
BY DEF LinkInv, wasmvars, WasmTypeOK, RightImport

\* In use, the program knows the name of every import.
LEMMA AllNamed ==
    ASSUME LearnInv, phase = "use", kind = "wasm"
    PROVE  /\ counts.imports = TOTAL_IMPORTS /\ names \in Seq(Imports)
           /\ DOMAIN names = 1..TOTAL_IMPORTS
           /\ \A i \in 1..TOTAL_IMPORTS : names[i] \in Imports /\ importidx(names[i]) = i - 1
           /\ \A s \in Imports : \E i \in DOMAIN names : names[i] = s
<1>1. TOTAL_EXPORTS \in Nat /\ TOTAL_IMPORTS \in Nat /\ TOTAL_TYPES \in Nat
  BY ExportIndices, ImportIndices, TypesFound
<1>2. counts = WasmCounts /\ next = Total /\ names \in Seq(Imports) /\ Len(names) = Named
      /\ \A i \in 1..Len(names) : importidx(names[i]) = i - 1
  BY DEF LearnInv, CountsInv, NextInv, NamesInv
<1>3. Named = TOTAL_IMPORTS
  BY <1>1, <1>2 DEF Named, Total, WasmCounts
<1>4. DOMAIN names = 1..TOTAL_IMPORTS /\ \A i \in 1..TOTAL_IMPORTS : names[i] \in Imports
  BY <1>2, <1>3, LenProperties, ElementOfSeq
<1>5. ASSUME NEW s \in Imports
      PROVE  \E i \in DOMAIN names : names[i] = s
  <2>1. importidx(s) \in 0..(TOTAL_IMPORTS - 1)
    BY ImportIndices
  <2>2. importidx(s) + 1 \in 1..TOTAL_IMPORTS
    BY <1>1, <2>1
  <2>3. importidx(names[importidx(s) + 1]) = importidx(s)
    BY <1>2, <1>3, <2>1, <2>2
  <2>4. names[importidx(s) + 1] = s
    BY <1>4, <2>2, <2>3, ImportIndices
  <2> QED
    BY <1>4, <2>2, <2>4
<1> QED
  BY <1>2, <1>3, <1>4, <1>5 DEF WasmCounts

\* stub_library_set_import changes the import it is given, and no other one.
LEMMA SetImportLinks ==
    ASSUME LearnInv, LinkInv, NEW i \in 0..(counts.imports - 1), SetImport(i)
    PROVE  LinkInv'
<1> DEFINE s0 == names[i + 1]
<1>1. phase = "use" /\ kind = "wasm" /\ UNCHANGED <<kind, running>>
  BY DEF SetImport
<1>2. s0 \in Imports /\ importidx(s0) = i
  <2>1. counts.imports = TOTAL_IMPORTS /\ TOTAL_IMPORTS \in Nat
    BY <1>1, AllNamed, ImportIndices
  <2>2. i + 1 \in 1..TOTAL_IMPORTS /\ i + 1 - 1 = i
    BY <2>1
  <2> QED
    BY <1>1, <2>2, AllNamed
<1>3. \A s \in Imports : importidx(s) = i <=> s = s0
  BY <1>2, ImportIndices
<1>4. PICK k \in 1..Versions :
         /\ library_set_import(i, Dispatcher, [sym |-> s0, version |-> k])
         /\ given' = [given EXCEPT ![s0] = [sym |-> s0, version |-> k]]
  BY DEF SetImport
<1> DEFINE t == [sym |-> s0, version |-> k]
<1>5. t \in Contexts /\ t.sym = s0
  BY <1>2 DEF Contexts
<1> HIDE DEF t, s0
<1>6. given' \in [Imports -> Contexts \cup {NotGiven}] /\ given'[s0] = t
      /\ \A s \in Imports : s # s0 => given'[s] = given[s]
  BY <1>2, <1>4, <1>5 DEF LinkInv, t
<1>7. ImportFuncs \subseteq Imports /\ ImportVars \subseteq Imports
  BY DEF ImportFuncs, ImportVars
<1>8. /\ ncccdispatch' = [s \in ImportFuncs |->
                             IF importidx(s) = i THEN Dispatcher ELSE ncccdispatch[s]]
      /\ nccc' = [s \in ImportFuncs |-> IF importidx(s) = i THEN t ELSE nccc[s]]
      /\ imported' = [s \in ImportVars |-> IF importidx(s) = i THEN t ELSE imported[s]]
      /\ initialised' = initialised
  BY <1>4 DEF library_set_import, t
<1>9. WasmTypeOK'
  BY <1>8 DEF LinkInv, WasmTypeOK
<1>10. t # NotGiven
  BY <1>5, ClientAssumption
<1>11. ASSUME NEW s \in Imports, given'[s] # NotGiven
       PROVE  given'[s].sym = s
  BY <1>5, <1>6, <1>11 DEF LinkInv
<1>12. RightImport'
  <2>1. ASSUME NEW s \in ImportFuncs
        PROVE  IF given'[s] = NotGiven THEN ncccdispatch'[s] = NullFn
               ELSE <<ncccdispatch'[s], nccc'[s]>> = <<Dispatcher, given'[s]>>
    <3>1. CASE s = s0
      BY <1>3, <1>6, <1>7, <1>8, <1>10, <3>1
    <3>2. CASE s # s0
      BY <1>3, <1>6, <1>7, <1>8, <3>2 DEF LinkInv, RightImport
    <3> QED
      BY <3>1, <3>2
  <2>2. ASSUME NEW s \in ImportVars, given'[s] # NotGiven
        PROVE  imported'[s] = given'[s]
    <3>1. CASE s = s0
      BY <1>3, <1>6, <1>7, <1>8, <3>1
    <3>2. CASE s # s0
      BY <1>3, <1>6, <1>7, <1>8, <2>2, <3>2 DEF LinkInv, RightImport
    <3> QED
      BY <3>1, <3>2
  <2> QED
    BY <2>1, <2>2 DEF RightImport
<1> QED
  BY <1>1, <1>6, <1>9, <1>11, <1>12 DEF LinkInv

-----------------------------------------------------------------------------
(* Values.                                                                 *)

\* The letters of a list of types.
LEMMA TypedLetters ==
    ASSUME NEW ts \in Seq(Types)
    PROVE  /\ Letters(Codes(ts)) \in Seq(AllLetters) /\ Len(Letters(Codes(ts))) = Len(ts)
           /\ DOMAIN Letters(Codes(ts)) = 1..Len(ts) /\ Len(ts) \in Nat
<1>1. Codes(ts) \in Seq(0..12) /\ Len(Codes(ts)) = Len(ts)
  BY CodesType
<1> QED
  BY <1>1, LettersType, LenProperties

\* A result has one letter at most, and fits.
LEMMA ResultKept ==
    ASSUME NEW ts \in Seq(Types), Len(ts) \in {0, 1}
    PROVE  Kept(Letters(Codes(ts))) = Letters(Codes(ts))
<1>1. Letters(Codes(ts)) \in Seq(AllLetters) /\ Len(Letters(Codes(ts))) = Len(ts)
  BY TypedLetters
<1>2. Len(Letters(Codes(ts))) < SigBuf
  <2>1. CASE Len(ts) = 0
    BY <1>1, <2>1, MarshalAssumption
  <2>2. CASE Len(ts) = 1
    BY <1>1, <2>2, MarshalAssumption
  <2> QED
    BY <2>1, <2>2
<1> QED
  BY <1>1, <1>2, KeptPart

\* Arguments numbered from 1 are read back as they are.
LEMMA ReadNumbered ==
    ASSUME NEW ts \in Seq(Types)
    PROVE  ReadAll(Cells(Letters(Codes(ts)), Args(Len(ts))), 0, Letters(Codes(ts))) = Args(Len(ts))
<1> DEFINE sig == Letters(Codes(ts))
           n == Len(ts)
<1>1. sig \in Seq(AllLetters) /\ DOMAIN sig = 1..n /\ n \in Nat
  BY TypedLetters
<1> HIDE DEF sig, n
<1>2. ReadAll(Cells(sig, Args(n)), 0, sig) = [i \in DOMAIN sig |-> Args(n)[i]]
  BY <1>1, ReadCells
<1>3. [i \in DOMAIN sig |-> Args(n)[i]] = Args(n)
  BY <1>1 DEF Args
<1> QED
  BY <1>2, <1>3 DEF sig, n

\* The types of a function of a module are types with codes and letters.
LEMMA FunctionTypes ==
    ASSUME NEW s \in ImportFuncs \cup ExportFuncs
    PROVE  /\ s \in Syms /\ Header[s].in \in Seq(Types) /\ Header[s].out \in Seq(Types)
           /\ WasmCodes(Header[s].in) = Codes(Header[s].in)
           /\ WasmCodes(Header[s].out) = Codes(Header[s].out)
           /\ InLetters(s) = Letters(Codes(Header[s].in))
           /\ OutLetters(s) = Letters(Codes(Header[s].out))
           /\ Len(Header[s].out) \in {0, 1}
<1>1. s \in Syms /\ ~Header[s].variable
  BY SymFacts DEF ImportFuncs, ExportFuncs
<1>2. Header[s] \in Functions
  BY <1>1, SymFacts DEF Variables
<1>3. Header[s].in \in Seq(WasmTypes) /\ Header[s].out \in Results
  BY <1>2 DEF Functions
<1>4. /\ Header[s].in \in Seq(Types) /\ Header[s].out \in Seq(Types)
      /\ WasmCodes(Header[s].in) = Codes(Header[s].in)
      /\ WasmCodes(Header[s].out) = Codes(Header[s].out)
      /\ Len(Header[s].out) \in {0, 1}
  BY <1>3, SignatureTypes
<1> QED
  BY <1>1, <1>4 DEF InLetters, OutLetters

\* When the program begins to use the library, it has learned the declaration of everything
\* it can call or be called by.
LEMMA AllLearned ==
    ASSUME LearnInv, phase = "use"
    PROVE  /\ kind = "stub" => \A id \in ApiIds :
                 learned[Stub(id)] = [in |-> Codes(Api(id).in), out |-> Codes(Api(id).out)]
           /\ kind = "wasm" => \A s \in ExportFuncs :
                 learned[NcccFn(s)] = [in |-> WasmCodes(Header[s].in), out |-> WasmCodes(Header[s].out)]
           /\ kind = "wasm" => \A s \in ImportFuncs :
                 learned[Import(s)] = [in |-> WasmCodes(Header[s].in), out |-> WasmCodes(Header[s].out)]
           /\ kind = "wasm" => \A k \in TypeIds :
                 learned[TypeStub(k)] = [in |-> WasmCodes(TypeAt(k).in), out |-> WasmCodes(TypeAt(k).out)]
<1>1. next = Total /\ \A a \in DOMAIN learned : learned[a] = Declared(a)
  BY DEF LearnInv, NextInv, LearnedIsDeclared
<1>2. TOTAL_EXPORTS \in Nat /\ TOTAL_IMPORTS \in Nat /\ TOTAL_TYPES \in Nat
  BY ExportIndices, ImportIndices, TypesFound
<1>3. ASSUME kind = "stub", NEW id \in ApiIds
      PROVE  learned[Stub(id)] = [in |-> Codes(Api(id).in), out |-> Codes(Api(id).out)]
  <2>1. id \in 0..(next - 1)
    BY <1>1, <1>3, ApiFacts, Totals DEF LearnInv
  <2>2. Stub(id) \in DOMAIN learned
    BY <1>3, <2>1 DEF LearnInv, LearnedInv
  <2>3. Declared(Stub(id)) = [in |-> Codes(Api(id).in), out |-> Codes(Api(id).out)]
    BY DEF Declared, Stub
  <2> QED
    BY <1>1, <2>2, <2>3
<1>4. ASSUME kind = "wasm"
      PROVE  /\ next = TOTAL_EXPORTS + TOTAL_IMPORTS + TOTAL_TYPES
             /\ \A n \in 0..(next - 1) : AddrOf(n) \in DOMAIN learned
  BY <1>1, <1>4, Totals DEF LearnInv, LearnedInv
<1>5. ASSUME kind = "wasm", NEW s \in ExportFuncs
      PROVE  learned[NcccFn(s)] = [in |-> WasmCodes(Header[s].in), out |-> WasmCodes(Header[s].out)]
  <2> DEFINE n == exportidx(s)
  <2>1. s \in Exports /\ ~Header[s].variable
    BY DEF ExportFuncs
  <2>2. n \in 0..(TOTAL_EXPORTS - 1)
    BY <2>1, ExportIndices
  <2>3. n \in 0..(TOTAL_EXPORTS + TOTAL_IMPORTS - 1) /\ n < TOTAL_EXPORTS /\ n \in 0..(next - 1)
    BY <1>2, <1>4, <1>5, <2>2
  <2>4. SymOf(n) \in Exports /\ exportidx(SymOf(n)) = n /\ AddrOf(n) = ExportValue(SymOf(n))
    BY <2>3, SymOfNext
  <2>5. SymOf(n) = s
    BY <2>1, <2>4, ExportIndices
  <2>6. NcccFn(s) \in DOMAIN learned
    BY <1>4, <1>5, <2>1, <2>3, <2>4, <2>5 DEF ExportValue
  <2>7. Declared(NcccFn(s)) = [in |-> WasmCodes(Header[s].in), out |-> WasmCodes(Header[s].out)]
    BY DEF Declared, NcccFn
  <2> QED
    BY <1>1, <2>6, <2>7
<1>6. ASSUME kind = "wasm", NEW s \in ImportFuncs
      PROVE  learned[Import(s)] = [in |-> WasmCodes(Header[s].in), out |-> WasmCodes(Header[s].out)]
  <2> DEFINE n == TOTAL_EXPORTS + importidx(s)
  <2>1. s \in Imports
    BY DEF ImportFuncs
  <2>2. importidx(s) \in 0..(TOTAL_IMPORTS - 1)
    BY <2>1, ImportIndices
  <2>3. /\ n \in 0..(TOTAL_EXPORTS + TOTAL_IMPORTS - 1) /\ n >= TOTAL_EXPORTS
        /\ n - TOTAL_EXPORTS = importidx(s) /\ n \in 0..(next - 1)
    BY <1>2, <1>4, <1>6, <2>2
  <2>4. /\ SymOf(n) \in Imports /\ importidx(SymOf(n)) = importidx(s)
        /\ AddrOf(n) = Import(SymOf(n))
    BY <2>3, SymOfNext
  <2>5. SymOf(n) = s
    BY <2>1, <2>4, ImportIndices
  <2>6. Import(s) \in DOMAIN learned
    BY <1>4, <1>6, <2>3, <2>4, <2>5
  <2>7. Declared(Import(s)) = [in |-> WasmCodes(Header[s].in), out |-> WasmCodes(Header[s].out)]
    BY DEF Declared, Import
  <2> QED
    BY <1>1, <2>6, <2>7
<1>7. ASSUME kind = "wasm", NEW k \in TypeIds
      PROVE  learned[TypeStub(k)] = [in |-> WasmCodes(TypeAt(k).in), out |-> WasmCodes(TypeAt(k).out)]
  <2> DEFINE n == TOTAL_EXPORTS + TOTAL_IMPORTS + k
  <2>1. k \in 0..(TOTAL_TYPES - 1)
    BY TypesFound
  <2>2. /\ n \in 0..(next - 1) /\ ~(n < TOTAL_EXPORTS) /\ ~(n < TOTAL_EXPORTS + TOTAL_IMPORTS)
        /\ TypeOf(n) = k
    BY <1>2, <1>4, <1>7, <2>1 DEF TypeOf
  <2>3. AddrOf(n) = TypeStub(k)
    BY <2>2 DEF AddrOf
  <2>4. TypeStub(k) \in DOMAIN learned
    BY <1>4, <1>7, <2>2, <2>3
  <2>5. Declared(TypeStub(k)) = [in |-> WasmCodes(TypeAt(k).in), out |-> WasmCodes(TypeAt(k).out)]
    BY DEF Declared, TypeStub
  <2> QED
    BY <1>1, <2>4, <2>5
<1> QED
  BY <1>3, <1>5, <1>6, <1>7

\* A call that leaves the last transfer and the imports alone, and does not stop.
LEMMA CallKept ==
    ASSUME CallInv, UNCHANGED <<call, given, names>>,
           (phase' = phase /\ UNCHANGED <<running, initialised>>) \/ phase' # "crash"
    PROVE  CallInv'
BY DEF CallInv, ValuesArrive, NoNullUse

\* A call of a stub.
LEMMA CallStubValues ==
    ASSUME LearnInv, NEW id \in ApiIds, NEW n \in 0..MaxArgs, CallStub(id, n)
    PROVE  CallInv'
<1> DEFINE ts == Api(id).in
           rs == Api(id).out
           sig == Letters(Codes(ts))
           rsig == Letters(Codes(rs))
           kept == Kept(sig)
           cells == InCells(FALSE, Zero, kept, Args(n))
           result == Cells(rsig, Args(Len(rsig)))
<1>1. phase = "use" /\ kind = "stub" /\ UNCHANGED <<given, names>>
  BY DEF CallStub
<1>2. ts \in Seq(Types) /\ rs \in Seq(Types) /\ Len(rs) \in {0, 1}
  BY ApiFacts
<1>3. learned[Stub(id)] = [in |-> Codes(ts), out |-> Codes(rs)]
  BY <1>1, AllLearned
<1>4. InSig(Stub(id)) = kept /\ OutSig(Stub(id)) = Kept(rsig)
  BY <1>3 DEF InSig, OutSig
<1>5. Kept(rsig) = rsig /\ Len(rsig) = Len(rs)
  BY <1>2, ResultKept, TypedLetters
<1>6. /\ call' = [len |-> Len(sig), room |-> SigBuf,
                  want |-> Expected(n, sig) \o Args(Len(rsig)),
                  got |-> ReadAll(cells, 0, sig) \o ReadAll(result, 0, rsig)]
      /\ phase' = IF InAborts(rsig) THEN "abort" ELSE "use"
  BY <1>4, <1>5 DEF CallStub
<1>7. ReadAll(result, 0, rsig) = Args(Len(rsig))
  BY <1>2, <1>5, ReadNumbered
<1>8. Len(sig) < SigBuf => ReadAll(cells, 0, sig) = Expected(n, sig)
  <2>1. sig \in Seq(AllLetters)
    BY <1>2, TypedLetters
  <2> HIDE DEF sig
  <2>2. ReadAll(InCells(FALSE, Zero, sig, Args(n)), 0, sig) = Padded(sig, Args(n))
    BY <2>1, ReadArguments
  <2>3. Len(sig) < SigBuf => kept = sig
    BY <2>1, KeptPart
  <2> QED
    BY <2>2, <2>3 DEF Expected
<1> HIDE DEF ts, rs, sig, rsig, kept, cells, result
<1>10. ValuesArrive'
  BY <1>6, <1>7, <1>8 DEF ValuesArrive
<1>11. NoNullUse'
  BY <1>6 DEF NoNullUse
<1> QED
  BY <1>10, <1>11 DEF CallInv

\* A call of an exported function.
LEMMA CallExportValues ==
    ASSUME LearnInv, NEW s \in ExportFuncs, NEW n \in 0..MaxArgs, CallExport(s, n)
    PROVE  CallInv'
<1> DEFINE ts == Header[s].in
           sig == Letters(Codes(ts))
           kept == Kept(sig)
           cells == InCells(FALSE, Zero, kept, Args(n))
<1>1. /\ phase = "use" /\ kind = "wasm" /\ running' = {s}
      /\ phase' = (IF initialised THEN "use" ELSE "crash") /\ initialised' = initialised
  BY DEF CallExport, wasmvars
<1>2. /\ ts \in Seq(Types) /\ WasmCodes(ts) = Codes(ts) /\ InLetters(s) = sig
  BY FunctionTypes
<1>3. InSig(NcccFn(s)) = kept
  <2>1. learned[NcccFn(s)].in = Codes(ts)
    <3>1. learned[NcccFn(s)]
            = [in |-> WasmCodes(Header[s].in), out |-> WasmCodes(Header[s].out)]
      BY <1>1, AllLearned
    <3> QED
      BY <1>2, <3>1
  <2> QED
    BY <2>1 DEF InSig
<1>4. sig \in Seq(AllLetters) /\ Len(sig) = Len(ts)
  BY <1>2, TypedLetters
<1>5. call' = [len |-> Len(ts), room |-> SigBuf,
               want |-> Expected(n, sig), got |-> ReadAll(cells, 0, sig)]
  BY <1>2, <1>3 DEF CallExport
<1>6. Len(sig) < SigBuf => ReadAll(cells, 0, sig) = Expected(n, sig)
  <2> HIDE DEF sig
  <2>1. ReadAll(InCells(FALSE, Zero, sig, Args(n)), 0, sig) = Padded(sig, Args(n))
    BY <1>4, ReadArguments
  <2>2. Len(sig) < SigBuf => kept = sig
    BY <1>4, KeptPart
  <2> QED
    BY <2>1, <2>2 DEF Expected
<1> HIDE DEF ts, sig, kept, cells
<1>7. ValuesArrive'
  BY <1>4, <1>5, <1>6 DEF ValuesArrive
<1>8. NoNullUse'
  BY <1>1 DEF NoNullUse
<1> QED
  BY <1>7, <1>8 DEF CallInv

\* The return of an exported function.
LEMMA ReturnValues ==
    ASSUME LearnInv, LinkInv, NEW s \in ExportFuncs, Return(s)
    PROVE  CallInv'
<1> DEFINE rs == Header[s].out
           rsig == Letters(Codes(rs))
<1>1. phase = "use" /\ kind = "wasm"
  BY DEF Return, LinkInv
<1>2. /\ rs \in Seq(Types) /\ WasmCodes(rs) = Codes(rs) /\ OutLetters(s) = rsig
      /\ Len(rs) \in {0, 1}
  BY FunctionTypes
<1>3. OutSig(NcccFn(s)) = rsig
  <2>1. learned[NcccFn(s)].out = Codes(rs)
    <3>1. learned[NcccFn(s)]
            = [in |-> WasmCodes(Header[s].in), out |-> WasmCodes(Header[s].out)]
      BY <1>1, AllLearned
    <3> QED
      BY <1>2, <3>1
  <2> QED
    BY <1>2, <2>1, ResultKept DEF OutSig
<1>4. /\ call' = [len |-> 0, room |-> SigBuf, want |-> Args(Len(rs)),
                  got |-> ReadAll(Cells(rsig, Args(Len(rs))), 0, rsig)]
      /\ phase' = IF InAborts(rsig) THEN "abort" ELSE "use"
  BY <1>2, <1>3 DEF Return
<1>5. ReadAll(Cells(rsig, Args(Len(rs))), 0, rsig) = Args(Len(rs))
  BY <1>2, ReadNumbered
<1> HIDE DEF rs, rsig
<1> QED
  BY <1>4, <1>5 DEF CallInv, ValuesArrive, NoNullUse

\* A call of a function pointer.
LEMMA CallPointerValues ==
    ASSUME LearnInv, NEW k \in TypeIds, NEW n \in 0..MaxArgs, CallPointer(k, n)
    PROVE  CallInv'
<1> DEFINE ts == TypeAt(k).in
           rs == TypeAt(k).out
           sig == Letters(Codes(ts))
           rsig == Letters(Codes(rs))
           kept == Kept(sig)
           cells == InCells(TRUE, Pointer, kept, Args(n))
           result == Cells(rsig, Args(Len(rsig)))
<1>1. phase = "use" /\ kind = "wasm"
  BY DEF CallPointer
<1>2. /\ ts \in Seq(Types) /\ rs \in Seq(Types) /\ Len(rs) \in {0, 1}
      /\ WasmCodes(ts) = Codes(ts) /\ WasmCodes(rs) = Codes(rs)
  <2>1. ts \in Seq(WasmTypes) /\ rs \in Results
    BY TypesFound DEF Signatures
  <2> QED
    BY <2>1, SignatureTypes
<1>3. learned[TypeStub(k)] = [in |-> Codes(ts), out |-> Codes(rs)]
  BY <1>1, <1>2, AllLearned
<1>4. InSig(TypeStub(k)) = kept /\ OutSig(TypeStub(k)) = Kept(rsig)
  BY <1>3 DEF InSig, OutSig
<1>5. Kept(rsig) = rsig /\ Len(rsig) = Len(rs)
  BY <1>2, ResultKept, TypedLetters
<1>6. /\ call' = [len |-> Len(sig), room |-> SigBuf,
                  want |-> <<Pointer>> \o Expected(n, sig) \o Args(Len(rsig)),
                  got |-> <<Read(cells, 1, "p")>> \o ReadAll(cells, 1, sig)
                          \o ReadAll(result, 0, rsig)]
      /\ phase' = IF InAborts(rsig) THEN "abort" ELSE "use"
  BY <1>2, <1>4, <1>5 DEF CallPointer
<1>7. ReadAll(result, 0, rsig) = Args(Len(rsig))
  BY <1>2, <1>5, ReadNumbered
<1>8. Len(sig) < SigBuf => /\ Read(cells, 1, "p") = Pointer
                           /\ ReadAll(cells, 1, sig) = Expected(n, sig)
  <2>1. sig \in Seq(AllLetters)
    BY <1>2, TypedLetters
  <2> HIDE DEF sig
  <2>2. /\ Read(InCells(TRUE, Pointer, sig, Args(n)), 1, "p") = Pointer
        /\ ReadAll(InCells(TRUE, Pointer, sig, Args(n)), 1, sig) = Padded(sig, Args(n))
    BY <2>1, ReadDispatched
  <2>3. Len(sig) < SigBuf => kept = sig
    BY <2>1, KeptPart
  <2> QED
    BY <2>2, <2>3 DEF Expected
<1> HIDE DEF ts, rs, sig, rsig, kept, cells, result
<1>10. ValuesArrive'
  BY <1>6, <1>7, <1>8 DEF ValuesArrive
<1>11. NoNullUse'
  BY <1>6 DEF NoNullUse
<1> QED
  BY <1>10, <1>11 DEF CallInv

\* What an import is linked to.
LEMMA ImportTarget ==
    ASSUME LinkInv, NEW s \in ImportFuncs, ncccdispatch[s] # NullFn
    PROVE  ncccdispatch[s] = Dispatcher /\ nccc[s].sym = s
<1>1. s \in Imports /\ given[s] # NotGiven
  BY DEF LinkInv, RightImport, ImportFuncs
<1>2. given[s].sym = s /\ ncccdispatch[s] = Dispatcher /\ nccc[s] = given[s]
  BY <1>1 DEF LinkInv, RightImport
<1> QED
  BY <1>2

\* A call of an import, which may not have been set.
LEMMA CallImportValues ==
    ASSUME LearnInv, LinkInv, CallInv, NEW s \in ImportFuncs, CallImport(s)
    PROVE  CallInv'
<1> DEFINE ts == Header[s].in
           rs == Header[s].out
           sig == Letters(Codes(ts))
           rsig == Letters(Codes(rs))
           cells == Cells(sig, Args(Len(ts)))
<1>1. phase = "use" /\ kind = "wasm" /\ UNCHANGED <<given, names>>
  BY DEF CallImport, LinkInv
<1>2. /\ ts \in Seq(Types) /\ rs \in Seq(Types) /\ Len(rs) \in {0, 1}
      /\ WasmCodes(ts) = Codes(ts) /\ WasmCodes(rs) = Codes(rs)
      /\ InLetters(s) = sig /\ OutLetters(s) = rsig
  BY FunctionTypes
<1>3. CASE ncccdispatch[s] = NullFn
  <2>1. phase' = "crash" /\ call' = call
    BY <1>3 DEF CallImport
  <2>2. given[s] = NotGiven
    <3>1. s \in Imports
      BY DEF ImportFuncs
    <3>2. ASSUME given[s] # NotGiven
          PROVE  FALSE
      <4>1. ncccdispatch[s] = Dispatcher
        BY <3>2 DEF LinkInv, RightImport
      <4> QED
        BY <1>3, <4>1, ClientAssumption
    <3> QED
      BY <3>2
  <2>3. \E i \in DOMAIN names : names[i] = s
    BY <1>1, AllNamed DEF ImportFuncs
  <2>4. NoNullUse'
    BY <1>1, <2>2, <2>3 DEF NoNullUse
  <2> QED
    BY <1>1, <2>1, <2>4 DEF CallInv, ValuesArrive
<1>4. CASE ncccdispatch[s] # NullFn
  <2> DEFINE read == nccc_cb_dispatcher(nccc[s])
  <2>1. nccc[s].sym = s
    BY <1>4, ImportTarget
  <2>2. read = [in |-> Kept(sig), out |-> Kept(rsig)]
    <3>1. learned[Import(s)] = [in |-> Codes(ts), out |-> Codes(rs)]
      <4>1. learned[Import(s)]
              = [in |-> WasmCodes(Header[s].in), out |-> WasmCodes(Header[s].out)]
        BY <1>1, AllLearned
      <4> QED
        BY <1>2, <4>1
    <3>2. InSig(Import(s)) = Kept(sig) /\ OutSig(Import(s)) = Kept(rsig)
      BY <3>1 DEF InSig, OutSig
    <3> QED
      BY <2>1, <3>2 DEF nccc_cb_dispatcher
  <2>3. Kept(rsig) = rsig /\ Len(rsig) = Len(rs) /\ sig \in Seq(AllLetters) /\ Len(sig) = Len(ts)
    BY <1>2, ResultKept, TypedLetters
  <2>4. read.out = rsig /\ read.in = Kept(sig)
    BY <2>2, <2>3
  <2>5. Len(ts) < SigBuf => read.in = sig
    <3> HIDE DEF sig
    <3>1. Len(sig) < SigBuf => Kept(sig) = sig
      BY <2>3, KeptPart
    <3> QED
      BY <2>3, <2>4, <3>1
  <2> HIDE DEF read
  <2>7. /\ call' = [len |-> Len(ts), room |-> SigBuf,
                    want |-> Args(Len(ts)) \o Args(Len(rs)),
                    got |-> ReadAll(cells, 0, read.in)
                            \o ReadAll(Cells(read.out, Args(Len(read.out))), 0, rsig)]
        /\ phase' \in {"abort", "use"}
    BY <1>2, <1>4 DEF CallImport, read
  <2>8. ReadAll(cells, 0, sig) = Args(Len(ts))
    BY <1>2, ReadNumbered
  <2>9. ReadAll(Cells(rsig, Args(Len(rs))), 0, rsig) = Args(Len(rs))
    BY <1>2, ReadNumbered
  <2> HIDE DEF cells, sig, rsig, ts, rs
  <2>10. ValuesArrive'
    <3>1. /\ call'.len = Len(ts) /\ call'.room = SigBuf
          /\ call'.want = Args(Len(ts)) \o Args(Len(rs))
          /\ call'.got = ReadAll(cells, 0, read.in) \o ReadAll(Cells(rsig, Args(Len(rs))), 0, rsig)
      BY <2>3, <2>4, <2>7
    <3> QED
      BY <2>5, <2>8, <2>9, <3>1 DEF ValuesArrive
  <2>11. NoNullUse'
    BY <2>7 DEF NoNullUse
  <2> QED
    BY <2>10, <2>11 DEF CallInv
<1> QED
  BY <1>3, <1>4

\* A pointer to an imported memory or table that is null belongs to an import that is unset.
LEMMA NullImport ==
    ASSUME LearnInv, LinkInv, phase = "use", kind = "wasm",
           NEW s \in ImportVars, imported[s] = NullFn
    PROVE  \E i \in DOMAIN names : given[names[i]] = NotGiven
<1>1. s \in Imports
  BY DEF ImportVars
<1>2. given[s] = NotGiven
  <2>1. ASSUME given[s] # NotGiven
        PROVE  FALSE
    <3>1. given[s] \in Contexts /\ imported[s] = given[s]
      BY <1>1, <2>1 DEF LinkInv, RightImport
    <3> QED
      BY <3>1, ClientAssumption
  <2> QED
    BY <2>1
<1>3. \E i \in DOMAIN names : names[i] = s
  BY <1>1, AllNamed
<1> QED
  BY <1>2, <1>3

\* The use of an imported memory or table, which may not have been set.
LEMMA UseObjectValues ==
    ASSUME LearnInv, LinkInv, CallInv, NEW s \in ImportVars, UseObject(s)
    PROVE  CallInv'
<1>1. /\ phase = "use" /\ kind = "wasm" /\ imported[s] = NullFn
      /\ UNCHANGED <<given, names, call>>
  BY DEF UseObject, LinkInv
<1>2. \E i \in DOMAIN names : given[names[i]] = NotGiven
  BY <1>1, NullImport
<1>3. NoNullUse'
  BY <1>1, <1>2 DEF NoNullUse
<1> QED
  BY <1>1, <1>3 DEF CallInv, ValuesArrive

\* The module's init, which may need a memory or a table that has not been set.
LEMMA InitModuleValues ==
    ASSUME LearnInv, LinkInv, CallInv, InitModule
    PROVE  LearnInv' /\ LinkInv' /\ CallInv'
<1>1. /\ phase = "use" /\ kind = "wasm" /\ phase' \in {"use", "crash"}
      /\ UNCHANGED <<ncccdispatch, nccc, imported>>
      /\ UNCHANGED <<kind, counts, next, ask, learned, names, given, running, call>>
      /\ initialised' \in {TRUE, initialised}
  BY DEF InitModule, init, wasmvars
<1>2. LearnInv'
  BY <1>1, LearnKept
<1>3. LinkInv'
  BY <1>1 DEF LinkInv, WasmTypeOK, RightImport
<1>4. NoNullUse'
  <2>1. CASE init /\ UNCHANGED phase
    BY <1>1, <2>1 DEF NoNullUse
  <2>2. CASE CanFail
    <3>1. PICK s \in ImportVars : imported[s] = NullFn
      BY <2>2 DEF CanFail
    <3>2. \E i \in DOMAIN names : given[names[i]] = NotGiven
      BY <1>1, <3>1, NullImport
    <3> QED
      BY <1>1, <3>2 DEF NoNullUse
  <2> QED
    BY <2>1, <2>2 DEF InitModule
<1> QED
  BY <1>1, <1>2, <1>3, <1>4 DEF CallInv, ValuesArrive

\* A callback with several outputs.
LEMMA CallBackValues ==
    ASSUME NEW n \in 0..(SigBuf - 1), NEW isArray \in BOOLEAN, NEW needsLetter \in BOOLEAN,
           NEW l \in {"i", "d", "end"}, CallBack(n, isArray, needsLetter, l)
    PROVE  CallInv'
<1> DEFINE sig == OutputSig(n)
           filled == IF isArray \/ n = 0 THEN n ELSE 1
           letters == SubSeq(Captured(sig, l), 1, filled)
           sent == SubSeq(sig, 1, filled)
<1>1. n \in Nat /\ OutBuf \in Nat /\ filled \in 0..n
  BY MarshalAssumption
<1> HIDE DEF filled
<1>2. /\ call' = [len |-> n, room |-> OutBuf, want |-> Args(filled),
                  got |-> ReadAll(Cells(letters, Args(filled)), 0, sent)]
      /\ phase' \in {"abort", "use"}
  BY DEF CallBack, filled
<1>3. /\ DOMAIN sig = 1..n
      /\ \A i \in 1..n : sig[i] \in {"i", "d"} /\ sig[i] # "end"
  BY DEF OutputSig
<1>4. /\ DOMAIN letters = 1..filled /\ DOMAIN sent = 1..filled
      /\ \A i \in 1..filled : letters[i] = Captured(sig, l)[i] /\ sent[i] = sig[i]
  BY <1>1
<1>5. n < OutBuf => \A i \in 1..filled : letters[i] = sent[i] /\ letters[i] # "end"
  BY <1>1, <1>3, <1>4 DEF Captured
<1> HIDE DEF sig, letters, sent
<1>6. ASSUME n < OutBuf
      PROVE  ReadAll(Cells(letters, Args(filled)), 0, sent) = Args(filled)
  <2>1. ASSUME NEW i \in 1..filled
        PROVE  Read(Cells(letters, Args(filled)), i + 0, sent[i]) = i
    BY <1>4, <1>5, <1>6, <2>1 DEF Read, Cells, Cell, Args
  <2> QED
    BY <1>4, <2>1 DEF ReadAll, Args
<1>7. ValuesArrive'
  BY <1>2, <1>6 DEF ValuesArrive
<1>9. NoNullUse'
  BY <1>2 DEF NoNullUse
<1> QED
  BY <1>7, <1>9 DEF CallInv

-----------------------------------------------------------------------------
(* The inductive invariant.                                                *)

\* Nothing is loaded, learned or linked at first.
LEMMA Initially == Init => IInv
<1> SUFFICES ASSUME Init PROVE IInv
  OBVIOUS
<1> USE DEF Init
<1>1. DlInv
  BY DEF DlInit, NoReply, DlInv, DlTypeOK, GetReportsItself
<1>2. LearnInv
  <2>1. PhaseInv /\ CountsInv /\ NextInv /\ AskInv
    BY DEF PhaseInv, Phases, CountsInv, NextInv, AskInv
  <2>2. NamesInv
    <3>1. Named = 0
      <4>1. counts.exports = 0 /\ counts.imports = 0 /\ next = 0
        BY DEF NoCounts
      <4> QED
        BY <4>1 DEF Named
    <3> QED
      BY <3>1 DEF NamesInv
  <2>3. LearnedInv /\ LearnedIsDeclared /\ AnswersFit
    BY DEF LearnedInv, LearnedIsDeclared, AnswersFit, NoAsk
  <2> QED
    BY <2>1, <2>2, <2>3 DEF LearnInv
<1>3. LinkInv
  <2>1. ImportFuncs \subseteq Imports /\ ImportVars \subseteq Imports
    BY DEF ImportFuncs, ImportVars
  <2>2. WasmTypeOK /\ RightImport
    BY <2>1 DEF WasmInit, WasmTypeOK, RightImport
  <2> QED
    BY <2>2 DEF LinkInv
<1>4. CallInv
  BY DEF NoCall, CallInv, ValuesArrive, NoNullUse
<1> QED
  BY <1>1, <1>2, <1>3, <1>4 DEF IInv

\* Every action of the program and of the library keeps what is known, linked and told.
LEMMA Inductive == IInv /\ [Next]_vars => IInv'
<1> SUFFICES ASSUME IInv, [Next]_vars PROVE IInv'
  OBVIOUS
<1>0. DlInv /\ LearnInv /\ LinkInv /\ CallInv
  BY DEF IInv
<1>1. DlInv'
  BY <1>0, DlKept
<1> DEFINE Rest == LearnInv' /\ LinkInv' /\ CallInv'
<1> SUFFICES Rest
  BY <1>1 DEF IInv
<1>2. CASE UNCHANGED vars
  <2>1. UNCHANGED wasmvars /\ UNCHANGED clvars
    BY <1>2 DEF vars
  <2>2. LearnInv'
    BY <1>0, <2>1, LearnKept DEF clvars
  <2>3. LinkInv'
    BY <1>0, <2>1, LinkKept DEF clvars, LinkInv
  <2>4. CallInv'
    BY <1>0, <2>1, CallKept DEF clvars, wasmvars
  <2> QED
    BY <2>2, <2>3, <2>4
<1>3. ASSUME NEW p \in Paths, Open(p)
      PROVE  Rest
  <2>1. UNCHANGED wasmvars /\ UNCHANGED clvars
    BY <1>3 DEF Open
  <2>2. LearnInv'
    BY <1>0, <2>1, LearnKept DEF clvars
  <2>3. LinkInv'
    BY <1>0, <2>1, LinkKept DEF clvars, LinkInv
  <2>4. CallInv'
    BY <1>0, <2>1, CallKept DEF clvars, wasmvars
  <2> QED
    BY <2>2, <2>3, <2>4
<1>4. ASSUME NEW n \in Names, Get(n)
      PROVE  Rest
  <2>1. UNCHANGED wasmvars /\ UNCHANGED clvars
    BY <1>4 DEF Get
  <2>2. LearnInv'
    BY <1>0, <2>1, LearnKept DEF clvars
  <2>3. LinkInv'
    BY <1>0, <2>1, LinkKept DEF clvars, LinkInv
  <2>4. CallInv'
    BY <1>0, <2>1, CallKept DEF clvars, wasmvars
  <2> QED
    BY <2>2, <2>3, <2>4
<1>5. CASE AskLibrary
  <2>1. UNCHANGED <<wasmvars, given, running, call, ask, names>> /\ phase' = "ask"
        /\ phase = "load" /\ kind = "none"
    BY <1>0, <1>5 DEF AskLibrary, LearnInv, PhaseInv
  <2>2. LinkInv'
    <3>1. running' = {}
      BY <1>0, <2>1 DEF LinkInv
    <3> QED
      BY <1>0, <2>1, <3>1, LinkKept
  <2>3. CallInv'
    BY <1>0, <2>1 DEF CallInv, ValuesArrive, NoNullUse
  <2> QED
    BY <1>0, <1>5, <2>2, <2>3, AskLibraryKeeps
<1>6. CASE AskExport \/ AskImport \/ AskType \/ AskCounts \/ AskTypes
  <2>1. UNCHANGED <<wasmvars, kind, given, running, call>> /\ phase' \in {"ask", "use"}
    BY <1>6 DEF AskExport, AskImport, AskType, AskCounts, AskTypes
  <2>2. LearnInv'
    BY <1>0, <1>6, AskExportKeeps, AskImportKeeps, AskTypeKeeps, AskCountsKeeps, AskTypesKeeps
  <2>3. LinkInv'
    BY <1>0, <2>1, LinkKept DEF LinkInv
  <2>4. CallInv'
    BY <1>0, <2>1 DEF CallInv, ValuesArrive, NoNullUse
  <2> QED
    BY <2>2, <2>3, <2>4
<1>8. ASSUME NEW i \in 0..(counts.imports - 1), SetImport(i)
      PROVE  Rest
  <2>1. phase = "use" /\ UNCHANGED <<phase, kind, counts, next, ask, learned, names, call>>
    BY <1>8 DEF SetImport
  <2>2. LearnInv'
    BY <1>0, <2>1, LearnKept
  <2>3. LinkInv'
    BY <1>0, <1>8, SetImportLinks
  <2>4. CallInv'
    BY <1>0, <2>1 DEF CallInv, ValuesArrive, NoNullUse
  <2> QED
    BY <2>2, <2>3, <2>4
<1> DEFINE Used == /\ phase = "use" /\ phase' \in {"use", "abort", "crash"}
                   /\ UNCHANGED <<wasmvars, kind, counts, next, ask, learned, names, given>>
<1>9. ASSUME Used, running' \subseteq ExportFuncs, running' # {} => kind = "wasm"
      PROVE  LearnInv' /\ LinkInv'
  <2>1. LearnInv'
    BY <1>0, <1>9, LearnKept
  <2>2. LinkInv'
    BY <1>0, <1>9, LinkKept
  <2> QED
    BY <2>1, <2>2
<1>10. ASSUME NEW id \in ApiIds, NEW n \in 0..MaxArgs, CallStub(id, n)
       PROVE  Rest
  <2>1. Used /\ running' = running
    BY <1>10 DEF CallStub
  <2>2. LearnInv' /\ LinkInv'
    BY <1>0, <1>9, <2>1 DEF LinkInv
  <2> QED
    BY <1>0, <1>10, <2>2, CallStubValues
<1>11. ASSUME NEW s \in ExportFuncs, NEW n \in 0..MaxArgs, CallExport(s, n)
       PROVE  Rest
  <2>1. Used /\ running' = {s} /\ kind = "wasm"
    BY <1>11 DEF CallExport
  <2>2. LearnInv' /\ LinkInv'
    BY <1>9, <2>1
  <2> QED
    BY <1>0, <1>11, <2>2, CallExportValues
<1>12. ASSUME NEW n \in 0..(SigBuf - 1), NEW isArray \in BOOLEAN, NEW needsLetter \in BOOLEAN,
              NEW l \in {"i", "d", "end"}, CallBack(n, isArray, needsLetter, l)
       PROVE  Rest
  <2>1. Used /\ running' = running
    BY <1>12 DEF CallBack
  <2>2. LearnInv' /\ LinkInv'
    BY <1>0, <1>9, <2>1 DEF LinkInv
  <2> QED
    BY <1>0, <1>12, <2>2, CallBackValues
<1>13. ASSUME NEW k \in TypeIds, NEW n \in 0..MaxArgs, CallPointer(k, n)
       PROVE  Rest
  <2>1. Used /\ running' = running
    BY <1>13 DEF CallPointer
  <2>2. LearnInv' /\ LinkInv'
    BY <1>0, <1>9, <2>1 DEF LinkInv
  <2> QED
    BY <1>0, <1>13, <2>2, CallPointerValues
<1>14. ASSUME NEW s \in Exports, Return(s)
       PROVE  Rest
  <2>1. Used /\ running' = {} /\ s \in ExportFuncs
    BY <1>0, <1>14 DEF Return, LinkInv
  <2>2. LearnInv' /\ LinkInv'
    BY <1>9, <2>1
  <2> QED
    BY <1>0, <1>14, <2>1, <2>2, ReturnValues
<1>15. ASSUME NEW s \in ImportFuncs, CallImport(s)
       PROVE  Rest
  <2>1. Used /\ running' = running
    BY <1>15 DEF CallImport
  <2>2. LearnInv' /\ LinkInv'
    BY <1>0, <1>9, <2>1 DEF LinkInv
  <2> QED
    BY <1>0, <1>15, <2>2, CallImportValues
<1>16. ASSUME NEW s \in ImportVars, UseObject(s)
       PROVE  Rest
  <2>1. Used /\ running' = running
    BY <1>16 DEF UseObject
  <2>2. LearnInv' /\ LinkInv'
    BY <1>0, <1>9, <2>1 DEF LinkInv
  <2> QED
    BY <1>0, <1>16, <2>2, UseObjectValues
<1>17. CASE CallbackThrows
  <2>1. Used /\ running' = {} /\ UNCHANGED <<phase, call>>
    BY <1>17 DEF CallbackThrows
  <2>2. LearnInv' /\ LinkInv'
    BY <1>9, <2>1
  <2>3. CallInv'
    BY <1>0, <2>1, CallKept
  <2> QED
    BY <2>2, <2>3
<1>18. CASE Stopped
  BY <1>2, <1>18 DEF Stopped
<1>7. CASE AskBeyond
  <2>1. Used /\ running' = running /\ call' = call /\ phase' = "abort"
    BY <1>7 DEF AskBeyond
  <2>2. LearnInv' /\ LinkInv'
    BY <1>0, <1>9, <2>1 DEF LinkInv
  <2>3. CallInv'
    BY <1>0, <2>1 DEF CallInv, ValuesArrive, NoNullUse
  <2> QED
    BY <2>2, <2>3
<1>19. CASE InitModule
  BY <1>0, <1>19, InitModuleValues
<1> HIDE DEF Rest, Used
<1> QED
  BY <1>2, <1>3, <1>4, <1>5, <1>6, <1>7, <1>8, <1>10, <1>11, <1>12, <1>13, <1>14, <1>15,
     <1>16, <1>17, <1>18, <1>19 DEF Next

\* The program and its library never leave the invariant.
THEOREM Invariance == Spec => []IInv
BY Initially, Inductive, PTL DEF Spec

-----------------------------------------------------------------------------
(* Its consequences.                                                       *)

\* Every variable has its type.
THEOREM TypeCorrect == Spec => []TypeOK
<1>1. IInv => TypeOK
  <2> SUFFICES ASSUME IInv PROVE TypeOK
    OBVIOUS
  <2>1. DlTypeOK /\ WasmTypeOK /\ running \subseteq ExportFuncs
    BY DEF IInv, DlInv, LinkInv
  <2>2. PhaseInv /\ CountsInv /\ NextInv /\ NamesInv
    BY DEF IInv, LearnInv
  <2>3. next \in 0..Total
    <3>1. Total \in Nat /\ next \in Nat
      BY <2>2, Totals DEF NextInv
    <3>2. CASE phase = "load"
      <4>1. next = 0
        BY <2>2, <3>2 DEF PhaseInv, CountsInv
      <4> QED
        BY <3>1, <4>1
    <3>3. CASE phase # "load"
      <4>1. next <= Total
        BY <2>2, <3>1, <3>3 DEF PhaseInv, Phases, NextInv
      <4> QED
        BY <3>1, <4>1
    <3> QED
      BY <3>2, <3>3
  <2>4. DOMAIN names \subseteq 1..counts.imports /\ \A i \in DOMAIN names : names[i] \in Imports
    <3>1. names \in Seq(Imports) /\ Len(names) = Named
      BY <2>2 DEF NamesInv
    <3>2. DOMAIN names = 1..Named /\ Named \in Nat /\ \A i \in DOMAIN names : names[i] \in Imports
      BY <3>1, LenProperties, ElementOfSeq
    <3>3. counts.exports \in Nat /\ counts.imports \in Nat /\ next \in Nat
      BY <2>2, ApiFacts, ExportIndices, ImportIndices
         DEF PhaseInv, CountsInv, NextInv, StubCounts, WasmCounts, NoCounts
    <3>4. Named <= counts.imports
      BY <3>3 DEF Named
    <3> QED
      BY <3>2, <3>3, <3>4
  <2>5. \A s \in ImportFuncs : ncccdispatch[s] \in {Dispatcher, NullFn}
    <3>1. ASSUME NEW s \in ImportFuncs, ncccdispatch[s] # NullFn
          PROVE  ncccdispatch[s] = Dispatcher
      BY <3>1, ImportTarget DEF IInv
    <3> QED
      BY <3>1
  <2> QED
    BY <2>1, <2>2, <2>3, <2>4, <2>5 DEF TypeOK, PhaseInv, Phases
<1> QED
  BY <1>1, Invariance, PTL

\* dlfcn_get reports the outcome of its own lookup, whatever failed before it.
THEOREM GetIsCorrect == Spec => []GetReportsItself
<1>1. IInv => GetReportsItself
  BY DEF IInv, DlInv
<1> QED
  BY <1>1, Invariance, PTL

\* For every library: what the program is told of an object is its declaration, under indices
\* that are its own.
THEOREM MetadataIsDeclared == Spec => []LearnedIsDeclared
<1>1. IInv => LearnedIsDeclared
  BY DEF IInv, LearnInv
<1> QED
  BY <1>1, Invariance, PTL

\* For every library: each answer fills the buffer its counts asked for.
THEOREM AnswersAreFull == Spec => []AnswersFit
<1>1. IInv => AnswersFit
  BY DEF IInv, LearnInv
<1> QED
  BY <1>1, Invariance, PTL

\* For every signature: a value arrives in its place under its type, through stubs, dispatch
\* functions and callbacks, as long as the signature fits the buffer it is kept in.
THEOREM TransferIsCorrect == Spec => []ValuesArrive
<1>1. IInv => ValuesArrive
  BY DEF IInv, CallInv
<1> QED
  BY <1>1, Invariance, PTL

\* For every module: an import holds what the program last set under its name.
THEOREM LinkIsCorrect == Spec => []RightImport
<1>1. IInv => RightImport
  BY DEF IInv, LinkInv
<1> QED
  BY <1>1, Invariance, PTL

\* For every module: a null pointer is used only by an exported function that is called before
\* the module's init has run, or where an import is unset of which the library has told the
\* program the name.
THEOREM NullIsUnset == Spec => []NoNullUse
<1>1. IInv => NoNullUse
  BY DEF IInv, CallInv
<1> QED
  BY <1>1, Invariance, PTL
=============================================================================

-------------------------- MODULE CodeLengthsProofs --------------------------
(***************************************************************************)
(* CodeLengths for every number of symbols, every maximum length and every *)
(* range of the repeat symbols: the decoder reads the code lengths of the  *)
(* block back, each symbol was counted, and each offset fits its bits.     *)
(***************************************************************************)
EXTENDS CodeLengths, Induction, FiniteSetTheorems, SequenceTheorems

ClSymbol == [symbol : CodeLengthSymbol, bits : Nat]

Batches == {previous_3_or_more_times, zero_3_or_more_times, zero_11_or_more_times}

-----------------------------------------------------------------------------
(***************************************************************************)
(* Runs, and the symbols.                                                  *)
(***************************************************************************)
LEMMA MinOfTwo ==
  ASSUME NEW a \in Nat, NEW b \in Nat
  PROVE  Min({a, b}) = IF a <= b THEN a ELSE b
<1> DEFINE least == IF a <= b THEN a ELSE b
<1>1. least \in {a, b} /\ \A y \in {a, b} : least =< y
  OBVIOUS
<1>2. \A x \in {a, b} : (\A y \in {a, b} : x =< y) => x = least
  OBVIOUS
<1> HIDE DEF least
<1>3. Min({a, b}) = least
  BY <1>1, <1>2, Zenon DEF Min
<1> QED
  BY <1>3 DEF least

LEMMA TimesIs ==
  ASSUME NEW S, NEW v \in S, NEW n \in Nat
  PROVE  /\ Times(v, n) \in Seq(S) /\ Len(Times(v, n)) = n
         /\ \A k \in 1 .. n : Times(v, n)[k] = v
BY DEF Times

LEMMA TimesSum ==
  ASSUME NEW S, NEW v \in S, NEW m \in Nat, NEW n \in Nat
  PROVE  Times(v, m) \o Times(v, n) = Times(v, m + n)
<1> DEFINE a == Times(v, m)
           b == Times(v, n)
           c == Times(v, m + n)
<1>1. /\ a \in Seq(S) /\ Len(a) = m /\ \A k \in 1 .. m : a[k] = v
      /\ b \in Seq(S) /\ Len(b) = n /\ \A k \in 1 .. n : b[k] = v
  BY TimesIs
<1>2. c \in Seq(S) /\ Len(c) = m + n /\ \A k \in 1 .. m + n : c[k] = v
  <2>1. m + n \in Nat
    OBVIOUS
  <2> QED  BY <2>1, TimesIs
<1> HIDE DEF a, b, c
<1>3. /\ a \o b \in Seq(S) /\ Len(a \o b) = m + n
      /\ \A k \in 1 .. m + n : (a \o b)[k] = v
  BY <1>1
<1>4. Len(a \o b) = Len(c) /\ \A k \in 1 .. Len(a \o b) : (a \o b)[k] = c[k]
  BY <1>2, <1>3
<1>5. a \o b = c
  BY <1>2, <1>3, <1>4, SeqEqual
<1> QED
  BY <1>5 DEF a, b, c

LEMMA TimesNone ==
  ASSUME NEW v
  PROVE  Times(v, 0) = <<>>
BY DEF Times

LEMMA TimesOneMore ==
  ASSUME NEW S, NEW v \in S, NEW s \in Seq(S), NEW n \in Nat
  PROVE  /\ Append(s \o Times(v, n), v) = s \o Times(v, n + 1)
         /\ Append(s, v) = s \o Times(v, 1)
<1>1. \A t \in Seq(S) : Append(t, v) = t \o <<v>>
  OBVIOUS
<1>2. Times(v, 1) = <<v>>
  BY DEF Times
<1>3. Times(v, n) \in Seq(S) /\ Times(v, 1) \in Seq(S)
  BY TimesIs
<1>4. Times(v, n) \o Times(v, 1) = Times(v, n + 1)
  BY TimesSum
<1>5. s \o Times(v, n) \in Seq(S)
  BY <1>3
<1>6. (s \o Times(v, n)) \o Times(v, 1) = s \o (Times(v, n) \o Times(v, 1))
  BY <1>3
<1> QED
  BY <1>1, <1>2, <1>4, <1>5, <1>6, Zenon

LEMMA BatchIs ==
  ASSUME NEW batch \in Batches
  PROVE  /\ batch.min \in Nat \ {0} /\ batch.max \in Nat /\ batch.min <= batch.max
         /\ batch.symbol \in CodeLengthSymbol /\ batch.symbol \notin CodeLength
BY CodeLengthsAssumption
   DEF Batches, previous_3_or_more_times, zero_3_or_more_times, zero_11_or_more_times,
       CodeLengthSymbol, CodeLength

-----------------------------------------------------------------------------
(***************************************************************************)
(* What the decoder makes of the symbols.                                  *)
(***************************************************************************)
LEMMA InflatedExists ==
  ASSUME NEW symbols, NEW m \in Nat
  PROVE  \E out : out = [n \in 0 .. m |-> IF n = 0 THEN <<>>
                                          ELSE Read(out[n - 1], symbols[n])]
<1> DEFINE S == {l \in Nat :
                   \E out : out = [n \in 0 .. l |-> IF n = 0 THEN <<>>
                                         ELSE Read(out[n - 1], symbols[n])]}
<1>1. 0 \in S
  <2>1. [n \in 0 .. 0 |-> <<>>] = [n \in 0 .. 0 |-> IF n = 0 THEN <<>>
                             ELSE Read([j \in 0 .. 0 |-> <<>>][n - 1], symbols[n])]
    OBVIOUS
  <2> QED  BY <2>1
<1>2. ASSUME NEW l \in Nat, l \in S
      PROVE  l + 1 \in S
  <2>1. PICK out : out = [n \in 0 .. l |-> IF n = 0 THEN <<>>
                                           ELSE Read(out[n - 1], symbols[n])]
    BY <1>2
  <2> DEFINE longer == [n \in 0 .. l + 1 |-> IF n = 0 THEN <<>>
                                            ELSE Read(out[n - 1], symbols[n])]
             again == [n \in 0 .. l + 1 |-> IF n = 0 THEN <<>>
                                           ELSE Read(longer[n - 1], symbols[n])]
  <2>2. \A n \in 0 .. l : longer[n] = out[n]
    BY <2>1
  <2>3. \A n \in 0 .. l + 1 : n = 0 \/ n - 1 \in 0 .. l
    OBVIOUS
  <2>4. \A n \in 0 .. l + 1 : n = 0 \/ longer[n - 1] = out[n - 1]
    BY <2>2, <2>3, Zenon
  <2>5. \A n \in 0 .. l + 1 : longer[n] = again[n]
    BY <2>4
  <2>6. longer = [n \in 0 .. l + 1 |-> IF n = 0 THEN <<>>
                                       ELSE Read(longer[n - 1], symbols[n])]
    BY <2>5, Zenon
  <2> HIDE DEF longer
  <2>7. \E g : g = [n \in 0 .. l + 1 |-> IF n = 0 THEN <<>>
                                         ELSE Read(g[n - 1], symbols[n])]
    BY <2>6, Zenon
  <2>8. l + 1 \in Nat
    OBVIOUS
  <2> QED  BY <2>7, <2>8, Zenon
<1>3. m \in S
  <2> HIDE DEF S
  <2> QED  BY <1>1, <1>2, Induct
<1> QED
  BY <1>3

\* The lengths read before the n-th symbol.
Reads(out, symbols, n) ==
  /\ out[0] = <<>>
  /\ \A k \in 1 .. n : out[k] = Read(out[k - 1], symbols[k])

LEMMA InflatedReads ==
  ASSUME NEW symbols, Len(symbols) \in Nat
  PROVE  \E out : /\ Reads(out, symbols, Len(symbols))
                  /\ Inflated(symbols) = out[Len(symbols)]
<1> DEFINE m == Len(symbols)
           out == CHOOSE g : g = [n \in 0 .. m |-> IF n = 0 THEN <<>>
                                                   ELSE Read(g[n - 1], symbols[n])]
<1>1. out = [n \in 0 .. m |-> IF n = 0 THEN <<>> ELSE Read(out[n - 1], symbols[n])]
  BY InflatedExists, Zenon
<1>2. Inflated(symbols) = out[m]
  BY Zenon DEF Inflated
<1> HIDE DEF out
<1>3. 0 \in 0 .. m /\ \A k \in 1 .. m : k \in 0 .. m /\ k # 0
  OBVIOUS
<1>4. Reads(out, symbols, m)
  BY <1>1, <1>3, Zenon DEF Reads
<1> QED
  BY <1>2, <1>4, Zenon

LEMMA InflatedEmpty == Inflated(<<>>) = <<>>
<1>1. Len(<<>>) = 0
  OBVIOUS
<1>2. PICK out : Reads(out, <<>>, Len(<<>>)) /\ Inflated(<<>>) = out[Len(<<>>)]
  BY <1>1, InflatedReads
<1> QED
  BY <1>1, <1>2, Zenon DEF Reads

LEMMA InflatedAppend ==
  ASSUME NEW S, NEW s \in Seq(S), NEW c \in S
  PROVE  Inflated(Append(s, c)) = Read(Inflated(s), c)
<1> DEFINE t == Append(s, c)
           m == Len(s)
<1>1. /\ m \in Nat /\ Len(t) = m + 1 /\ t[m + 1] = c
      /\ \A k \in 1 .. m : t[k] = s[k]
  OBVIOUS
<1> HIDE DEF t, m
<1>2. PICK out : Reads(out, s, m) /\ Inflated(s) = out[m]
  BY <1>1, InflatedReads DEF m
<1>3. PICK longer : Reads(longer, t, m + 1) /\ Inflated(t) = longer[m + 1]
  BY <1>1, InflatedReads
<1> DEFINE T == {n \in Nat : n <= m => longer[n] = out[n]}
<1>4. 0 \in T
  BY <1>2, <1>3 DEF Reads
<1>5. ASSUME NEW n \in Nat, n \in T
      PROVE  n + 1 \in T
  <2>1. SUFFICES ASSUME n + 1 <= m
                 PROVE  longer[n + 1] = out[n + 1]
    OBVIOUS
  <2>2. /\ n + 1 \in 1 .. m /\ n + 1 \in 1 .. m + 1 /\ (n + 1) - 1 = n
        /\ longer[n] = out[n]
    BY <1>1, <1>5, <2>1
  <2>3. /\ out[n + 1] = Read(out[n], s[n + 1])
        /\ longer[n + 1] = Read(longer[n], t[n + 1])
    BY <1>2, <1>3, <2>2 DEF Reads
  <2> QED  BY <1>1, <2>2, <2>3, Zenon
<1>6. m \in T
  <2> HIDE DEF T
  <2> QED  BY <1>1, <1>4, <1>5, Induct
<1>7. longer[m] = out[m] /\ m + 1 \in 1 .. m + 1 /\ (m + 1) - 1 = m
  BY <1>1, <1>6
<1>8. longer[m + 1] = Read(longer[m], t[m + 1])
  BY <1>3, <1>7 DEF Reads
<1> QED
  BY <1>1, <1>2, <1>3, <1>7, <1>8, Zenon DEF t

\* A batch symbol stands for lengths that are all v behind the ones read.
Continues(batch, v, lengths) ==
  /\ v \in CodeLength /\ lengths \in Seq(CodeLength)
  /\ IF batch = previous_3_or_more_times THEN lengths # <<>> /\ Last(lengths) = v
     ELSE v = 0

LEMMA ReadSingle ==
  ASSUME NEW v \in CodeLength, NEW lengths
  PROVE  Read(lengths, Symbol(v)) = Append(lengths, v)
BY DEF Read, Symbol

LEMMA ReadRepeat ==
  ASSUME NEW batch \in Batches, NEW v, NEW lengths, Continues(batch, v, lengths),
         NEW size \in Nat, batch.min <= size
  PROVE  Read(lengths, RepeatSymbol(batch, size)) = lengths \o Times(v, size)
<1>1. /\ RepeatSymbol(batch, size).symbol = batch.symbol
      /\ RepeatSymbol(batch, size).bits = size - batch.min
      /\ batch.symbol \notin CodeLength
  BY BatchIs DEF RepeatSymbol
<1>2. MaximumPrefixCodeLength \in Nat
  BY CodeLengthsAssumption
<1>3. /\ batch.min \in Nat /\ batch.min + (size - batch.min) = size
      /\ (size - batch.min) + batch.min = size
  BY BatchIs
<1>4. CASE batch = previous_3_or_more_times
  <2>1. batch.symbol = previous_3_or_more_times.symbol /\ batch.min = RepeatMin
    BY <1>4 DEF previous_3_or_more_times
  <2>2. Last(lengths) = v
    BY <1>4, Zenon DEF Continues
  <2> QED  BY <1>1, <1>3, <2>1, <2>2, Zenon DEF Read
<1>5. CASE batch # previous_3_or_more_times
  <2>1. /\ batch.symbol # previous_3_or_more_times.symbol
        /\ batch.min = IF batch.symbol = zero_3_or_more_times.symbol
                       THEN ZerosMin ELSE ManyZerosMin
    BY <1>2, <1>5 DEF Batches, previous_3_or_more_times, zero_3_or_more_times,
                      zero_11_or_more_times
  <2>2. v = 0
    BY <1>5, Zenon DEF Continues
  <2> QED  BY <1>1, <1>3, <2>1, <2>2, Zenon DEF Read
<1> QED
  BY <1>4, <1>5

LEMMA SymbolIs ==
  ASSUME NEW v \in CodeLength
  PROVE  Symbol(v) \in ClSymbol
BY CodeLengthsAssumption DEF Symbol, ClSymbol, CodeLength, CodeLengthSymbol

LEMMA InflatedSingles ==
  ASSUME NEW s \in Seq(ClSymbol), NEW v \in CodeLength, NEW n \in Nat,
         Inflated(s) \in Seq(CodeLength)
  PROVE  Inflated(s \o Times(Symbol(v), n)) = Inflated(s) \o Times(v, n)
<1> DEFINE T == {k \in Nat : Inflated(s \o Times(Symbol(v), k)) = Inflated(s) \o Times(v, k)}
<1>1. Symbol(v) \in ClSymbol
  BY SymbolIs
<1>2. 0 \in T
  <2>1. s \o <<>> = s /\ Inflated(s) \o <<>> = Inflated(s)
    OBVIOUS
  <2>2. Times(Symbol(v), 0) = <<>> /\ Times(v, 0) = <<>>
    BY TimesNone, Zenon
  <2>3. Inflated(s \o Times(Symbol(v), 0)) = Inflated(s) \o Times(v, 0)
    BY <2>1, <2>2, Zenon
  <2> QED  BY <2>3
<1>3. ASSUME NEW k \in Nat, k \in T
      PROVE  k + 1 \in T
  <2>1. Append(s \o Times(Symbol(v), k), Symbol(v)) = s \o Times(Symbol(v), k + 1)
    BY <1>1, TimesOneMore
  <2>2. Append(Inflated(s) \o Times(v, k), v) = Inflated(s) \o Times(v, k + 1)
    BY TimesOneMore
  <2>3. s \o Times(Symbol(v), k) \in Seq(ClSymbol)
    <3>1. Times(Symbol(v), k) \in Seq(ClSymbol)
      BY <1>1, TimesIs
    <3> QED  BY <3>1
  <2>4. Inflated(s \o Times(Symbol(v), k + 1)) =
          Read(Inflated(s \o Times(Symbol(v), k)), Symbol(v))
    BY <1>1, <2>1, <2>3, InflatedAppend, Zenon
  <2>5. Inflated(s \o Times(Symbol(v), k + 1)) = Inflated(s) \o Times(v, k + 1)
    BY <1>3, <2>2, <2>4, ReadSingle, Zenon
  <2> QED  BY <2>5
<1>4. n \in T
  <2> HIDE DEF T
  <2> QED  BY <1>2, <1>3, Induct
<1> QED
  BY <1>4

-----------------------------------------------------------------------------
(***************************************************************************)
(* The repeat symbols of a run.                                            *)
(***************************************************************************)
Size(batch, left) == Min({batch.max, left})
NoRepeats(left) == [repeats |-> <<>>, left |-> left]
OneRepeat(batch, left, rest) ==
  [repeats |-> <<RepeatSymbol(batch, Size(batch, left))>> \o rest.repeats,
   left |-> rest.left]

LEMMA SizeIs ==
  ASSUME NEW batch \in Batches, NEW left \in Nat, ~(left < batch.min)
  PROVE  /\ Size(batch, left) \in Nat /\ Size(batch, left) <= left
         /\ Size(batch, left) \in batch.min .. batch.max
         /\ left - Size(batch, left) \in 0 .. left - 1
<1>1. Size(batch, left) = IF batch.max <= left THEN batch.max ELSE left
  BY BatchIs, MinOfTwo DEF Size
<1> QED
  BY <1>1, BatchIs

BatchedFrom(from, batch, N) ==
  from = [left \in 0 .. N |->
            IF left < batch.min THEN NoRepeats(left)
            ELSE OneRepeat(batch, left, from[left - Size(batch, left)])]

LEMMA BatchedExists ==
  ASSUME NEW batch \in Batches, NEW N \in Nat
  PROVE  \E from : BatchedFrom(from, batch, N)
<1> DEFINE S == {m \in Nat : \E from : BatchedFrom(from, batch, m)}
<1>1. 0 \in S
  <2> DEFINE none == [left \in 0 .. 0 |-> NoRepeats(left)]
  <2>1. \A left \in 0 .. 0 : left < batch.min
    BY BatchIs
  <2>2. none = [left \in 0 .. 0 |->
                  IF left < batch.min THEN NoRepeats(left)
                  ELSE OneRepeat(batch, left, none[left - Size(batch, left)])]
    BY <2>1, Zenon
  <2> HIDE DEF none
  <2> QED  BY <2>2 DEF BatchedFrom
<1>2. ASSUME NEW m \in Nat, m \in S
      PROVE  m + 1 \in S
  <2>1. PICK from : BatchedFrom(from, batch, m)
    BY <1>2
  <2> DEFINE longer == [left \in 0 .. m + 1 |->
                IF left < batch.min THEN NoRepeats(left)
                ELSE OneRepeat(batch, left, from[left - Size(batch, left)])]
             again == [left \in 0 .. m + 1 |->
                IF left < batch.min THEN NoRepeats(left)
                ELSE OneRepeat(batch, left, longer[left - Size(batch, left)])]
  <2>2. \A left \in 0 .. m : left \in 0 .. m + 1
    OBVIOUS
  <2>3. \A left \in 0 .. m : longer[left] = from[left]
    BY <2>1, <2>2, Zenon DEF BatchedFrom
  <2>4. \A left \in 0 .. m + 1 : left < batch.min \/ left - Size(batch, left) \in 0 .. m
    <3>1. SUFFICES ASSUME NEW left \in 0 .. m + 1, ~(left < batch.min)
                   PROVE  left - Size(batch, left) \in 0 .. m
      OBVIOUS
    <3>2. left - Size(batch, left) \in 0 .. left - 1
      BY <3>1, SizeIs
    <3>3. \A x \in 0 .. left - 1 : x \in 0 .. m
      OBVIOUS
    <3> QED  BY <3>2, <3>3, Zenon
  <2>5. \A left \in 0 .. m + 1 : longer[left] = again[left]
    <3>1. \A left \in 0 .. m + 1 : left < batch.min \/
            longer[left - Size(batch, left)] = from[left - Size(batch, left)]
      BY <2>3, <2>4, Zenon
    <3> QED  BY <3>1, Zenon
  <2>6. longer = again
    BY <2>5, Zenon
  <2> HIDE DEF longer
  <2>7. BatchedFrom(longer, batch, m + 1)
    BY <2>6, Zenon DEF BatchedFrom
  <2>8. m + 1 \in Nat
    OBVIOUS
  <2> QED  BY <2>7, <2>8, Zenon
<1>3. N \in S
  <2> HIDE DEF S
  <2> QED  BY <1>1, <1>2, Induct
<1> QED
  BY <1>3

LEMMA BatchedIs ==
  ASSUME NEW batch \in Batches, NEW N \in Nat
  PROVE  \E from : BatchedFrom(from, batch, N) /\ Batched(batch, N) = from[N]
<1> DEFINE from == CHOOSE g : BatchedFrom(g, batch, N)
<1>1. BatchedFrom(from, batch, N)
  BY BatchedExists, Zenon
<1>2. Batched(batch, N) = from[N]
  BY Zenon DEF Batched, BatchedFrom, NoRepeats, OneRepeat, Size
<1> QED
  BY <1>1, <1>2, Zenon

\* The loop of add_code_length_symbol_batch.
LEMMA BatchedStep ==
  ASSUME NEW batch \in Batches, NEW n \in Nat
  PROVE  Batched(batch, n) =
           IF n < batch.min THEN NoRepeats(n)
           ELSE OneRepeat(batch, n, Batched(batch, n - Size(batch, n)))
<1>1. PICK from : BatchedFrom(from, batch, n) /\ Batched(batch, n) = from[n]
  BY BatchedIs
<1>2. n \in 0 .. n
  OBVIOUS
<1>3. Batched(batch, n) = IF n < batch.min THEN NoRepeats(n)
                          ELSE OneRepeat(batch, n, from[n - Size(batch, n)])
  BY <1>1, <1>2, Zenon DEF BatchedFrom
<1>4. ASSUME ~(n < batch.min)
      PROVE  from[n - Size(batch, n)] = Batched(batch, n - Size(batch, n))
  <2> DEFINE m == n - Size(batch, n)
  <2>1. m \in Nat /\ m < n
    <3>1. m \in 0 .. n - 1
      BY <1>4, SizeIs
    <3> HIDE DEF m
    <3> QED  BY <3>1
  <2> HIDE DEF m
  <2>2. PICK part : BatchedFrom(part, batch, m) /\ Batched(batch, m) = part[m]
    BY <2>1, BatchedIs
  <2> DEFINE T == {l \in Nat : l <= m => from[l] = part[l]}
  <2>3. ASSUME NEW l \in Nat, \A k \in 0 .. l - 1 : k \in T
        PROVE  l \in T
    <3>1. SUFFICES ASSUME l <= m
                   PROVE  from[l] = part[l]
      OBVIOUS
    <3>2. l \in 0 .. m /\ l \in 0 .. n
      BY <2>1, <3>1
    <3>3. /\ from[l] = IF l < batch.min THEN NoRepeats(l)
                       ELSE OneRepeat(batch, l, from[l - Size(batch, l)])
          /\ part[l] = IF l < batch.min THEN NoRepeats(l)
                       ELSE OneRepeat(batch, l, part[l - Size(batch, l)])
      BY <1>1, <2>2, <3>2, Zenon DEF BatchedFrom
    <3>4. ~(l < batch.min) => from[l - Size(batch, l)] = part[l - Size(batch, l)]
      <4>1. SUFFICES ASSUME ~(l < batch.min)
                     PROVE  from[l - Size(batch, l)] = part[l - Size(batch, l)]
        OBVIOUS
      <4>2. l - Size(batch, l) \in 0 .. l - 1
        BY <4>1, SizeIs
      <4>3. \A k \in 0 .. l - 1 : k <= m
        BY <2>1, <3>1
      <4> QED  BY <2>3, <4>2, <4>3, Zenon
    <3> QED  BY <3>3, <3>4, Zenon
  <2>4. m \in T
    <3> HIDE DEF T
    <3> QED  BY <2>1, <2>3, InductFromSmaller
  <2>5. from[m] = part[m]
    BY <2>1, <2>4
  <2> QED  BY <2>2, <2>5, Zenon DEF m
<1> QED
  BY <1>3, <1>4, Zenon

\* They are of the batch, with offsets that fit, and the decoder makes of them
\* all of the run that is not left.
Stands(batch, n) ==
  LET b == Batched(batch, n) IN
  /\ b.left \in 0 .. n
  /\ b.repeats \in Seq(ClSymbol)
  /\ \A k \in 1 .. Len(b.repeats) :
       /\ b.repeats[k].symbol = batch.symbol
       /\ b.repeats[k].bits \in 0 .. batch.max - batch.min
  /\ \A s \in Seq(ClSymbol) : \A v :
       Continues(batch, v, Inflated(s)) =>
         Inflated(s \o b.repeats) = Inflated(s) \o Times(v, n - b.left)

LEMMA StandsForNone ==
  ASSUME NEW batch \in Batches, NEW n \in Nat, n < batch.min
  PROVE  Stands(batch, n)
<1>1. Batched(batch, n) = NoRepeats(n)
  BY BatchedStep, Zenon
<1>2. Batched(batch, n).repeats = <<>> /\ Batched(batch, n).left = n
  BY <1>1 DEF NoRepeats
<1>3. /\ n \in 0 .. n /\ n - n = 0 /\ <<>> \in Seq(ClSymbol) /\ Len(<<>>) = 0
      /\ 1 .. 0 = {}
  OBVIOUS
<1>4. ASSUME NEW s \in Seq(ClSymbol), NEW v, Continues(batch, v, Inflated(s))
      PROVE  Inflated(s \o <<>>) = Inflated(s) \o Times(v, n - n)
  <2>1. Inflated(s) \in Seq(CodeLength)
    BY <1>4, Zenon DEF Continues
  <2>2. s \o <<>> = s /\ Inflated(s) \o <<>> = Inflated(s)
    BY <2>1
  <2> QED  BY <1>3, <2>2, TimesNone, Zenon
<1> QED
  BY <1>2, <1>3, <1>4, Zenon DEF Stands

LEMMA StandsForMore ==
  ASSUME NEW batch \in Batches, NEW n \in Nat, ~(n < batch.min),
         Stands(batch, n - Size(batch, n))
  PROVE  Stands(batch, n)
<1> DEFINE size == Size(batch, n)
           m == n - size
           rest == Batched(batch, m)
           r == RepeatSymbol(batch, size)
           all == <<r>> \o rest.repeats
<1>1. /\ size \in Nat /\ size <= n /\ size \in batch.min .. batch.max /\ size >= batch.min
      /\ m \in 0 .. n - 1 /\ m \in Nat
      /\ batch.min \in Nat \ {0} /\ batch.max \in Nat /\ batch.symbol \in CodeLengthSymbol
  BY SizeIs, BatchIs
<1>2. Batched(batch, n).repeats = all /\ Batched(batch, n).left = rest.left
  <2>1. Batched(batch, n) = OneRepeat(batch, n, rest)
    BY BatchedStep, Zenon
  <2> QED  BY <2>1 DEF OneRepeat
<1>3. /\ r \in ClSymbol /\ r.symbol = batch.symbol
      /\ r.bits \in 0 .. batch.max - batch.min
  <2> HIDE DEF size
  <2> QED  BY <1>1 DEF RepeatSymbol, ClSymbol
<1>4. /\ rest.left \in 0 .. m /\ rest.repeats \in Seq(ClSymbol)
      /\ \A k \in 1 .. Len(rest.repeats) :
           /\ rest.repeats[k].symbol = batch.symbol
           /\ rest.repeats[k].bits \in 0 .. batch.max - batch.min
      /\ \A s \in Seq(ClSymbol) : \A v :
           Continues(batch, v, Inflated(s)) =>
             Inflated(s \o rest.repeats) = Inflated(s) \o Times(v, m - rest.left)
  BY Zenon DEF Stands
<1> DEFINE left == rest.left
           repeats == rest.repeats
<1> HIDE DEF r, rest, size, m
<1>5. left \in 0 .. n /\ m - left \in Nat /\ size + (m - left) = n - left
  BY <1>1, <1>4 DEF m
<1>6. /\ all \in Seq(ClSymbol) /\ Len(all) = Len(repeats) + 1
      /\ all[1] = r /\ \A k \in 2 .. Len(all) : all[k] = repeats[k - 1]
  <2> HIDE DEF repeats
  <2> QED  BY <1>3, <1>4 DEF repeats
<1>7. ASSUME NEW k \in 1 .. Len(all)
      PROVE  /\ all[k].symbol = batch.symbol
             /\ all[k].bits \in 0 .. batch.max - batch.min
  <2>1. CASE k = 1
    BY <1>3, <1>6, <2>1, Zenon
  <2>2. CASE k # 1
    <3>1. k \in 2 .. Len(all) /\ k - 1 \in 1 .. Len(repeats)
      <4> HIDE DEF all, repeats
      <4>1. Len(repeats) \in Nat
        BY <1>4 DEF repeats
      <4> QED  BY <1>6, <2>2, <4>1
    <3> QED  BY <1>4, <1>6, <3>1, Zenon
  <2> QED  BY <2>1, <2>2
<1>8. ASSUME NEW s \in Seq(ClSymbol), NEW v, Continues(batch, v, Inflated(s))
      PROVE  Inflated(s \o all) = Inflated(s) \o Times(v, n - left)
  <2> DEFINE t == Append(s, r)
             before == Inflated(s)
             after == before \o Times(v, size)
  <2>1. t \in Seq(ClSymbol) /\ s \o all = t \o repeats
    <3>1. /\ t \in Seq(ClSymbol) /\ <<r>> \in Seq(ClSymbol)
          /\ Append(s, r) = s \o <<r>>
      BY <1>3
    <3>2. repeats \in Seq(ClSymbol)
      BY <1>4, Zenon
    <3>3. \A a, b, c \in Seq(ClSymbol) : (a \o b) \o c = a \o (b \o c)
      OBVIOUS
    <3>4. (s \o <<r>>) \o repeats = s \o (<<r>> \o repeats)
      BY <3>1, <3>2, <3>3, Zenon
    <3> QED  BY <3>1, <3>4, Zenon DEF repeats
  <2>2. Inflated(t) = after
    <3>1. Inflated(t) = Read(before, r)
      BY <1>3, InflatedAppend
    <3>2. Read(before, r) = after
      BY <1>1, <1>8, ReadRepeat, Zenon DEF r
    <3> QED  BY <3>1, <3>2, Zenon
  <2>3. v \in CodeLength /\ before \in Seq(CodeLength)
    BY <1>8, Zenon DEF Continues
  <2>4. /\ Times(v, size) \in Seq(CodeLength) /\ Len(Times(v, size)) = size
        /\ \A k \in 1 .. size : Times(v, size)[k] = v
    BY <1>1, <2>3, TimesIs
  <2> HIDE DEF before, t
  <2>5. after \in Seq(CodeLength) /\ after # <<>> /\ Last(after) = v
    <3> DEFINE run == Times(v, size)
    <3>1. size \in 1 .. size /\ Len(before) \in Nat
      BY <1>1, <2>3
    <3>2. run[size] = v
      BY <2>4, <3>1
    <3> HIDE DEF run
    <3>3. before \o run \in Seq(CodeLength) /\ Len(before \o run) = Len(before) + size
      BY <1>1, <2>3, <2>4 DEF run
    <3>4. (before \o run)[Len(before) + size] = run[size]
      BY <1>1, <2>3, <2>4, <3>1 DEF run
    <3>5. before \o run # <<>>
      BY <3>1, <3>3
    <3> QED  BY <3>2, <3>3, <3>4, <3>5, Zenon DEF Last, run
  <2>6. Continues(batch, v, Inflated(t))
    BY <1>8, <2>2, <2>3, <2>5, Zenon DEF Continues
  <2>7. Inflated(t \o repeats) = after \o Times(v, m - left)
    BY <1>4, <2>1, <2>2, <2>6, Zenon
  <2>8. after \o Times(v, m - left) = before \o Times(v, n - left)
    <3>1. Times(v, size) \o Times(v, m - left) = Times(v, n - left)
      <4>1. Times(v, size) \o Times(v, m - left) = Times(v, size + (m - left))
        BY <1>1, <1>5, <2>3, TimesSum, Zenon
      <4> QED  BY <1>5, <4>1, Zenon
    <3>2. Times(v, m - left) \in Seq(CodeLength)
      BY <1>5, <2>3, TimesIs, Zenon
    <3>3. \A a, b, c \in Seq(CodeLength) : (a \o b) \o c = a \o (b \o c)
      OBVIOUS
    <3>4. (before \o Times(v, size)) \o Times(v, m - left) =
            before \o (Times(v, size) \o Times(v, m - left))
      BY <2>3, <2>4, <3>2, <3>3, Zenon
    <3> QED  BY <3>1, <3>4, Zenon
  <2> QED  BY <2>1, <2>7, <2>8, Zenon DEF before
<1> QED
  BY <1>2, <1>5, <1>6, <1>7, <1>8, Zenon DEF Stands

LEMMA BatchedStands ==
  ASSUME NEW batch \in Batches, NEW n \in Nat
  PROVE  Stands(batch, n)
<1> DEFINE T == {m \in Nat : Stands(batch, m)}
<1>1. ASSUME NEW m \in Nat, \A k \in 0 .. m - 1 : k \in T
      PROVE  m \in T
  <2>1. CASE m < batch.min
    BY <2>1, StandsForNone
  <2>2. CASE ~(m < batch.min)
    <3>1. m - Size(batch, m) \in 0 .. m - 1
      BY <2>2, SizeIs
    <3>2. Stands(batch, m - Size(batch, m))
      BY <1>1, <3>1, Zenon
    <3> QED  BY <2>2, <3>2, StandsForMore
  <2> QED  BY <2>1, <2>2
<1>2. n \in T
  <2> HIDE DEF T
  <2> QED  BY <1>1, InductFromSmaller
<1> QED
  BY <1>2

-----------------------------------------------------------------------------
(***************************************************************************)
(* The counts and the offsets.                                             *)
(***************************************************************************)
Count(s, x) == Cardinality({k \in DOMAIN s : s[k].symbol = x})

LEMMA CountIs ==
  ASSUME NEW s \in Seq(ClSymbol), NEW x
  PROVE  IsFiniteSet({k \in DOMAIN s : s[k].symbol = x}) /\ Count(s, x) \in Nat
<1>1. DOMAIN s = 1 .. Len(s) /\ Len(s) \in Nat
  OBVIOUS
<1>2. IsFiniteSet(1 .. Len(s))
  BY <1>1, FS_Interval
<1>3. {k \in DOMAIN s : s[k].symbol = x} \in SUBSET (1 .. Len(s))
  BY <1>1
<1>4. IsFiniteSet({k \in DOMAIN s : s[k].symbol = x})
  BY <1>2, <1>3, FS_Subset
<1> QED
  BY <1>4, FS_CardinalityType DEF Count

LEMMA CountAppend ==
  ASSUME NEW s \in Seq(ClSymbol), NEW c \in ClSymbol, NEW x
  PROVE  Count(Append(s, c), x) = Count(s, x) + (IF c.symbol = x THEN 1 ELSE 0)
<1> DEFINE t == Append(s, c)
           m == Len(s)
           S == {k \in DOMAIN s : s[k].symbol = x}
           T == {k \in DOMAIN t : t[k].symbol = x}
<1>1. /\ m \in Nat /\ DOMAIN s = 1 .. m /\ DOMAIN t = 1 .. m + 1 /\ t[m + 1] = c
      /\ \A k \in 1 .. m : t[k] = s[k]
  OBVIOUS
<1> HIDE DEF t, m
<1>2. IsFiniteSet(S) /\ Cardinality(S) \in Nat
  BY CountIs DEF Count
<1>3. CASE c.symbol = x
  <2>1. T = S \cup {m + 1} /\ m + 1 \notin S
    BY <1>1, <1>3
  <2>2. Cardinality(S \cup {m + 1}) = Cardinality(S) + 1
    BY <1>2, <2>1, FS_AddElement
  <2> QED  BY <1>3, <2>1, <2>2, Zenon DEF Count, t
<1>4. CASE c.symbol # x
  <2>1. T = S
    BY <1>1, <1>4
  <2>2. Cardinality(S) + 0 = Cardinality(S)
    BY <1>2
  <2> QED  BY <1>4, <2>1, <2>2, Zenon DEF Count, t
<1> QED
  BY <1>3, <1>4

LEMMA ConcatAppend ==
  ASSUME NEW S, NEW s \in Seq(S), NEW t \in Seq(S), NEW c \in S
  PROVE  s \o Append(t, c) = Append(s \o t, c) /\ s \o t \in Seq(S)
OBVIOUS

CountsMore(s, t, x, y) ==
  Count(s \o t, x) = Count(s, x) + (IF x = y THEN Len(t) ELSE 0)

LEMMA CountUniform ==
  ASSUME NEW s \in Seq(ClSymbol), NEW t \in Seq(ClSymbol), NEW y,
         \A k \in 1 .. Len(t) : t[k].symbol = y, NEW x
  PROVE  CountsMore(s, t, x, y)
<1> DEFINE T == {k \in Nat : k <= Len(t) =>
                   Count(s \o SubSeq(t, 1, k), x) = Count(s, x) + (IF x = y THEN k ELSE 0)}
<1>1. Len(t) \in Nat /\ Count(s, x) \in Nat
  <2>1. Len(t) \in Nat
    OBVIOUS
  <2> QED  BY <2>1, CountIs, Zenon
<1>2. 0 \in T
  <2>1. SubSeq(t, 1, 0) = <<>> /\ s \o <<>> = s
    OBVIOUS
  <2>2. Count(s, x) = Count(s, x) + (IF x = y THEN 0 ELSE 0)
    BY <1>1
  <2>3. Count(s \o SubSeq(t, 1, 0), x) = Count(s, x) + (IF x = y THEN 0 ELSE 0)
    BY <2>1, <2>2, Zenon
  <2> QED  BY <2>3
<1>3. ASSUME NEW k \in Nat, k \in T
      PROVE  k + 1 \in T
  <2> DEFINE a == SubSeq(t, 1, k)
             b == SubSeq(t, 1, k + 1)
             c == t[k + 1]
  <2>1. SUFFICES ASSUME k + 1 <= Len(t)
                 PROVE  Count(s \o b, x) = Count(s, x) + (IF x = y THEN k + 1 ELSE 0)
    OBVIOUS
  <2>2. k + 1 \in 1 .. Len(t) /\ k <= Len(t) /\ c \in ClSymbol /\ c.symbol = y
    BY <1>1, <2>1
  <2>3. a \in Seq(ClSymbol) /\ b = Append(a, c)
    BY <2>2
  <2>4. Count(s \o a, x) = Count(s, x) + (IF x = y THEN k ELSE 0)
    BY <1>3, <2>2
  <2> HIDE DEF a, b, c
  <2>5. s \o b = Append(s \o a, c) /\ s \o a \in Seq(ClSymbol)
    BY <2>2, <2>3, ConcatAppend
  <2>6. Count(s \o b, x) = Count(s \o a, x) + (IF c.symbol = x THEN 1 ELSE 0)
    <3> DEFINE u == s \o a
    <3>1. u \in Seq(ClSymbol) /\ c \in ClSymbol
      BY <2>2, <2>5, Zenon
    <3> HIDE DEF u
    <3>2. Count(Append(u, c), x) = Count(u, x) + (IF c.symbol = x THEN 1 ELSE 0)
      BY <3>1, CountAppend
    <3> QED  BY <2>5, <3>2, Zenon DEF u
  <2>7. \A r, l \in Nat : (r + l) + 1 = r + (l + 1) /\ (r + 0) + 0 = r + 0
    OBVIOUS
  <2>8. CASE x = y
    BY <1>1, <2>2, <2>4, <2>6, <2>7, <2>8, Zenon
  <2>9. CASE x # y
    BY <1>1, <2>2, <2>4, <2>6, <2>7, <2>9, Zenon
  <2> QED  BY <2>8, <2>9
<1>4. Len(t) \in T
  <2> HIDE DEF T
  <2> QED  BY <1>1, <1>2, <1>3, Induct
<1>5. SubSeq(t, 1, Len(t)) = t /\ Len(t) <= Len(t)
  BY <1>1
<1> QED
  BY <1>4, <1>5, Zenon DEF CountsMore

\* An offset fits the bits that are written of it.
Fits(c, k) ==
  \/ c.symbol \in CodeLength /\ c.bits = 0
  \/ \E batch \in Batches :
       /\ c.symbol = batch.symbol
       /\ c.bits \in 0 .. batch.max - batch.min
       /\ batch = previous_3_or_more_times => k > 1

Offsets(s) == \A k \in DOMAIN s : Fits(s[k], k)

LEMMA OffsetsOfBoth ==
  ASSUME NEW s \in Seq(ClSymbol), NEW t \in Seq(ClSymbol), Offsets(s),
         \A k \in 1 .. Len(t) : Fits(t[k], Len(s) + k)
  PROVE  Offsets(s \o t)
<1> DEFINE m == Len(s)
           u == s \o t
<1>1. /\ m \in Nat /\ Len(t) \in Nat /\ DOMAIN s = 1 .. m
      /\ DOMAIN u = 1 .. m + Len(t)
      /\ \A k \in 1 .. m + Len(t) : u[k] = IF k <= m THEN s[k] ELSE t[k - m]
  OBVIOUS
<1> HIDE DEF m, u
<1>2. ASSUME NEW k \in 1 .. m + Len(t)
      PROVE  Fits(u[k], k)
  <2>1. CASE k <= m
    <3>1. k \in DOMAIN s /\ u[k] = s[k]
      BY <1>1, <2>1
    <3> QED  BY <3>1, Zenon DEF Offsets
  <2>2. CASE ~(k <= m)
    <3>1. k - m \in 1 .. Len(t) /\ m + (k - m) = k /\ u[k] = t[k - m]
      BY <1>1, <2>2
    <3>2. Fits(t[k - m], m + (k - m))
      BY <3>1, Zenon DEF m
    <3> QED  BY <3>1, <3>2, Zenon
  <2> QED  BY <2>1, <2>2
<1> QED
  BY <1>1, <1>2, Zenon DEF Offsets, u

-----------------------------------------------------------------------------
(***************************************************************************)
(* The symbols so far, and their counts.                                   *)
(***************************************************************************)
Good(s, count) ==
  /\ s \in Seq(ClSymbol)
  /\ count \in [CodeLengthSymbol -> Nat]
  /\ \A x \in CodeLengthSymbol : count[x] = Count(s, x)
  /\ Offsets(s)
  /\ Inflated(s) \in Seq(CodeLength)

\* More symbols that are all the same.
LEMMA GoodMore ==
  ASSUME NEW s, NEW count, Good(s, count), NEW t \in Seq(ClSymbol),
         NEW y \in CodeLengthSymbol, \A k \in 1 .. Len(t) : t[k].symbol = y,
         \A k \in 1 .. Len(t) : Fits(t[k], Len(s) + k),
         Inflated(s \o t) \in Seq(CodeLength)
  PROVE  Good(s \o t, [count EXCEPT ![y] = @ + Len(t)])
<1> DEFINE more == [count EXCEPT ![y] = @ + Len(t)]
<1>1. /\ s \in Seq(ClSymbol) /\ count \in [CodeLengthSymbol -> Nat]
      /\ \A x \in CodeLengthSymbol : count[x] = Count(s, x)
      /\ Offsets(s)
  BY Zenon DEF Good
<1>2. s \o t \in Seq(ClSymbol) /\ Len(t) \in Nat
  BY <1>1
<1>3. more \in [CodeLengthSymbol -> Nat]
  BY <1>1, <1>2
<1>4. \A x \in CodeLengthSymbol : more[x] = count[x] + (IF x = y THEN Len(t) ELSE 0)
  BY <1>1, <1>2
<1>5. ASSUME NEW x
      PROVE  Count(s \o t, x) = Count(s, x) + (IF x = y THEN Len(t) ELSE 0)
  <2>1. CountsMore(s, t, x, y)
    BY <1>1, CountUniform
  <2> QED  BY <2>1, Zenon DEF CountsMore
<1>6. Offsets(s \o t)
  BY <1>1, OffsetsOfBoth, Zenon
<1> HIDE DEF more
<1>7. \A x \in CodeLengthSymbol : more[x] = Count(s \o t, x)
  BY <1>1, <1>4, <1>5, Zenon
<1> QED
  BY <1>2, <1>3, <1>6, <1>7, Zenon DEF Good, more

LEMMA GoodSingles ==
  ASSUME NEW s, NEW count, Good(s, count), NEW v \in CodeLength, NEW n \in Nat
  PROVE  /\ Good(s \o Times(Symbol(v), n), [count EXCEPT ![v] = @ + n])
         /\ Inflated(s \o Times(Symbol(v), n)) = Inflated(s) \o Times(v, n)
<1> DEFINE t == Times(Symbol(v), n)
<1>1. s \in Seq(ClSymbol) /\ Inflated(s) \in Seq(CodeLength) /\ Symbol(v) \in ClSymbol
  BY SymbolIs, Zenon DEF Good
<1>2. /\ t \in Seq(ClSymbol) /\ Len(t) = n /\ \A k \in 1 .. n : t[k] = Symbol(v)
      /\ Times(v, n) \in Seq(CodeLength)
  BY <1>1, TimesIs
<1>3. Symbol(v).symbol = v /\ Symbol(v).bits = 0 /\ v \in CodeLengthSymbol
  BY CodeLengthsAssumption DEF Symbol, CodeLength, CodeLengthSymbol
<1>4. Inflated(s \o t) = Inflated(s) \o Times(v, n)
  BY <1>1, InflatedSingles
<1>5. Inflated(s) \o Times(v, n) \in Seq(CodeLength)
  BY <1>1, <1>2
<1> HIDE DEF t
<1>6. \A k \in 1 .. Len(t) : t[k].symbol = v /\ Fits(t[k], Len(s) + k)
  BY <1>2, <1>3, Zenon DEF Fits
<1>7. Good(s \o t, [count EXCEPT ![v] = @ + Len(t)])
  BY <1>2, <1>3, <1>4, <1>5, <1>6, GoodMore, Zenon
<1> QED
  BY <1>2, <1>4, <1>7, Zenon DEF t

LEMMA GoodRepeats ==
  ASSUME NEW s, NEW count, Good(s, count), NEW batch \in Batches, NEW n \in Nat,
         NEW v, Continues(batch, v, Inflated(s))
  PROVE  LET b == Batched(batch, n) IN
         /\ Good(s \o b.repeats, [count EXCEPT ![batch.symbol] = @ + Len(b.repeats)])
         /\ Inflated(s \o b.repeats) = Inflated(s) \o Times(v, n - b.left)
<1> DEFINE b == Batched(batch, n)
           t == b.repeats
<1>1. /\ b.left \in 0 .. n /\ t \in Seq(ClSymbol)
      /\ \A k \in 1 .. Len(t) :
           t[k].symbol = batch.symbol /\ t[k].bits \in 0 .. batch.max - batch.min
      /\ \A r \in Seq(ClSymbol) : \A w :
           Continues(batch, w, Inflated(r)) =>
             Inflated(r \o t) = Inflated(r) \o Times(w, n - b.left)
  BY BatchedStands, Zenon DEF Stands
<1>2. s \in Seq(ClSymbol) /\ Inflated(s) \in Seq(CodeLength) /\ v \in CodeLength
  BY Zenon DEF Good, Continues
<1>3. Inflated(s \o t) = Inflated(s) \o Times(v, n - b.left)
  BY <1>1, <1>2, Zenon
<1> DEFINE m == n - b.left
<1>4. m \in Nat
  <2> HIDE DEF b
  <2> QED  BY <1>1
<1>5. Inflated(s \o t) \in Seq(CodeLength)
  <2>1. Times(v, m) \in Seq(CodeLength)
    BY <1>2, <1>4, TimesIs, Zenon
  <2>2. \A p, q \in Seq(CodeLength) : p \o q \in Seq(CodeLength)
    OBVIOUS
  <2> QED  BY <1>2, <1>3, <2>1, <2>2, Zenon
<1>6. batch = previous_3_or_more_times => Len(s) \in Nat \ {0}
  <2>1. SUFFICES ASSUME batch = previous_3_or_more_times
                 PROVE  Len(s) \in Nat \ {0}
    OBVIOUS
  <2>2. Inflated(s) # <<>>
    BY <2>1, Zenon DEF Continues
  <2>3. s # <<>>
    BY <2>2, InflatedEmpty, Zenon
  <2> QED  BY <1>2, <2>3, EmptySeq
<1>7. ASSUME NEW k \in 1 .. Len(t)
      PROVE  Fits(t[k], Len(s) + k)
  <2>1. batch = previous_3_or_more_times => Len(s) + k > 1
    <3> HIDE DEF t
    <3> QED  BY <1>6
  <2>2. t[k].symbol = batch.symbol /\ t[k].bits \in 0 .. batch.max - batch.min
    BY <1>1, Zenon
  <2> QED  BY <2>1, <2>2, Zenon DEF Fits
<1>8. batch.symbol \in CodeLengthSymbol
  BY BatchIs
<1> HIDE DEF t
<1>9. Good(s \o t, [count EXCEPT ![batch.symbol] = @ + Len(t)])
  BY <1>1, <1>5, <1>7, <1>8, GoodMore, Zenon
<1> QED
  BY <1>3, <1>9, Zenon DEF t

\* add_code_length_symbol_batch, behind a length that is written first or not.
AfterBatch(s, batch, n, v, first) ==
  s \o Times(Symbol(v), first) \o Batched(batch, n).repeats
    \o Times(Symbol(v), Batched(batch, n).left)

CountAfterBatch(count, batch, n, v, first) ==
  [count EXCEPT ![batch.symbol] = @ + Len(Batched(batch, n).repeats),
                ![v] = @ + (first + Batched(batch, n).left)]

GoodAfterBatch(s, count, batch, n, v, first) ==
  /\ Good(AfterBatch(s, batch, n, v, first), CountAfterBatch(count, batch, n, v, first))
  /\ Inflated(AfterBatch(s, batch, n, v, first)) = Inflated(s) \o Times(v, first + n)

LEMMA GoodBatch ==
  ASSUME NEW s, NEW count, Good(s, count), NEW batch \in Batches, NEW n \in Nat,
         NEW v \in CodeLength, NEW first \in Nat,
         Continues(batch, v, Inflated(s) \o Times(v, first))
  PROVE  GoodAfterBatch(s, count, batch, n, v, first)
<1> DEFINE b == Batched(batch, n)
           repeats == b.repeats
           left == b.left
           s1 == s \o Times(Symbol(v), first)
           s2 == s1 \o repeats
           s3 == s2 \o Times(Symbol(v), left)
           count1 == [count EXCEPT ![v] = @ + first]
           count2 == [count1 EXCEPT ![batch.symbol] = @ + Len(repeats)]
           count3 == [count2 EXCEPT ![v] = @ + left]
<1>1. Good(s1, count1) /\ Inflated(s1) = Inflated(s) \o Times(v, first)
  BY GoodSingles, Zenon
<1>2. left \in 0 .. n /\ repeats \in Seq(ClSymbol)
  BY BatchedStands, Zenon DEF Stands
<1>3. left \in Nat /\ n - left \in Nat /\ first + (n - left) + left = first + n
      /\ Len(repeats) \in Nat
  <2> HIDE DEF left, repeats
  <2> QED  BY <1>2
<1> HIDE DEF s1, count1
<1>4. Good(s2, count2) /\ Inflated(s2) = Inflated(s1) \o Times(v, n - left)
  BY <1>1, GoodRepeats, Zenon
<1> HIDE DEF s2, count2
<1>5. Good(s3, count3) /\ Inflated(s3) = Inflated(s2) \o Times(v, left)
  BY <1>3, <1>4, GoodSingles, Zenon
<1>6. Inflated(s3) = Inflated(s) \o Times(v, first + n)
  <2> DEFINE p == Inflated(s)
             f == Times(v, first)
             g == Times(v, n - left)
             h == Times(v, left)
  <2>1. p \in Seq(CodeLength)
    BY Zenon DEF Good
  <2>2. f \in Seq(CodeLength) /\ g \in Seq(CodeLength) /\ h \in Seq(CodeLength)
    BY <1>3, TimesIs, Zenon
  <2>3. (f \o g) \o h = Times(v, first + n)
    <3>1. first + (n - left) \in Nat
      <4> HIDE DEF left
      <4> QED  BY <1>3
    <3>2. f \o g = Times(v, first + (n - left))
      BY <1>3, TimesSum, Zenon
    <3>3. Times(v, first + (n - left)) \o h = Times(v, first + (n - left) + left)
      BY <1>3, <3>1, TimesSum, Zenon
    <3> QED  BY <1>3, <3>2, <3>3, Zenon
  <2> HIDE DEF p, f, g, h
  <2>4. ((p \o f) \o g) \o h = p \o ((f \o g) \o h)
    BY <2>1, <2>2
  <2> QED  BY <1>1, <1>4, <1>5, <2>3, <2>4, Zenon DEF p, f, g, h
<1>7. count3 = CountAfterBatch(count, batch, n, v, first)
  <2> DEFINE x == batch.symbol
             l == Len(repeats)
             direct == [count EXCEPT ![x] = @ + l, ![v] = @ + (first + left)]
  <2>1. count \in [CodeLengthSymbol -> Nat]
    BY Zenon DEF Good
  <2>2. x \in CodeLengthSymbol /\ v \in CodeLengthSymbol /\ x # v
    BY BatchIs, CodeLengthsAssumption DEF CodeLength, CodeLengthSymbol
  <2>3. l \in Nat
    BY <1>3
  <2> HIDE DEF x, l, left
  <2>4. \A z \in CodeLengthSymbol : count1[z] = IF z = v THEN count[z] + first ELSE count[z]
    BY <2>1 DEF count1
  <2>5. \A z \in CodeLengthSymbol : count2[z] = IF z = x THEN count1[z] + l ELSE count1[z]
    BY <2>1 DEF count1, count2, x, l
  <2>6. \A z \in CodeLengthSymbol : count3[z] = IF z = v THEN count2[z] + left ELSE count2[z]
    BY <2>1 DEF count1, count2
  <2>7. \A z \in CodeLengthSymbol :
          direct[z] = IF z = v THEN count[z] + (first + left)
                      ELSE IF z = x THEN count[z] + l ELSE count[z]
    BY <2>1, <2>2
  <2>8. \A z \in CodeLengthSymbol : count[z] + first + left = count[z] + (first + left)
    BY <1>3, <2>1
  <2>9. DOMAIN count3 = CodeLengthSymbol /\ DOMAIN direct = CodeLengthSymbol
        /\ count3 = [z \in DOMAIN count3 |-> count3[z]]
        /\ direct = [z \in DOMAIN direct |-> direct[z]]
    BY <2>1 DEF count1, count2
  <2> HIDE DEF direct, count3
  <2>10. \A z \in CodeLengthSymbol : count3[z] = direct[z]
    BY <2>2, <2>4, <2>5, <2>6, <2>7, <2>8, Zenon
  <2>11. count3 = direct
    BY <2>9, <2>10, Zenon
  <2> QED  BY <2>11, Zenon DEF CountAfterBatch, direct, x, l, left
<1>8. s3 = AfterBatch(s, batch, n, v, first)
  BY Zenon DEF AfterBatch, s1, s2
<1> QED
  BY <1>5, <1>6, <1>7, <1>8, Zenon DEF GoodAfterBatch

LEMMA GoodAddBatch ==
  ASSUME Good(cl_symbols, count_by_code_length_symbol),
         NEW batch \in Batches, NEW n \in Nat, NEW first \in {0, 1},
         prev_prefix_code_length \in CodeLength,
         NEW written, written = Times(Symbol(prev_prefix_code_length), first),
         Continues(batch, prev_prefix_code_length,
                   Inflated(cl_symbols) \o Times(prev_prefix_code_length, first)),
         AddCodeLengthSymbolBatch(written, batch, n)
  PROVE  /\ Good(cl_symbols', count_by_code_length_symbol')
         /\ Inflated(cl_symbols') =
              Inflated(cl_symbols) \o Times(prev_prefix_code_length, first + n)
<1> DEFINE v == prev_prefix_code_length
<1>1. first \in Nat /\ Len(written) = first
  <2>1. first \in Nat
    OBVIOUS
  <2>2. Symbol(v) \in ClSymbol
    BY SymbolIs, Zenon
  <2>3. Len(Times(Symbol(v), first)) = first
    BY <2>1, <2>2, TimesIs, Zenon
  <2> QED  BY <2>1, <2>3, Zenon
<1>2. cl_symbols' = AfterBatch(cl_symbols, batch, n, v, first)
  BY Zenon DEF AddCodeLengthSymbolBatch, AfterBatch, Times
<1>3. count_by_code_length_symbol' =
        CountAfterBatch(count_by_code_length_symbol, batch, n, v, first)
  BY <1>1, Zenon DEF AddCodeLengthSymbolBatch, CountAfterBatch
<1> DEFINE s == cl_symbols
           count == count_by_code_length_symbol
<1>4. GoodAfterBatch(s, count, batch, n, v, first)
  <2>1. /\ Good(s, count) /\ v \in CodeLength
        /\ Continues(batch, v, Inflated(s) \o Times(v, first))
    OBVIOUS
  <2> HIDE DEF s, count, v
  <2> QED  BY <1>1, <2>1, GoodBatch, Zenon
<1> QED
  BY <1>2, <1>3, <1>4, Zenon DEF GoodAfterBatch

\* add_consecutive_prefix_codes_to_code_length_symbols: the run is written.
LEMMA GoodAddConsecutive ==
  ASSUME Good(cl_symbols, count_by_code_length_symbol),
         num_prev_prefix_code_length \in Nat,
         num_prev_prefix_code_length # 0 => prev_prefix_code_length \in CodeLength,
         AddConsecutive
  PROVE  /\ Good(cl_symbols', count_by_code_length_symbol')
         /\ Inflated(cl_symbols') =
              Inflated(cl_symbols)
                \o Times(prev_prefix_code_length, num_prev_prefix_code_length)
<1> DEFINE v == prev_prefix_code_length
           n == num_prev_prefix_code_length
           lengths == Inflated(cl_symbols)
<1>1. lengths \in Seq(CodeLength) /\ lengths \o <<>> = lengths
  <2>1. lengths \in Seq(CodeLength)
    BY Zenon DEF Good
  <2> HIDE DEF lengths
  <2> QED  BY <2>1
<1>2. CASE n = 0
  <2>1. cl_symbols' = cl_symbols
        /\ count_by_code_length_symbol' = count_by_code_length_symbol
    BY <1>2, Zenon DEF AddConsecutive
  <2>2. Times(v, n) = <<>>
    BY <1>2, TimesNone, Zenon
  <2> QED  BY <1>1, <2>1, <2>2, Zenon
<1>3. ASSUME n # 0,
             AddCodeLengthSymbolBatch(<<Symbol(v)>>, previous_3_or_more_times, n - 1)
      PROVE  /\ Good(cl_symbols', count_by_code_length_symbol')
             /\ Inflated(cl_symbols') = lengths \o Times(v, n)
  <2>1. /\ v \in CodeLength /\ n - 1 \in Nat /\ 1 + (n - 1) = n /\ 1 \in {0, 1}
        /\ previous_3_or_more_times \in Batches
    BY <1>3 DEF Batches
  <2>2. <<Symbol(v)>> = Times(Symbol(v), 1)
    BY DEF Times
  <2>3. Continues(previous_3_or_more_times, v, lengths \o Times(v, 1))
    <3> HIDE DEF lengths, v
    <3>1. lengths \o Times(v, 1) = Append(lengths, v)
      BY <1>1, <2>1, TimesOneMore, Zenon
    <3>2. /\ Append(lengths, v) \in Seq(CodeLength)
          /\ Append(lengths, v) # <<>> /\ Last(Append(lengths, v)) = v
      BY <1>1, <2>1 DEF Last
    <3> QED  BY <2>1, <3>1, <3>2, Zenon DEF Continues
  <2>4. /\ Good(cl_symbols', count_by_code_length_symbol')
        /\ Inflated(cl_symbols') = lengths \o Times(v, 1 + (n - 1))
    <3> DEFINE m == n - 1
               written == <<Symbol(v)>>
    <3>1. m \in Nat /\ written = Times(Symbol(v), 1)
      BY <2>1, <2>2
    <3>2. AddCodeLengthSymbolBatch(written, previous_3_or_more_times, m)
      BY <1>3
    <3> HIDE DEF m, written
    <3>3. /\ Good(cl_symbols', count_by_code_length_symbol')
          /\ Inflated(cl_symbols') = lengths \o Times(v, 1 + m)
      BY <2>1, <2>3, <3>1, <3>2, GoodAddBatch, Zenon
    <3> QED  BY <3>3 DEF m
  <2> QED  BY <2>1, <2>4, Zenon
<1>4. CASE n # 0 /\ v = 0
  <2>1. /\ v \in CodeLength /\ <<>> = Times(Symbol(v), 0) /\ lengths \o Times(v, 0) = lengths
        /\ 0 \in {0, 1} /\ 0 + n = n
    BY <1>1, <1>4, TimesNone
  <2>2. ASSUME NEW batch \in Batches, batch # previous_3_or_more_times,
               AddCodeLengthSymbolBatch(<<>>, batch, n)
        PROVE  /\ Good(cl_symbols', count_by_code_length_symbol')
               /\ Inflated(cl_symbols') = lengths \o Times(v, n)
    <3>1. Continues(batch, v, lengths \o Times(v, 0))
      BY <1>1, <1>4, <2>1, <2>2, Zenon DEF Continues
    <3> QED  BY <2>1, <2>2, <3>1, GoodAddBatch, Zenon
  <2>3. CASE n >= ManyZerosMin
    <3>1. AddCodeLengthSymbolBatch(<<>>, zero_11_or_more_times, n)
      BY <1>4, <2>3, Zenon DEF AddConsecutive
    <3>2. /\ zero_11_or_more_times \in Batches
          /\ zero_11_or_more_times # previous_3_or_more_times
      BY CodeLengthsAssumption DEF Batches, zero_11_or_more_times, previous_3_or_more_times
    <3> QED  BY <2>2, <3>1, <3>2, Zenon
  <2>4. CASE ~(n >= ManyZerosMin) /\ n >= ZerosMin
    <3>1. AddCodeLengthSymbolBatch(<<>>, zero_3_or_more_times, n)
      BY <1>4, <2>4, Zenon DEF AddConsecutive
    <3>2. /\ zero_3_or_more_times \in Batches
          /\ zero_3_or_more_times # previous_3_or_more_times
      BY CodeLengthsAssumption DEF Batches, zero_3_or_more_times, previous_3_or_more_times
    <3> QED  BY <2>2, <3>1, <3>2, Zenon
  <2>5. CASE ~(n >= ManyZerosMin) /\ ~(n >= ZerosMin)
    <3>1. AddCodeLengthSymbolBatch(<<Symbol(v)>>, previous_3_or_more_times, n - 1)
      BY <1>4, <2>5, Zenon DEF AddConsecutive
    <3> QED  BY <1>3, <1>4, <3>1, Zenon
  <2> QED  BY <2>3, <2>4, <2>5
<1>5. CASE n # 0 /\ v # 0
  <2>1. AddCodeLengthSymbolBatch(<<Symbol(v)>>, previous_3_or_more_times, n - 1)
    BY <1>5, Zenon DEF AddConsecutive
  <2> QED  BY <1>3, <1>5, <2>1, Zenon
<1> QED
  BY <1>2, <1>4, <1>5

-----------------------------------------------------------------------------
(***************************************************************************)
(* The lengths that are left out.                                          *)
(***************************************************************************)
LEMMA MaxIs ==
  ASSUME NEW bound \in Nat, NEW T, T \subseteq 0 .. bound, T # {}
  PROVE  Max(T) \in T /\ \A y \in T : Max(T) >= y
<1>1. \E x \in T : \A y \in T : y <= x
  <2>1. bound \in Int /\ T \subseteq Int /\ \A x \in T : x <= bound
    OBVIOUS
  <2> QED  BY <2>1, GreatestElement
<1>2. \E x \in T : \A y \in T : x >= y
  BY <1>1
<1> QED
  BY <1>2, Zenon DEF Max

LEMMA NumLeadingIs ==
  ASSUME NEW N \in Nat, NEW M \in Nat, NEW lengths \in [1 .. N -> 0 .. M],
         NEW min \in 1 .. N
  PROVE  /\ NumLeading(lengths, min) \in min .. N
         /\ \A s \in 1 .. N : s > NumLeading(lengths, min) => lengths[s] = 0
<1> DEFINE T == {min} \cup {s \in DOMAIN lengths : lengths[s] > 0}
           last == Max(T)
<1>1. T \subseteq 0 .. N /\ T # {} /\ min \in T
  OBVIOUS
<1>2. \A s \in 1 .. N : lengths[s] = 0 \/ s \in T
  OBVIOUS
<1>3. NumLeading(lengths, min) = last
  BY Zenon DEF NumLeading
<1> HIDE DEF T
<1>4. last \in T /\ \A y \in T : last >= y
  BY <1>1, MaxIs
<1> HIDE DEF last
<1>5. last \in min .. N
  BY <1>1, <1>4
<1>6. \A s \in 1 .. N : s > last => lengths[s] = 0
  BY <1>1, <1>2, <1>4, <1>5
<1> QED
  BY <1>3, <1>5, <1>6, Zenon

LEMMA SubSeqIs ==
  ASSUME NEW S, NEW N \in Nat, NEW f \in [1 .. N -> S], NEW n \in 0 .. N
  PROVE  /\ SubSeq(f, 1, n) \in Seq(S) /\ Len(SubSeq(f, 1, n)) = n
         /\ \A k \in 1 .. n : SubSeq(f, 1, n)[k] = f[k]
<1>1. f \in Seq(S) /\ Len(f) = N
  OBVIOUS
<1> QED
  BY <1>1

Typed ==
  /\ literal_length_lengths \in [1 .. NumLiteralLengthSymbols -> CodeLength]
  /\ distance_lengths \in [1 .. NumDistanceSymbols -> CodeLength]

NumLiteralLengths == NumLeading(literal_length_lengths, MinLeadingLiteralLength)
NumDistances == NumLeading(distance_lengths, min_leading_distance_prefix_codes)

LEMMA LeadingIs ==
  ASSUME Typed
  PROVE  /\ LeadingLiteralLengths \in Seq(CodeLength)
         /\ LeadingDistances \in Seq(CodeLength)
         /\ Leading \in Seq(CodeLength)
         /\ Len(LeadingLiteralLengths) \in 1 .. NumLiteralLengthSymbols
         /\ Len(LeadingDistances) \in 1 .. NumDistanceSymbols
         /\ Len(Leading) = Len(LeadingLiteralLengths) + Len(LeadingDistances)
         /\ NumLiteralLengths = Len(LeadingLiteralLengths)
         /\ NumDistances = Len(LeadingDistances)
<1>1. /\ MaximumPrefixCodeLength \in Nat /\ NumLiteralLengthSymbols \in Nat
      /\ NumDistanceSymbols \in Nat
      /\ MinLeadingLiteralLength \in 1 .. NumLiteralLengthSymbols
      /\ min_leading_distance_prefix_codes \in 1 .. NumDistanceSymbols
  BY CodeLengthsAssumption DEF min_leading_distance_prefix_codes
<1>2. /\ NumLiteralLengths \in MinLeadingLiteralLength .. NumLiteralLengthSymbols
      /\ NumDistances \in min_leading_distance_prefix_codes .. NumDistanceSymbols
  BY <1>1, NumLeadingIs, Zenon DEF Typed, CodeLength, NumLiteralLengths, NumDistances
<1>3. /\ NumLiteralLengths \in 0 .. NumLiteralLengthSymbols
      /\ NumLiteralLengths \in 1 .. NumLiteralLengthSymbols
      /\ NumDistances \in 0 .. NumDistanceSymbols
      /\ NumDistances \in 1 .. NumDistanceSymbols
  BY <1>1, <1>2
<1>4. /\ LeadingLiteralLengths \in Seq(CodeLength)
      /\ Len(LeadingLiteralLengths) = NumLiteralLengths
  <2>1. literal_length_lengths \in [1 .. NumLiteralLengthSymbols -> CodeLength]
    BY DEF Typed
  <2>2. LeadingLiteralLengths = SubSeq(literal_length_lengths, 1, NumLiteralLengths)
    BY Zenon DEF LeadingLiteralLengths, NumLiteralLengths
  <2> QED  BY <1>1, <1>3, <2>1, <2>2, SubSeqIs
<1>5. /\ LeadingDistances \in Seq(CodeLength)
      /\ Len(LeadingDistances) = NumDistances
  <2>1. distance_lengths \in [1 .. NumDistanceSymbols -> CodeLength]
    BY DEF Typed
  <2>2. LeadingDistances = SubSeq(distance_lengths, 1, NumDistances)
    BY Zenon DEF LeadingDistances, NumDistances
  <2> QED  BY <1>1, <1>3, <2>1, <2>2, SubSeqIs
<1>6. /\ Leading \in Seq(CodeLength)
      /\ Len(Leading) = Len(LeadingLiteralLengths) + Len(LeadingDistances)
  BY <1>4, <1>5 DEF Leading
<1> QED
  BY <1>3, <1>4, <1>5, <1>6, Zenon

\* The decoder fills up with zeros what was left out.
Filled(lengths, n) == lengths \o Times(0, n - Len(lengths))

LEMMA ConcatIs ==
  ASSUME NEW S, NEW s \in Seq(S), NEW t \in Seq(S)
  PROVE  /\ s \o t \in Seq(S) /\ Len(s \o t) = Len(s) + Len(t)
         /\ \A k \in 1 .. Len(s) + Len(t) :
              (s \o t)[k] = IF k <= Len(s) THEN s[k] ELSE t[k - Len(s)]
OBVIOUS

LEMMA FilledIs ==
  ASSUME NEW N \in Nat, NEW M \in Nat, NEW lengths \in [1 .. N -> 0 .. M],
         NEW n \in 0 .. N, \A s \in 1 .. N : s > n => lengths[s] = 0
  PROVE  Filled(SubSeq(lengths, 1, n), N) = lengths
<1> DEFINE a == SubSeq(lengths, 1, n)
           z == Times(0, N - n)
<1>1. a \in Seq(0 .. M) /\ Len(a) = n /\ \A k \in 1 .. n : a[k] = lengths[k]
  BY SubSeqIs
<1>2. /\ z \in Seq(0 .. M) /\ Len(z) = N - n
      /\ \A k \in 1 .. N - n : z[k] = 0
  <2>1. N - n \in Nat /\ 0 \in 0 .. M
    OBVIOUS
  <2> QED  BY <2>1, TimesIs
<1>3. Filled(a, N) = a \o z
  BY <1>1, Zenon DEF Filled
<1>4. lengths \in Seq(0 .. M) /\ Len(lengths) = N
  OBVIOUS
<1> HIDE DEF a, z
<1>5. /\ a \o z \in Seq(0 .. M) /\ Len(a \o z) = N
      /\ \A k \in 1 .. N : (a \o z)[k] = IF k <= n THEN a[k] ELSE z[k - n]
  <2>1. /\ a \o z \in Seq(0 .. M) /\ Len(a \o z) = Len(a) + Len(z)
        /\ \A k \in 1 .. Len(a) + Len(z) :
             (a \o z)[k] = IF k <= Len(a) THEN a[k] ELSE z[k - Len(a)]
    BY <1>1, <1>2, ConcatIs, Zenon
  <2>2. Len(a) + Len(z) = N
    BY <1>1, <1>2
  <2> QED  BY <1>1, <2>1, <2>2, Zenon
<1>6. ASSUME NEW k \in 1 .. N
      PROVE  (a \o z)[k] = lengths[k]
  <2>1. CASE k <= n
    BY <1>1, <1>5, <2>1
  <2>2. CASE ~(k <= n)
    <3>1. k - n \in 1 .. N - n /\ k > n
      BY <2>2
    <3> QED  BY <1>2, <1>5, <2>2, <3>1
  <2> QED  BY <2>1, <2>2
<1>7. a \o z = lengths
  BY <1>4, <1>5, <1>6, SeqEqual
<1> QED
  BY <1>3, <1>7, Zenon DEF a

-----------------------------------------------------------------------------
(***************************************************************************)
(* The inductive invariant.  That what was written can be read back        *)
(* (Good), and that the current run is one of lengths, is what the next    *)
(* symbols rest on; what the code of the symbols was made from is what is  *)
(* left of it once it is written (CodeWritten).                            *)
(***************************************************************************)
CodeWritten ==
  /\ at = Len(Leading) /\ num_prev_prefix_code_length = 0
  /\ code_length_lengths \in [CodeLengthSymbol -> 0 .. MaximumCodeLength]
  /\ \A s \in CodeLengthSymbol :
       code_length_lengths[s] = 0 <=> count_by_code_length_symbol[s] = 0
  /\ LET reordered == Reordered(code_length_lengths)
     IN reordered_lengths =
          SubSeq(reordered, 1, NumLeading(reordered, MinLeadingCodeLength))

RunIsOfLengths ==
  /\ num_prev_prefix_code_length \in Nat
  /\ prev_prefix_code_length \in 0 .. MaximumPrefixCodeLength + 1
  /\ num_prev_prefix_code_length # 0 => prev_prefix_code_length \in CodeLength

IInv ==
  /\ Typed
  /\ at \in 0 .. Len(Leading)
  /\ RunIsOfLengths
  /\ Good(cl_symbols, count_by_code_length_symbol)
  /\ LengthsPreserved
  /\ done \in BOOLEAN
  /\ reordered_lengths \in Seq(0 .. MaximumCodeLength)
  /\ done => CodeWritten

LEMMA InitSatisfies == Init => IInv
<1> SUFFICES ASSUME Init
             PROVE  IInv
  OBVIOUS
<1>1. /\ at = 0 /\ num_prev_prefix_code_length = 0 /\ cl_symbols = <<>>
      /\ prev_prefix_code_length = MaximumPrefixCodeLength + 1
      /\ count_by_code_length_symbol = [s \in CodeLengthSymbol |-> 0]
      /\ reordered_lengths = <<>> /\ done = FALSE
  BY DEF Init
<1>2. Typed
  BY DEF Init, Typed, LiteralLengthInputs, DistanceInputs
<1>3. Leading \in Seq(CodeLength) /\ Len(Leading) \in Nat
  <2>1. Leading \in Seq(CodeLength)
    BY <1>2, LeadingIs
  <2> QED  BY <2>1
<1>4. RunIsOfLengths
  BY <1>1, CodeLengthsAssumption DEF RunIsOfLengths
<1>5. Inflated(cl_symbols) = <<>>
  BY <1>1, InflatedEmpty, Zenon
<1>6. LengthsPreserved
  <2>1. Times(prev_prefix_code_length, 0) = <<>>
    BY TimesNone, Zenon
  <2>2. SubSeq(Leading, 1, 0) = <<>> /\ <<>> \o <<>> = <<>>
    BY <1>3
  <2> QED  BY <1>1, <1>5, <2>1, <2>2, Zenon DEF LengthsPreserved
<1>7. Good(cl_symbols, count_by_code_length_symbol)
  <2>1. cl_symbols \in Seq(ClSymbol) /\ DOMAIN cl_symbols = {}
    BY <1>1
  <2>2. count_by_code_length_symbol \in [CodeLengthSymbol -> Nat]
    BY <1>1
  <2>3. \A x : Count(cl_symbols, x) = 0
    <3>1. \A x : {k \in DOMAIN cl_symbols : cl_symbols[k].symbol = x} = {}
      BY <2>1, Zenon
    <3> QED  BY <3>1, FS_EmptySet, Zenon DEF Count
  <2>4. \A x \in CodeLengthSymbol : count_by_code_length_symbol[x] = 0
    BY <1>1
  <2>5. Offsets(cl_symbols)
    BY <2>1, Zenon DEF Offsets
  <2>6. <<>> \in Seq(CodeLength)
    OBVIOUS
  <2> QED  BY <1>5, <2>1, <2>2, <2>3, <2>4, <2>5, <2>6, Zenon DEF Good
<1>8. reordered_lengths \in Seq(0 .. MaximumCodeLength) /\ at \in 0 .. Len(Leading)
  BY <1>1, <1>3
<1> QED
  BY <1>1, <1>2, <1>4, <1>6, <1>7, <1>8, Zenon DEF IInv

\* The block keeps its codes.
LEMMA LeadingStays ==
  ASSUME Typed, UNCHANGED input
  PROVE  Typed' /\ Leading' = Leading
<1>1. literal_length_lengths' = literal_length_lengths
      /\ distance_lengths' = distance_lengths
  BY DEF input
<1> QED
  BY <1>1, Zenon DEF Typed, Leading, LeadingLiteralLengths, LeadingDistances

LEMMA ContinueStep ==
  ASSUME IInv, Continue
  PROVE  IInv'
<1> DEFINE v == prev_prefix_code_length
           n == num_prev_prefix_code_length
           lengths == Inflated(cl_symbols)
<1>1. /\ Typed /\ RunIsOfLengths /\ Good(cl_symbols, count_by_code_length_symbol)
      /\ LengthsPreserved /\ at \in 0 .. Len(Leading)
  BY Zenon DEF IInv
<1>2. /\ at < Len(Leading) /\ Leading[at + 1] = v
      /\ at' = at + 1 /\ num_prev_prefix_code_length' = n + 1
      /\ prev_prefix_code_length' = v /\ cl_symbols' = cl_symbols
      /\ count_by_code_length_symbol' = count_by_code_length_symbol
      /\ reordered_lengths' = reordered_lengths /\ done' = done /\ UNCHANGED input
  BY Zenon DEF Continue, code_length_code
<1>3. Typed' /\ Leading' = Leading
  BY <1>1, <1>2, LeadingStays, Zenon
<1>4. Leading \in Seq(CodeLength) /\ Len(Leading) \in Nat
  <2>1. Leading \in Seq(CodeLength)
    BY <1>1, LeadingIs
  <2> QED  BY <2>1
<1>5. /\ at + 1 \in 0 .. Len(Leading) /\ v \in CodeLength /\ n \in Nat
      /\ n + 1 \in Nat /\ v \in 0 .. MaximumPrefixCodeLength + 1
  BY <1>1, <1>2, <1>4 DEF RunIsOfLengths
<1>6. SubSeq(Leading, 1, at + 1) = Append(SubSeq(Leading, 1, at), v)
  BY <1>1, <1>2, <1>4
<1>7. lengths \o Times(v, n + 1) = Append(lengths \o Times(v, n), v)
  <2>1. lengths \in Seq(CodeLength)
    BY <1>1, Zenon DEF Good
  <2> HIDE DEF lengths, v, n
  <2> QED  BY <1>5, <2>1, TimesOneMore, Zenon
<1>8. LengthsPreserved'
  BY <1>1, <1>2, <1>3, <1>6, <1>7, Zenon DEF LengthsPreserved
<1>9. ~done
  BY <1>1, <1>2, <1>4 DEF IInv, CodeWritten
<1>10. RunIsOfLengths'
  BY <1>2, <1>5, Zenon DEF RunIsOfLengths
<1>11. Good(cl_symbols, count_by_code_length_symbol)'
  BY <1>1, <1>2, Zenon
<1>12. /\ done' \in BOOLEAN /\ reordered_lengths' \in Seq(0 .. MaximumCodeLength)
       /\ at' \in 0 .. Len(Leading') /\ ~done'
  BY <1>2, <1>3, <1>5, <1>9, Zenon DEF IInv
<1> QED
  BY <1>3, <1>8, <1>10, <1>11, <1>12, Zenon DEF IInv

LEMMA ChangeStep ==
  ASSUME IInv, Change
  PROVE  IInv'
<1> DEFINE v == prev_prefix_code_length
           n == num_prev_prefix_code_length
           lengths == Inflated(cl_symbols)
           next == Leading[at + 1]
<1>1. /\ Typed /\ RunIsOfLengths /\ Good(cl_symbols, count_by_code_length_symbol)
      /\ LengthsPreserved /\ at \in 0 .. Len(Leading)
  BY Zenon DEF IInv
<1>2. /\ at < Len(Leading) /\ AddConsecutive
      /\ at' = at + 1 /\ num_prev_prefix_code_length' = 1
      /\ prev_prefix_code_length' = next
      /\ reordered_lengths' = reordered_lengths /\ done' = done /\ UNCHANGED input
  BY Zenon DEF Change, code_length_code
<1>3. Typed' /\ Leading' = Leading
  BY <1>1, <1>2, LeadingStays, Zenon
<1>4. Leading \in Seq(CodeLength) /\ Len(Leading) \in Nat
  <2>1. Leading \in Seq(CodeLength)
    BY <1>1, LeadingIs
  <2> QED  BY <2>1
<1>5. at + 1 \in 0 .. Len(Leading) /\ next \in CodeLength
  BY <1>1, <1>2, <1>4
<1>6. SubSeq(Leading, 1, at + 1) = Append(SubSeq(Leading, 1, at), next)
  BY <1>1, <1>2, <1>4
<1>7. /\ Good(cl_symbols', count_by_code_length_symbol')
      /\ Inflated(cl_symbols') = lengths \o Times(v, n)
  BY <1>1, <1>2, GoodAddConsecutive, Zenon DEF RunIsOfLengths
<1>8. Inflated(cl_symbols') \in Seq(CodeLength)
  BY <1>7, Zenon DEF Good
<1>9. Append(Inflated(cl_symbols'), next) = Inflated(cl_symbols') \o Times(next, 1)
  BY <1>5, <1>8, TimesOneMore, Zenon
<1>10. LengthsPreserved'
  BY <1>1, <1>2, <1>3, <1>6, <1>7, <1>9, Zenon DEF LengthsPreserved
<1>11. ~done
  BY <1>1, <1>2, <1>4 DEF IInv, CodeWritten
<1>12. RunIsOfLengths'
  <2>1. 1 \in Nat /\ next \in 0 .. MaximumPrefixCodeLength + 1
    BY <1>5, CodeLengthsAssumption DEF CodeLength
  <2> QED  BY <1>2, <1>5, <2>1, Zenon DEF RunIsOfLengths
<1>13. /\ done' \in BOOLEAN /\ reordered_lengths' \in Seq(0 .. MaximumCodeLength)
       /\ at' \in 0 .. Len(Leading') /\ ~done'
  BY <1>2, <1>3, <1>5, <1>11, Zenon DEF IInv
<1> QED
  BY <1>3, <1>7, <1>10, <1>12, <1>13, Zenon DEF IInv

LEMMA EndRunsStep ==
  ASSUME IInv, EndRuns
  PROVE  IInv'
<1> DEFINE v == prev_prefix_code_length
           n == num_prev_prefix_code_length
           lengths == Inflated(cl_symbols)
<1>1. /\ Typed /\ RunIsOfLengths /\ Good(cl_symbols, count_by_code_length_symbol)
      /\ LengthsPreserved /\ at \in 0 .. Len(Leading)
  BY Zenon DEF IInv
<1>2. /\ n > 0 /\ AddConsecutive /\ num_prev_prefix_code_length' = 0
      /\ at' = at /\ prev_prefix_code_length' = v
      /\ reordered_lengths' = reordered_lengths /\ done' = done /\ UNCHANGED input
  BY Zenon DEF EndRuns, code_length_code
<1>3. Typed' /\ Leading' = Leading
  BY <1>1, <1>2, LeadingStays, Zenon
<1>4. /\ Good(cl_symbols', count_by_code_length_symbol')
      /\ Inflated(cl_symbols') = lengths \o Times(v, n)
  BY <1>1, <1>2, GoodAddConsecutive, Zenon DEF RunIsOfLengths
<1>5. Inflated(cl_symbols') \o <<>> = Inflated(cl_symbols')
  <2>1. Inflated(cl_symbols') \in Seq(CodeLength)
    BY <1>4, Zenon DEF Good
  <2> QED  BY <2>1
<1>6. Times(v, 0) = <<>>
  BY TimesNone, Zenon
<1>7. LengthsPreserved'
  BY <1>1, <1>2, <1>3, <1>4, <1>5, <1>6, Zenon DEF LengthsPreserved
<1>8. ~done
  BY <1>2 DEF IInv, CodeWritten
<1>9. RunIsOfLengths'
  <2>1. 0 \in Nat
    OBVIOUS
  <2> QED  BY <1>1, <1>2, <2>1, Zenon DEF RunIsOfLengths
<1>10. /\ done' \in BOOLEAN /\ reordered_lengths' \in Seq(0 .. MaximumCodeLength)
       /\ at' \in 0 .. Len(Leading') /\ ~done'
  BY <1>1, <1>2, <1>3, <1>8, Zenon DEF IInv
<1> QED
  BY <1>3, <1>4, <1>7, <1>9, <1>10, Zenon DEF IInv

LEMMA CodeLengthOrderIs ==
  /\ DOMAIN CodeLengthOrder = 1 .. MaximumPrefixCodeLength + 4
  /\ MaximumPrefixCodeLength + 4 \in Nat
  /\ MinLeadingCodeLength \in 1 .. MaximumPrefixCodeLength + 4
<1>1. CodeLengthOrder \in [1 .. MaximumPrefixCodeLength + 4 -> CodeLengthSymbol]
      /\ MinLeadingCodeLength \in 1 .. Len(CodeLengthOrder)
  BY CodeLengthCodeAssumption
<1>2. MaximumPrefixCodeLength + 4 \in Nat
  BY CodeLengthsAssumption
<1>3. Len(CodeLengthOrder) = MaximumPrefixCodeLength + 4
  BY <1>1, <1>2
<1> QED
  BY <1>1, <1>2, <1>3

\* A code for the symbols that were counted has a length for each of these.
LEMMA CodesForIs ==
  ASSUME NEW symbols \in SUBSET CodeLengthSymbol, NEW code \in CodesFor(symbols)
  PROVE  /\ code \in [CodeLengthSymbol -> 0 .. MaximumCodeLength]
         /\ \A s \in CodeLengthSymbol : code[s] = 0 <=> s \notin symbols
<1>1. PICK lengths \in [symbols -> 1 .. MaximumCodeLength] :
        code = [s \in CodeLengthSymbol |-> IF s \in symbols THEN lengths[s] ELSE 0]
  <2> DEFINE ones == [s \in symbols |-> 1]
             complete == {l \in [symbols -> 1 .. MaximumCodeLength] :
                            MapThenSumSet(LAMBDA s : 2 ^ (MaximumCodeLength - l[s]),
                                          symbols) = 2 ^ MaximumCodeLength}
             chosen == IF Cardinality(symbols) = 1 THEN {ones} ELSE complete
  <2>1. ones \in [symbols -> 1 .. MaximumCodeLength]
    BY CodeLengthCodeAssumption
  <2>2. complete \subseteq [symbols -> 1 .. MaximumCodeLength]
    BY Zenon
  <2>3. CodesFor(symbols) =
          {[s \in CodeLengthSymbol |-> IF s \in symbols THEN lengths[s] ELSE 0] :
             lengths \in chosen}
    BY Zenon DEF CodesFor
  <2> HIDE DEF ones, complete
  <2> QED  BY <2>1, <2>2, <2>3
<1>2. MaximumCodeLength \in Nat
  BY CodeLengthCodeAssumption
<1>3. \A s \in CodeLengthSymbol :
        /\ code[s] = IF s \in symbols THEN lengths[s] ELSE 0
        /\ s \in symbols => lengths[s] \in 1 .. MaximumCodeLength
  BY <1>1
<1>4. DOMAIN code = CodeLengthSymbol /\ code = [s \in DOMAIN code |-> code[s]]
  BY <1>1
<1> QED
  BY <1>2, <1>3, <1>4

LEMMA ReorderedIs ==
  ASSUME NEW code \in [CodeLengthSymbol -> 0 .. MaximumCodeLength]
  PROVE  /\ Reordered(code) \in
              [1 .. MaximumPrefixCodeLength + 4 -> 0 .. MaximumCodeLength]
         /\ \A k \in 1 .. MaximumPrefixCodeLength + 4 :
              Reordered(code)[k] = code[CodeLengthOrder[k]]
BY CodeLengthOrderIs, CodeLengthCodeAssumption DEF Reordered

LEMMA WriteStep ==
  ASSUME IInv, WriteCodeLengthCode
  PROVE  IInv'
<1> DEFINE code == code_length_lengths'
           symbols == {s \in CodeLengthSymbol : count_by_code_length_symbol[s] > 0}
           order == Reordered(code)
           count == count_by_code_length_symbol
<1>1. /\ Typed /\ RunIsOfLengths /\ Good(cl_symbols, count)
      /\ LengthsPreserved /\ at \in 0 .. Len(Leading)
  BY Zenon DEF IInv
<1>2. /\ at = Len(Leading) /\ num_prev_prefix_code_length = 0
      /\ at' = at /\ prev_prefix_code_length' = prev_prefix_code_length
      /\ num_prev_prefix_code_length' = num_prev_prefix_code_length
      /\ cl_symbols' = cl_symbols /\ count' = count /\ done' = TRUE /\ UNCHANGED input
      /\ code \in CodesFor(symbols)
      /\ reordered_lengths' = SubSeq(order, 1, NumLeading(order, MinLeadingCodeLength))
  BY Zenon DEF WriteCodeLengthCode
<1>3. Typed' /\ Leading' = Leading
  BY <1>1, <1>2, LeadingStays, Zenon
<1>4. symbols \in SUBSET CodeLengthSymbol
  BY Zenon
<1>5. \A s \in CodeLengthSymbol : s \notin symbols <=> count[s] = 0
  <2>1. count \in [CodeLengthSymbol -> Nat]
    BY <1>1, Zenon DEF Good
  <2>2. \A s \in CodeLengthSymbol : count[s] > 0 <=> count[s] # 0
    BY <2>1
  <2> QED  BY <2>2, Zenon
<1> HIDE DEF symbols, code, order
<1>6. /\ code \in [CodeLengthSymbol -> 0 .. MaximumCodeLength]
      /\ \A s \in CodeLengthSymbol : code[s] = 0 <=> count[s] = 0
  BY <1>2, <1>4, <1>5, CodesForIs, Zenon
<1>7. order \in [1 .. MaximumPrefixCodeLength + 4 -> 0 .. MaximumCodeLength]
  BY <1>6, ReorderedIs, Zenon DEF order
<1>8. reordered_lengths' \in Seq(0 .. MaximumCodeLength)
  <2> DEFINE n == NumLeading(order, MinLeadingCodeLength)
             N == MaximumPrefixCodeLength + 4
  <2>1. MaximumCodeLength \in Nat /\ N \in Nat /\ MinLeadingCodeLength \in 1 .. N
    BY CodeLengthCodeAssumption, CodeLengthOrderIs, Zenon
  <2>2. n \in MinLeadingCodeLength .. N
    BY <1>7, <2>1, NumLeadingIs, Zenon
  <2> HIDE DEF n, N
  <2>3. n \in 0 .. N
    BY <2>1, <2>2
  <2>4. order \in [1 .. N -> 0 .. MaximumCodeLength]
    BY <1>7 DEF N
  <2>5. SubSeq(order, 1, n) \in Seq(0 .. MaximumCodeLength)
    BY <2>1, <2>3, <2>4, SubSeqIs, Zenon
  <2> QED  BY <1>2, <2>5, Zenon DEF n
<1>9. CodeWritten'
  BY <1>2, <1>3, <1>6, Zenon DEF CodeWritten, code, order
<1>10. LengthsPreserved' /\ RunIsOfLengths' /\ Good(cl_symbols', count')
  BY <1>1, <1>2, <1>3, Zenon DEF LengthsPreserved, RunIsOfLengths
<1>11. done' \in BOOLEAN /\ at' \in 0 .. Len(Leading')
  BY <1>1, <1>2, <1>3, Zenon
<1> QED
  BY <1>3, <1>8, <1>9, <1>10, <1>11, Zenon DEF IInv

LEMMA Unchanged ==
  ASSUME IInv, UNCHANGED vars
  PROVE  IInv'
<1>1. Typed' /\ Leading' = Leading
  BY LeadingStays, Zenon DEF IInv, vars
<1> QED
  BY <1>1, Zenon DEF IInv, vars, code_length_code, LengthsPreserved, RunIsOfLengths,
     CodeWritten

LEMMA IInvHolds == Spec => []IInv
<1>1. IInv /\ [Next]_vars => IInv'
  BY ContinueStep, ChangeStep, EndRunsStep, WriteStep, Unchanged, Zenon DEF Next
<1> QED
  BY InitSatisfies, <1>1, PTL DEF Spec

-----------------------------------------------------------------------------
\* The lengths looked at are lengths of the block's codes, and every symbol is
\* one of the code of the code lengths.
THEOREM TypeCorrect == Spec => []TypeOK
<1>1. IInv => TypeOK
  <2> SUFFICES ASSUME IInv
               PROVE  TypeOK
    OBVIOUS
  <2>1. /\ Typed /\ RunIsOfLengths /\ Good(cl_symbols, count_by_code_length_symbol)
        /\ at \in 0 .. Len(Leading) /\ done \in BOOLEAN
        /\ reordered_lengths \in Seq(0 .. MaximumCodeLength)
    BY Zenon DEF IInv
  <2>2. at \in 0 .. NumLiteralLengthSymbols + NumDistanceSymbols
    <3>1. /\ Len(LeadingLiteralLengths) \in 1 .. NumLiteralLengthSymbols
          /\ Len(LeadingDistances) \in 1 .. NumDistanceSymbols
          /\ Len(Leading) = Len(LeadingLiteralLengths) + Len(LeadingDistances)
      BY <2>1, LeadingIs, Zenon
    <3>2. NumLiteralLengthSymbols \in Nat /\ NumDistanceSymbols \in Nat
      BY CodeLengthsAssumption
    <3> QED  BY <2>1, <3>1, <3>2
  <2> QED  BY <2>1, <2>2, Zenon DEF TypeOK, Typed, RunIsOfLengths, Good, ClSymbol
<1> QED
  BY <1>1, IInvHolds, PTL

\* After every step of the loop over the lengths, what inflate makes of the
\* symbols written so far, and the run that is not written yet behind it, are
\* the lengths looked at so far.
THEOREM LengthsArePreserved == Spec => []LengthsPreserved
<1>1. IInv => LengthsPreserved
  BY Zenon DEF IInv
<1> QED
  BY <1>1, IInvHolds, PTL

\* The counts, which the code of the symbols is made from, are those of the
\* symbols that are written.
THEOREM CountsAreRight == Spec => []CountsMatch
<1>1. IInv => CountsMatch
  <2> SUFFICES ASSUME IInv, NEW x \in CodeLengthSymbol
               PROVE  count_by_code_length_symbol[x] =
                        Quantify(DOMAIN cl_symbols, LAMBDA k : cl_symbols[k].symbol = x)
    BY Zenon DEF CountsMatch
  <2>1. count_by_code_length_symbol[x] = Count(cl_symbols, x)
    BY Zenon DEF IInv, Good
  <2> QED  BY <2>1, Zenon DEF Count, Quantify
<1> QED
  BY <1>1, IInvHolds, PTL

\* The offset of every repeat symbol fits the extra bits it is written with, and
\* the first symbol of a block repeats nothing.
THEOREM OffsetsDoFit == Spec => []OffsetsFit
<1>1. IInv => OffsetsFit
  BY Zenon DEF IInv, Good, OffsetsFit, Offsets, Fits, Batches
<1> QED
  BY <1>1, IInvHolds, PTL

\* Every symbol has a place in the order its code's length is written in.
LEMMA EveryPlace ==
  ASSUME NEW s \in CodeLengthSymbol
  PROVE  \E k \in 1 .. MaximumPrefixCodeLength + 4 : CodeLengthOrder[k] = s
<1> DEFINE N == MaximumPrefixCodeLength + 4
           places == 1 .. N
           S == CodeLengthSymbol
<1>1. N \in Nat /\ IsFiniteSet(places) /\ Cardinality(places) = N
  <2>1. N \in Nat
    BY CodeLengthOrderIs
  <2> HIDE DEF N
  <2>2. 1 \in Int /\ N \in Int /\ ~(1 > N) => N - 1 + 1 = N
    BY <2>1
  <2>3. IsFiniteSet(1 .. N) /\ Cardinality(1 .. N) = IF 1 > N THEN 0 ELSE N - 1 + 1
    BY <2>1, FS_Interval
  <2> QED  BY <2>1, <2>3
<1>2. IsFiniteSet(S) /\ Cardinality(S) = N
  <2> DEFINE M == MaximumPrefixCodeLength + 3
  <2>1. M \in Nat /\ N = M + 1
    BY CodeLengthsAssumption
  <2> HIDE DEF M, N
  <2>2. IsFiniteSet(0 .. M) /\ Cardinality(0 .. M) = IF 0 > M THEN 0 ELSE M - 0 + 1
    BY <2>1, FS_Interval
  <2>3. Cardinality(0 .. M) = N
    BY <2>1, <2>2
  <2> QED  BY <2>2, <2>3, Zenon DEF CodeLengthSymbol, M
<1>3. CodeLengthOrder \in Injection(places, S)
  BY CodeLengthCodeAssumption, Zenon DEF Injection
<1> HIDE DEF places, S
<1>4. CodeLengthOrder \in Surjection(places, S)
  BY <1>1, <1>2, <1>3, FS_Injection, Zenon
<1> QED
  BY <1>4, Zenon DEF Surjection, places, S

LEMMA InflatedCodeLengthsAre ==
  ASSUME CodeWritten
  PROVE  InflatedCodeLengths = code_length_lengths
<1> DEFINE code == code_length_lengths
           N == MaximumPrefixCodeLength + 4
           order == Reordered(code)
           n == NumLeading(order, MinLeadingCodeLength)
           written == reordered_lengths
           Places(s) == {k \in DOMAIN written : CodeLengthOrder[k] = s}
           Of(s) == IF Places(s) = {} THEN 0 ELSE written[CHOOSE k \in Places(s) : TRUE]
<1>1. /\ code \in [CodeLengthSymbol -> 0 .. MaximumCodeLength]
      /\ written = SubSeq(order, 1, n)
  BY Zenon DEF CodeWritten
<1>2. /\ order \in [1 .. N -> 0 .. MaximumCodeLength]
      /\ \A k \in 1 .. N : order[k] = code[CodeLengthOrder[k]]
  BY <1>1, ReorderedIs, Zenon
<1>3. /\ MaximumCodeLength \in Nat /\ N \in Nat /\ MinLeadingCodeLength \in 1 .. N
      /\ DOMAIN CodeLengthOrder = 1 .. N
  BY CodeLengthCodeAssumption, CodeLengthOrderIs, Zenon
<1>4. /\ n \in MinLeadingCodeLength .. N
      /\ \A k \in 1 .. N : k > n => order[k] = 0
  <2> HIDE DEF N, order
  <2> QED  BY <1>2, <1>3, NumLeadingIs
<1>5. InflatedCodeLengths = [s \in CodeLengthSymbol |-> Of(s)]
  BY Zenon DEF InflatedCodeLengths
<1> HIDE DEF n, N, order, written, code
<1>6. n \in 0 .. N
  BY <1>3, <1>4
<1>7. /\ written \in Seq(0 .. MaximumCodeLength) /\ Len(written) = n
      /\ \A k \in 1 .. n : written[k] = order[k]
  <2> DEFINE some == SubSeq(order, 1, n)
  <2>1. /\ some \in Seq(0 .. MaximumCodeLength) /\ Len(some) = n
        /\ \A k \in 1 .. n : some[k] = order[k]
    BY <1>2, <1>3, <1>6, SubSeqIs
  <2> HIDE DEF some
  <2> QED  BY <1>1, <2>1, Zenon DEF some
<1>8. DOMAIN written = 1 .. n
  BY <1>7
<1>9. ASSUME NEW s \in CodeLengthSymbol
      PROVE  Of(s) = code[s]
  <2>1. PICK k \in 1 .. N : CodeLengthOrder[k] = s
    BY EveryPlace, Zenon DEF N
  <2>2. order[k] = code[s]
    BY <1>2, <2>1, Zenon
  <2>3. \A j \in 1 .. n : j \in 1 .. N
    BY <1>3, <1>6
  <2>4. \A j \in 1 .. N : CodeLengthOrder[j] = s => j = k
    BY <1>3, <2>1, CodeLengthCodeAssumption, Zenon DEF IsInjective
  <2>5. CASE k <= n
    <3>1. k \in 1 .. n
      BY <1>3, <1>6, <2>5
    <3>2. Places(s) = {k}
      BY <1>8, <2>1, <2>3, <2>4, <3>1, Zenon
    <3>3. (CHOOSE j \in {k} : TRUE) = k
      OBVIOUS
    <3>4. {k} # {}
      OBVIOUS
    <3>5. Of(s) = written[k]
      BY <3>2, <3>3, <3>4, Zenon
    <3> QED  BY <1>7, <2>2, <3>1, <3>5, Zenon
  <2>6. CASE ~(k <= n)
    <3>1. k > n /\ \A j \in 1 .. n : j # k
      BY <1>3, <1>6, <2>6
    <3>2. Places(s) = {}
      BY <1>8, <2>3, <2>4, <3>1, Zenon
    <3>3. Of(s) = 0
      BY <3>2, Zenon
    <3> QED  BY <1>4, <2>2, <3>1, <3>3, Zenon
  <2> QED  BY <2>5, <2>6
<1>10. code = [s \in CodeLengthSymbol |-> code[s]]
  BY <1>1 DEF code
<1> HIDE DEF Of
<1>11. [s \in CodeLengthSymbol |-> Of(s)] = [s \in CodeLengthSymbol |-> code[s]]
  BY <1>9, Zenon
<1> QED
  BY <1>5, <1>10, <1>11, Zenon DEF code

\* A symbol that is written was counted, so its code has a length.
LEMMA WrittenIsCounted ==
  ASSUME NEW s, NEW count, Good(s, count), NEW k \in DOMAIN s
  PROVE  s[k].symbol \in CodeLengthSymbol /\ count[s[k].symbol] # 0
<1> DEFINE x == s[k].symbol
           S == {j \in DOMAIN s : s[j].symbol = x}
<1>1. s \in Seq(ClSymbol)
  BY Zenon DEF Good
<1>2. x \in CodeLengthSymbol
  <2>1. s[k] \in ClSymbol
    BY <1>1
  <2> QED  BY <2>1 DEF ClSymbol
<1>3. IsFiniteSet(S) /\ S # {}
  BY <1>1, CountIs, Zenon
<1>4. count[x] = Cardinality(S)
  BY <1>2, Zenon DEF Good, Count
<1>5. Cardinality(S) # 0
  BY <1>3, FS_EmptySet, Zenon
<1> QED
  BY <1>2, <1>4, <1>5, Zenon

LEMMA SplitIs ==
  ASSUME NEW S, NEW s \in Seq(S), NEW t \in Seq(S)
  PROVE  /\ SubSeq(s \o t, 1, Len(s)) = s
         /\ SubSeq(s \o t, Len(s) + 1, Len(s \o t)) = t
OBVIOUS

\* The code of the symbols is read back from what is written of it, every symbol
\* that is written has a code, and the lengths of the literals' and of the
\* distances' codes are all read back, those that were left out as well.
THEOREM HeaderIsPreserved == Spec => []HeaderPreserved
<1>1. IInv => HeaderPreserved
  <2> SUFFICES ASSUME IInv, done
               PROVE  HeaderPreserved
    BY Zenon DEF HeaderPreserved
  <2> DEFINE a == LeadingLiteralLengths
             b == LeadingDistances
             inflated == Inflated(cl_symbols)
  <2>1. /\ Typed /\ Good(cl_symbols, count_by_code_length_symbol)
        /\ LengthsPreserved /\ CodeWritten
    BY Zenon DEF IInv
  <2>2. InflatedCodeLengths = code_length_lengths
    BY <2>1, InflatedCodeLengthsAre, Zenon
  <2>3. ASSUME NEW k \in DOMAIN cl_symbols
        PROVE  InflatedCodeLengths[cl_symbols[k].symbol] > 0
    <3> DEFINE x == cl_symbols[k].symbol
    <3>1. x \in CodeLengthSymbol /\ count_by_code_length_symbol[x] # 0
      BY <2>1, WrittenIsCounted, Zenon
    <3>2. /\ code_length_lengths \in [CodeLengthSymbol -> 0 .. MaximumCodeLength]
          /\ code_length_lengths[x] # 0
      BY <2>1, <3>1, Zenon DEF CodeWritten
    <3> HIDE DEF x
    <3>3. code_length_lengths[x] > 0
      BY <3>1, <3>2, CodeLengthCodeAssumption
    <3> QED  BY <2>2, <3>3, Zenon DEF x
  <2>4. /\ a \in Seq(CodeLength) /\ b \in Seq(CodeLength)
        /\ Leading \in Seq(CodeLength)
        /\ Len(a) \in 1 .. NumLiteralLengthSymbols /\ Len(b) \in 1 .. NumDistanceSymbols
        /\ NumLiteralLengths = Len(a) /\ NumDistances = Len(b)
    BY <2>1, LeadingIs, Zenon
  <2>5. inflated = a \o b
    <3>1. Times(prev_prefix_code_length, num_prev_prefix_code_length) = <<>>
      BY <2>1, TimesNone, Zenon DEF CodeWritten
    <3>2. inflated \in Seq(CodeLength)
      BY <2>1, Zenon DEF Good
    <3> HIDE DEF inflated
    <3>3. inflated \o <<>> = inflated
      BY <3>2
    <3>4. SubSeq(Leading, 1, Len(Leading)) = Leading
      BY <2>4
    <3>5. at = Len(Leading)
      BY <2>1, Zenon DEF CodeWritten
    <3> QED  BY <2>1, <3>1, <3>3, <3>4, <3>5, Zenon DEF LengthsPreserved, Leading, inflated
  <2>6. /\ SubSeq(inflated, 1, Len(a)) = a
        /\ SubSeq(inflated, Len(a) + 1, Len(inflated)) = b
    <3> HIDE DEF a, b, inflated
    <3>1. SubSeq(a \o b, 1, Len(a)) = a /\ SubSeq(a \o b, Len(a) + 1, Len(a \o b)) = b
      BY <2>4, SplitIs
    <3> QED  BY <2>5, <3>1, Zenon
  <2>7. /\ MaximumPrefixCodeLength \in Nat /\ NumLiteralLengthSymbols \in Nat
        /\ NumDistanceSymbols \in Nat
        /\ MinLeadingLiteralLength \in 1 .. NumLiteralLengthSymbols
        /\ min_leading_distance_prefix_codes \in 1 .. NumDistanceSymbols
        /\ \A N \in Nat : 1 .. N \subseteq 0 .. N
    BY CodeLengthsAssumption DEF min_leading_distance_prefix_codes
  <2>8. Filled(a, NumLiteralLengthSymbols) = literal_length_lengths
    <3> DEFINE lengths == literal_length_lengths
               N == NumLiteralLengthSymbols
    <3>1. lengths \in [1 .. N -> 0 .. MaximumPrefixCodeLength]
      BY <2>1, Zenon DEF Typed, CodeLength
    <3>2. NumLiteralLengths \in 0 .. N
      BY <2>4, <2>7, Zenon
    <3>3. \A s \in 1 .. N : s > NumLiteralLengths => lengths[s] = 0
      BY <2>7, <3>1, NumLeadingIs, Zenon DEF NumLiteralLengths
    <3>4. Filled(SubSeq(lengths, 1, NumLiteralLengths), N) = lengths
      <4>1. N \in Nat /\ MaximumPrefixCodeLength \in Nat
        BY <2>7
      <4> HIDE DEF lengths, N
      <4> QED  BY <3>1, <3>2, <3>3, <4>1, FilledIs
    <3>5. a = SubSeq(lengths, 1, NumLiteralLengths)
      BY Zenon DEF LeadingLiteralLengths, NumLiteralLengths
    <3> QED  BY <3>4, <3>5, Zenon
  <2>9. Filled(b, NumDistanceSymbols) = distance_lengths
    <3> DEFINE lengths == distance_lengths
               N == NumDistanceSymbols
    <3>1. lengths \in [1 .. N -> 0 .. MaximumPrefixCodeLength]
      BY <2>1, Zenon DEF Typed, CodeLength
    <3>2. NumDistances \in 0 .. N
      BY <2>4, <2>7, Zenon
    <3>3. \A s \in 1 .. N : s > NumDistances => lengths[s] = 0
      BY <2>7, <3>1, NumLeadingIs, Zenon DEF NumDistances
    <3>4. Filled(SubSeq(lengths, 1, NumDistances), N) = lengths
      <4>1. N \in Nat /\ MaximumPrefixCodeLength \in Nat
        BY <2>7
      <4> HIDE DEF lengths, N
      <4> QED  BY <3>1, <3>2, <3>3, <4>1, FilledIs
    <3>5. b = SubSeq(lengths, 1, NumDistances)
      BY Zenon DEF LeadingDistances, NumDistances
    <3> QED  BY <3>4, <3>5, Zenon
  <2> QED
    BY <2>2, <2>3, <2>6, <2>8, <2>9, Zenon DEF HeaderPreserved, Filled
<1> QED
  BY <1>1, IInvHolds, PTL

=============================================================================

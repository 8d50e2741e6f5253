------------------------------ MODULE LzssProofs ------------------------------
(***************************************************************************)
(* Lzss for every window, look-ahead, alphabet and input: the index of the *)
(* patterns is sound and complete, the search finds the longest match, and *)
(* the tokens stand for the bytes that were put.                           *)
(***************************************************************************)
EXTENDS Lzss, Induction, SequenceTheorems

-----------------------------------------------------------------------------
(***************************************************************************)
(* The index, of any bytes: positions first to n - 1 of them are in the    *)
(* window, and cut are the ones that were never indexed.                   *)
(***************************************************************************)
HasPattern(bytes, a) == a + 3 <= Len(bytes)
PatternOf(bytes, a) == <<bytes[a + 1], bytes[a + 2], bytes[a + 3]>>

Bounds(bytes, first, n, cut) ==
  /\ bytes \in Seq(Literal)
  /\ first \in Nat /\ n \in Nat /\ first <= n /\ n <= Len(bytes)
  /\ \A a \in cut : a \in Nat /\ a < n

StartsSound(bytes, first, n, starts, cut) ==
  /\ starts = [p \in DOMAIN starts |-> starts[p]]
  /\ \A p \in DOMAIN starts :
       /\ starts[p] \in first .. n - 1 /\ starts[p] \notin cut
       /\ HasPattern(bytes, starts[p]) /\ p = PatternOf(bytes, starts[p])

Link(chain, first, a) == chain[a - first + 1]

ChainsSound(bytes, first, n, chain, cut) ==
  /\ chain \in Seq(Nat) /\ Len(chain) = n - first
  /\ \A a \in first .. n - 1 :
       LET link == Link(chain, first, a) IN
       /\ link = end_of_chain \/ link < a
       /\ link # end_of_chain /\ link >= first =>
            /\ link \notin cut /\ a \notin cut
            /\ HasPattern(bytes, a)
            /\ PatternOf(bytes, link) = PatternOf(bytes, a)

\* Every position that is indexed is known, or linked from the next one.
Complete(bytes, first, n, chain, starts, cut) ==
  \A a \in first .. n - 1 : a \notin cut =>
    /\ HasPattern(bytes, a)
    /\ PatternOf(bytes, a) \in DOMAIN starts
    /\ starts[PatternOf(bytes, a)] >= a
    /\ \A b \in first .. n - 1 :
         b \notin cut /\ a < b /\ PatternOf(bytes, a) = PatternOf(bytes, b)
           => Link(chain, first, b) >= a

Indexed(bytes, first, n, chain, starts, cut) ==
  /\ Bounds(bytes, first, n, cut)
  /\ StartsSound(bytes, first, n, starts, cut)
  /\ ChainsSound(bytes, first, n, chain, cut)
  /\ Complete(bytes, first, n, chain, starts, cut)

\* One more byte behind all others.
LEMMA IndexedMoreBytes ==
  ASSUME NEW bytes, NEW first, NEW n, NEW chain, NEW starts, NEW cut,
         Indexed(bytes, first, n, chain, starts, cut), NEW literal \in Literal
  PROVE  Indexed(Append(bytes, literal), first, n, chain, starts, cut)
<1> DEFINE more == Append(bytes, literal)
<1>1. /\ bytes \in Seq(Literal) /\ Len(bytes) \in Nat
      /\ more \in Seq(Literal) /\ Len(more) = Len(bytes) + 1
      /\ \A i \in 1 .. Len(bytes) : more[i] = bytes[i]
  BY DEF Indexed, Bounds
<1> HIDE DEF more
<1>2. ASSUME NEW a \in Nat, HasPattern(bytes, a)
      PROVE  HasPattern(more, a) /\ PatternOf(more, a) = PatternOf(bytes, a)
  BY <1>1, <1>2 DEF HasPattern, PatternOf
<1>3. Bounds(more, first, n, cut)
  BY <1>1 DEF Indexed, Bounds
<1>4. StartsSound(more, first, n, starts, cut)
  BY <1>2 DEF Indexed, Bounds, StartsSound
<1>5. ChainsSound(more, first, n, chain, cut)
  <2>1. SUFFICES ASSUME NEW a \in first .. n - 1,
                        Link(chain, first, a) # end_of_chain,
                        Link(chain, first, a) >= first
                 PROVE  /\ HasPattern(more, a)
                        /\ PatternOf(more, Link(chain, first, a)) = PatternOf(more, a)
    BY DEF Indexed, ChainsSound
  <2> DEFINE link == Link(chain, first, a)
  <2>2. /\ HasPattern(bytes, a) /\ PatternOf(bytes, link) = PatternOf(bytes, a)
        /\ link < a /\ link \in Nat /\ a \in Nat
    <3>1. chain \in Seq(Nat) /\ a - first + 1 \in 1 .. Len(chain) /\ a \in Nat
      BY DEF Indexed, ChainsSound, Bounds
    <3>2. QED
      BY <2>1, <3>1 DEF Indexed, ChainsSound, Bounds, Link
  <2>3. HasPattern(bytes, link)
    BY <1>1, <2>2 DEF HasPattern
  <2>4. QED
    BY <1>2, <2>2, <2>3
<1>6. Complete(more, first, n, chain, starts, cut)
  <2>1. \A a \in first .. n - 1 : a \notin cut =>
          HasPattern(bytes, a) /\ HasPattern(more, a)
            /\ PatternOf(more, a) = PatternOf(bytes, a)
    BY <1>2 DEF Indexed, Bounds, Complete
  <2>2. QED
    BY <2>1 DEF Indexed, Complete
<1>7. QED
  BY <1>3, <1>4, <1>5, <1>6 DEF Indexed, more

\* The oldest position leaves the window.
LEMMA IndexedRemove ==
  ASSUME NEW bytes, NEW first, NEW n, NEW chain, NEW starts, NEW cut,
         Indexed(bytes, first, n, chain, starts, cut), first < n,
         NEW fewer, fewer = [p \in DOMAIN fewer |-> starts[p]],
         DOMAIN fewer = {p \in DOMAIN starts : starts[p] # first}
  PROVE  Indexed(bytes, first + 1, n, Tail(chain), fewer, cut)
<1>1. first \in Nat /\ n \in Nat
  BY DEF Indexed, Bounds
<1>2. /\ chain \in Seq(Nat) /\ Len(chain) = n - first
      /\ Tail(chain) \in Seq(Nat) /\ Len(Tail(chain)) = n - (first + 1)
      /\ \A i \in 1 .. Len(chain) - 1 : Tail(chain)[i] = chain[i + 1]
  <2>1. chain \in Seq(Nat) /\ Len(chain) = n - first
    BY DEF Indexed, ChainsSound
  <2>2. chain # <<>>
    BY <1>1, <2>1
  <2>3. QED
    BY <1>1, <2>1, <2>2
<1>3. \A a \in first + 1 .. n - 1 :
        Link(Tail(chain), first + 1, a) = Link(chain, first, a)
  <2>1. SUFFICES ASSUME NEW a \in first + 1 .. n - 1
                 PROVE  Tail(chain)[a - (first + 1) + 1] = chain[a - first + 1]
    BY DEF Link
  <2>2. a - (first + 1) + 1 \in 1 .. Len(chain) - 1
        /\ a - (first + 1) + 1 + 1 = a - first + 1
    BY <1>1, <1>2
  <2>3. QED
    BY <1>2, <2>2
<1>4. \A a \in first + 1 .. n - 1 : a \in first .. n - 1 /\ a \in Nat
  BY <1>1
<1>5. Bounds(bytes, first + 1, n, cut)
  BY <1>1 DEF Indexed, Bounds
<1>6. StartsSound(bytes, first + 1, n, fewer, cut)
  <2>1. \A p \in DOMAIN fewer :
          p \in DOMAIN starts /\ fewer[p] = starts[p] /\ starts[p] # first
    BY Zenon
  <2>2. fewer = [p \in DOMAIN fewer |-> fewer[p]]
    BY Zenon
  <2>3. QED
    BY <1>1, <2>1, <2>2 DEF Indexed, StartsSound
<1>7. ChainsSound(bytes, first + 1, n, Tail(chain), cut)
  <2>1. SUFFICES ASSUME NEW a \in first + 1 .. n - 1
                 PROVE  LET link == Link(chain, first, a) IN
                        /\ link = end_of_chain \/ link < a
                        /\ link # end_of_chain /\ link >= first + 1 =>
                             /\ link \notin cut /\ a \notin cut
                             /\ HasPattern(bytes, a)
                             /\ PatternOf(bytes, link) = PatternOf(bytes, a)
    BY <1>2, <1>3 DEF ChainsSound
  <2>2. Link(chain, first, a) \in Nat
    BY <1>1, <1>2 DEF Link
  <2>3. QED
    BY <1>1, <1>4, <2>2 DEF Indexed, ChainsSound
<1>8. Complete(bytes, first + 1, n, Tail(chain), fewer, cut)
  <2>1. SUFFICES ASSUME NEW a \in first + 1 .. n - 1, a \notin cut
                 PROVE  /\ HasPattern(bytes, a)
                        /\ PatternOf(bytes, a) \in DOMAIN fewer
                        /\ fewer[PatternOf(bytes, a)] >= a
                        /\ \A b \in first + 1 .. n - 1 :
                             b \notin cut /\ a < b
                             /\ PatternOf(bytes, a) = PatternOf(bytes, b)
                               => Link(chain, first, b) >= a
    BY <1>3 DEF Complete
  <2>2. a \in first .. n - 1
    BY <1>4
  <2>3. /\ HasPattern(bytes, a)
        /\ PatternOf(bytes, a) \in DOMAIN starts
        /\ starts[PatternOf(bytes, a)] >= a
        /\ \A b \in first .. n - 1 :
             b \notin cut /\ a < b /\ PatternOf(bytes, a) = PatternOf(bytes, b)
               => Link(chain, first, b) >= a
    BY <2>1, <2>2 DEF Indexed, Complete
  <2>4. starts[PatternOf(bytes, a)] \in first .. n - 1
    BY <2>3 DEF Indexed, StartsSound
  <2>5. starts[PatternOf(bytes, a)] # first
    BY <1>1, <2>3, <2>4
  <2>6. PatternOf(bytes, a) \in DOMAIN fewer
        /\ fewer[PatternOf(bytes, a)] = starts[PatternOf(bytes, a)]
    BY <2>3, <2>5, Zenon
  <2>7. QED
    BY <1>4, <2>3, <2>6
<1>9. QED
  BY <1>5, <1>6, <1>7, <1>8 DEF Indexed

\* The newest position enters the window with two bytes behind it.
LEMMA IndexedAdd ==
  ASSUME NEW bytes, NEW first, NEW n, NEW chain, NEW starts, NEW cut,
         Indexed(bytes, first, n, chain, starts, cut), HasPattern(bytes, n),
         NEW link, link = IF PatternOf(bytes, n) \in DOMAIN starts
                          THEN starts[PatternOf(bytes, n)] ELSE end_of_chain,
         NEW more,
         more = [p \in DOMAIN starts \cup {PatternOf(bytes, n)} |->
                   IF p = PatternOf(bytes, n) THEN n ELSE starts[p]]
  PROVE  Indexed(bytes, first, n + 1, Append(chain, link), more, cut)
<1> DEFINE pattern == PatternOf(bytes, n)
           longer == Append(chain, link)
<1>1. /\ first \in Nat /\ n \in Nat /\ first <= n /\ Len(bytes) \in Nat
      /\ bytes \in Seq(Literal) /\ n \notin cut /\ \A a \in cut : a \in Nat
  BY DEF Indexed, Bounds
<1>2. /\ DOMAIN more = DOMAIN starts \cup {pattern}
      /\ more = [p \in DOMAIN more |-> more[p]]
      /\ more[pattern] = n
      /\ \A p \in DOMAIN starts : p # pattern => more[p] = starts[p]
  OBVIOUS
<1>3. \/ link = end_of_chain /\ pattern \notin DOMAIN starts
      \/ /\ pattern \in DOMAIN starts /\ link = starts[pattern]
         /\ link \in first .. n - 1 /\ link \notin cut
         /\ PatternOf(bytes, link) = pattern
  BY DEF Indexed, StartsSound
<1> HIDE DEF pattern
<1>4. link \in Nat /\ (link = end_of_chain \/ link < n)
  BY <1>1, <1>3 DEF end_of_chain
<1>5. /\ chain \in Seq(Nat) /\ Len(chain) = n - first
      /\ longer \in Seq(Nat) /\ Len(longer) = n + 1 - first
      /\ \A a \in first .. n - 1 : Link(longer, first, a) = Link(chain, first, a)
      /\ Link(longer, first, n) = link
  <2>1. chain \in Seq(Nat) /\ Len(chain) = n - first
    BY DEF Indexed, ChainsSound
  <2>2. /\ longer \in Seq(Nat) /\ Len(longer) = Len(chain) + 1
        /\ \A i \in 1 .. Len(chain) : longer[i] = chain[i]
        /\ longer[Len(chain) + 1] = link
    BY <1>4, <2>1
  <2>3. \A a \in first .. n - 1 : a - first + 1 \in 1 .. Len(chain)
    BY <1>1, <2>1
  <2> HIDE DEF longer
  <2>4. QED
    BY <1>1, <2>1, <2>2, <2>3 DEF Link
<1> HIDE DEF longer
<1>6. /\ \A a \in first .. n : a \in first .. n - 1 \/ a = n
      /\ first .. (n + 1) - 1 = first .. n
  BY <1>1
<1>7. Bounds(bytes, first, n + 1, cut)
  BY <1>1 DEF Indexed, Bounds, HasPattern
<1>8. StartsSound(bytes, first, n + 1, more, cut)
  <2>1. \A p \in DOMAIN more :
          /\ more[p] \in first .. n /\ more[p] \notin cut
          /\ HasPattern(bytes, more[p]) /\ p = PatternOf(bytes, more[p])
    BY <1>1, <1>2 DEF Indexed, StartsSound, pattern
  <2>2. QED
    <3>1. \A p \in DOMAIN more :
            /\ more[p] \in first .. (n + 1) - 1 /\ more[p] \notin cut
            /\ HasPattern(bytes, more[p]) /\ p = PatternOf(bytes, more[p])
      BY <1>6, <2>1, Zenon
    <3>2. more = [p \in DOMAIN more |-> more[p]]
      BY <1>2, Zenon
    <3>3. QED
      BY <3>1, <3>2, Zenon DEF StartsSound
<1>9. ChainsSound(bytes, first, n + 1, longer, cut)
  <2>1. SUFFICES ASSUME NEW a \in first .. n
                 PROVE  LET to == Link(longer, first, a) IN
                        /\ to = end_of_chain \/ to < a
                        /\ to # end_of_chain /\ to >= first =>
                             /\ to \notin cut /\ a \notin cut
                             /\ HasPattern(bytes, a)
                             /\ PatternOf(bytes, to) = PatternOf(bytes, a)
    BY <1>1, <1>5 DEF ChainsSound
  <2>2. CASE a = n
    BY <1>1, <1>3, <1>4, <1>5, <2>2 DEF pattern
  <2>3. CASE a \in first .. n - 1
    BY <1>5, <2>3 DEF Indexed, ChainsSound
  <2>4. QED
    BY <1>6, <2>2, <2>3
<1>10. Complete(bytes, first, n + 1, longer, more, cut)
  <2>1. SUFFICES ASSUME NEW a \in first .. n, a \notin cut
                 PROVE  /\ HasPattern(bytes, a)
                        /\ PatternOf(bytes, a) \in DOMAIN more
                        /\ more[PatternOf(bytes, a)] >= a
                        /\ \A b \in first .. n :
                             b \notin cut /\ a < b
                             /\ PatternOf(bytes, a) = PatternOf(bytes, b)
                               => Link(longer, first, b) >= a
    BY <1>6, Zenon DEF Complete
  <2>2. CASE a = n
    BY <1>1, <1>2, <2>2 DEF pattern
  <2>3. CASE a \in first .. n - 1
    <3>1. /\ HasPattern(bytes, a)
          /\ PatternOf(bytes, a) \in DOMAIN starts
          /\ starts[PatternOf(bytes, a)] >= a
          /\ \A b \in first .. n - 1 :
               b \notin cut /\ a < b /\ PatternOf(bytes, a) = PatternOf(bytes, b)
                 => Link(chain, first, b) >= a
      BY <2>1, <2>3 DEF Indexed, Complete
    <3>2. more[PatternOf(bytes, a)] >= a
      BY <1>1, <1>2, <2>3, <3>1
    <3>3. ASSUME NEW b \in first .. n, b \notin cut, a < b,
                 PatternOf(bytes, a) = PatternOf(bytes, b)
          PROVE  Link(longer, first, b) >= a
      BY <1>3, <1>5, <1>6, <3>1, <3>3 DEF pattern
    <3>4. QED
      BY <1>2, <3>1, <3>2, <3>3
  <2>4. QED
    BY <1>6, <2>2, <2>3
<1>11. QED
  BY <1>7, <1>8, <1>9, <1>10 DEF Indexed, longer

\* The newest position enters the window with fewer: it is cut off.
LEMMA IndexedCutOff ==
  ASSUME NEW bytes, NEW first, NEW n, NEW chain, NEW starts, NEW cut,
         Indexed(bytes, first, n, chain, starts, cut), n < Len(bytes)
  PROVE  Indexed(bytes, first, n + 1, Append(chain, end_of_chain), starts,
                 cut \cup {n})
<1> DEFINE longer == Append(chain, end_of_chain)
           all == cut \cup {n}
<1>1. /\ first \in Nat /\ n \in Nat /\ first <= n /\ Len(bytes) \in Nat
      /\ bytes \in Seq(Literal) /\ \A a \in cut : a \in Nat /\ a < n
  BY DEF Indexed, Bounds
<1>2. /\ longer \in Seq(Nat) /\ Len(longer) = n + 1 - first
      /\ \A a \in first .. n - 1 : Link(longer, first, a) = Link(chain, first, a)
      /\ Link(longer, first, n) = end_of_chain
  <2>1. chain \in Seq(Nat) /\ Len(chain) = n - first
    BY DEF Indexed, ChainsSound
  <2>2. /\ longer \in Seq(Nat) /\ Len(longer) = Len(chain) + 1
        /\ \A i \in 1 .. Len(chain) : longer[i] = chain[i]
        /\ longer[Len(chain) + 1] = end_of_chain
    BY <2>1 DEF end_of_chain
  <2>3. \A a \in first .. n - 1 : a - first + 1 \in 1 .. Len(chain)
    BY <1>1, <2>1
  <2> HIDE DEF longer
  <2>4. QED
    BY <1>1, <2>1, <2>2, <2>3 DEF Link
<1> HIDE DEF longer
<1>3. \A a \in first .. n : a \in first .. n - 1 \/ a = n
  BY <1>1
<1>4. Bounds(bytes, first, n + 1, all)
  BY <1>1 DEF Bounds
<1>5. StartsSound(bytes, first, n + 1, starts, all)
  BY <1>1 DEF Indexed, StartsSound
<1>6. ChainsSound(bytes, first, n + 1, longer, all)
  <2>1. SUFFICES ASSUME NEW a \in first .. n
                 PROVE  LET to == Link(longer, first, a) IN
                        /\ to = end_of_chain \/ to < a
                        /\ to # end_of_chain /\ to >= first =>
                             /\ to \notin all /\ a \notin all
                             /\ HasPattern(bytes, a)
                             /\ PatternOf(bytes, to) = PatternOf(bytes, a)
    BY <1>1, <1>2 DEF ChainsSound
  <2>2. CASE a \in first .. n - 1
    BY <1>1, <1>2, <2>2 DEF Indexed, ChainsSound, end_of_chain
  <2>3. QED
    BY <1>2, <1>3, <2>2
<1>7. Complete(bytes, first, n + 1, longer, starts, all)
  BY <1>1, <1>2, <1>3 DEF Indexed, Complete
<1>8. QED
  BY <1>4, <1>5, <1>6, <1>7 DEF Indexed, longer

-----------------------------------------------------------------------------
(***************************************************************************)
(* One byte taken: the three steps of take_literal_.                       *)
(***************************************************************************)
Bytes(f) == f.taken \o f.look_ahead
FirstOf(f) == Len(f.taken) - Len(f.look_back)

\* look_back is the end of what was taken.
Window(f) ==
  /\ f = [look_back |-> f.look_back, look_ahead |-> f.look_ahead,
           chain |-> f.chain, starts |-> f.starts, position |-> f.position,
           taken |-> f.taken, cut_off |-> f.cut_off]
  /\ f.look_back \in Seq(Literal) /\ Len(f.look_back) <= LookBackSize
  /\ f.look_ahead \in Seq(Literal) /\ Len(f.look_ahead) <= LookAheadSize
  /\ f.taken \in Seq(Literal) /\ Len(f.look_back) <= Len(f.taken)
  /\ f.position = Len(f.taken) + 1
  /\ \A i \in 1 .. Len(f.look_back) : f.look_back[i] = f.taken[FirstOf(f) + i]

IndexedUpTo(f, n, cut) ==
  Indexed(Bytes(f), FirstOf(f), n, f.chain, f.starts, cut)

Sound(f) == Window(f) /\ IndexedUpTo(f, Len(f.taken), f.cut_off)

LEMMA ModulusOfRelative ==
  ASSUME NEW k \in Nat, k < RelativeModulus
  PROVE  k % RelativeModulus = k
  BY LzssAssumption, SMT

LEMMA FirstThree ==
  ASSUME NEW s \in Seq(Literal), Len(s) >= 3
  PROVE  SubSeq(s, 1, 3) = <<s[1], s[2], s[3]>>
<1> DEFINE t == SubSeq(s, 1, 3)
           u == <<s[1], s[2], s[3]>>
<1>1. \A i \in 1 .. 3 : s[i] \in Literal
  BY ElementOfSeq
<1>2. t \in Seq(Literal) /\ Len(t) = 3 /\ \A i \in 1 .. 3 : t[i] = s[i]
  BY <1>1
<1>3. u \in Seq(Literal) /\ Len(u) = 3 /\ \A i \in 1 .. 3 : u[i] = s[i]
  BY <1>1
<1> HIDE DEF t, u
<1>4. t = u
  BY <1>2, <1>3, SeqEqual
<1>5. QED
  BY <1>4 DEF t, u

\* The bytes of a window, and where they are among all bytes.
LEMMA BytesOfWindow ==
  ASSUME NEW f, Window(f)
  PROVE  /\ Bytes(f) \in Seq(Literal)
         /\ Len(f.taken) \in Nat /\ Len(f.look_ahead) \in Nat
         /\ Len(f.look_back) \in Nat /\ FirstOf(f) \in Nat
         /\ FirstOf(f) = Len(f.taken) - Len(f.look_back)
         /\ Len(Bytes(f)) = Len(f.taken) + Len(f.look_ahead)
         /\ \A i \in 1 .. Len(f.taken) : Bytes(f)[i] = f.taken[i]
         /\ \A i \in 1 .. Len(f.look_ahead) :
              Bytes(f)[Len(f.taken) + i] = f.look_ahead[i]
         /\ \A i \in 1 .. Len(f.look_back) :
              f.look_back[i] = Bytes(f)[FirstOf(f) + i]
         /\ AbsoluteStartOfLookBack(f) = FirstOf(f)
<1> DEFINE s == f.taken
           t == f.look_ahead
           w == f.look_back
<1>1. /\ s \in Seq(Literal) /\ t \in Seq(Literal) /\ w \in Seq(Literal)
      /\ Len(s) \in Nat /\ Len(t) \in Nat /\ Len(w) \in Nat /\ Len(w) <= Len(s)
      /\ f.position = Len(s) + 1
      /\ FirstOf(f) = Len(s) - Len(w)
      /\ \A i \in 1 .. Len(w) : w[i] = s[FirstOf(f) + i]
  BY DEF Window, FirstOf
<1>2. /\ s \o t \in Seq(Literal) /\ Len(s \o t) = Len(s) + Len(t)
      /\ \A i \in 1 .. Len(s) + Len(t) :
           (s \o t)[i] = IF i <= Len(s) THEN s[i] ELSE t[i - Len(s)]
  BY <1>1, ConcatProperties
<1>3. Bytes(f) = s \o t
  BY DEF Bytes
<1>4. AbsoluteStartOfLookBack(f) = FirstOf(f)
  BY <1>1 DEF AbsoluteStartOfLookBack
<1> HIDE DEF s, t, w
<1>5. /\ \A i \in 1 .. Len(s) : Bytes(f)[i] = s[i]
      /\ \A i \in 1 .. Len(t) : Bytes(f)[Len(s) + i] = t[i]
      /\ \A i \in 1 .. Len(w) : w[i] = Bytes(f)[FirstOf(f) + i]
  <2>1. \A i \in 1 .. Len(t) : /\ Len(s) + i \in 1 .. Len(s) + Len(t)
                               /\ ~(Len(s) + i <= Len(s))
                               /\ Len(s) + i - Len(s) = i
    BY <1>1
  <2>2. \A i \in 1 .. Len(t) : Bytes(f)[Len(s) + i] = t[i]
    BY <1>2, <1>3, <2>1
  <2>3. \A i \in 1 .. Len(s) : Bytes(f)[i] = s[i]
    BY <1>1, <1>2, <1>3
  <2>4. \A i \in 1 .. Len(w) : FirstOf(f) + i \in 1 .. Len(s)
    BY <1>1
  <2>5. QED
    BY <1>1, <2>2, <2>3, <2>4
<1>6. FirstOf(f) \in Nat /\ Bytes(f) \in Seq(Literal)
      /\ Len(Bytes(f)) = Len(s) + Len(t)
  BY <1>1, <1>2, <1>3
<1>7. QED
  BY <1>1, <1>4, <1>5, <1>6, Zenon DEF s, t, w

LEMMA RelativeOfWindow ==
  ASSUME NEW f, Window(f), NEW a \in FirstOf(f) .. Len(f.taken) - 1
  PROVE  /\ AbsoluteToRelative(f, a) = a - FirstOf(f)
         /\ AbsoluteToRelative(f, a) \in 0 .. Len(f.look_back) - 1
<1>1. /\ Len(f.taken) \in Nat /\ Len(f.look_back) \in Nat
      /\ FirstOf(f) = Len(f.taken) - Len(f.look_back)
      /\ AbsoluteStartOfLookBack(f) = FirstOf(f)
  BY BytesOfWindow, Zenon
<1>2. a - FirstOf(f) \in 0 .. Len(f.look_back) - 1
  <2> DEFINE n == Len(f.taken)
             m == Len(f.look_back)
             first == FirstOf(f)
  <2>1. n \in Nat /\ m \in Nat /\ first = n - m /\ a \in first .. n - 1
    BY <1>1
  <2> HIDE DEF n, m, first
  <2>2. a - first \in 0 .. m - 1
    BY <2>1
  <2>3. QED
    BY <2>2 DEF m, first
<1>3. a - FirstOf(f) \in Nat /\ a - FirstOf(f) < RelativeModulus
  BY <1>1, <1>2, LzssAssumption DEF Window
<1>4. (a - FirstOf(f)) % RelativeModulus = a - FirstOf(f)
  BY <1>3, ModulusOfRelative
<1>5. QED
  BY <1>1, <1>2, <1>4 DEF AbsoluteToRelative

\* The finder with another index.
With(f, chain, starts) ==
  [look_back |-> f.look_back, look_ahead |-> f.look_ahead,
   chain |-> chain, starts |-> starts, position |-> f.position,
   taken |-> f.taken, cut_off |-> f.cut_off]

\* The oldest byte of a full window is forgotten before it is overwritten.
Oldest(f) == IF Len(f.look_back) < LookBackSize THEN FirstOf(f) ELSE FirstOf(f) + 1

LEMMA RemoveStep ==
  ASSUME NEW f, Sound(f)
  PROVE  /\ RemovePattern(f) =
              [look_back |-> f.look_back, look_ahead |-> f.look_ahead,
               chain |-> RemovePattern(f).chain, starts |-> RemovePattern(f).starts,
               position |-> f.position, taken |-> f.taken, cut_off |-> f.cut_off]
         /\ Indexed(Bytes(f), Oldest(f), Len(f.taken), RemovePattern(f).chain,
                    RemovePattern(f).starts, f.cut_off)
<1> DEFINE first == FirstOf(f)
           n == Len(f.taken)
           m == Len(f.look_back)
<1>1. /\ Window(f) /\ n \in Nat /\ m \in Nat /\ first \in Nat /\ first = n - m
      /\ m <= LookBackSize /\ AbsoluteStartOfLookBack(f) = first
      /\ Indexed(Bytes(f), first, n, f.chain, f.starts, f.cut_off)
  BY BytesOfWindow DEF Sound, IndexedUpTo, Window
<1> HIDE DEF first, n, m
<1>2. CASE m < LookBackSize
  <2>1. RemovePattern(f) = f /\ Oldest(f) = first
    BY <1>2 DEF RemovePattern, Oldest, first, m
  <2>2. QED
    BY <1>1, <2>1 DEF Window, n
<1>3. CASE ~(m < LookBackSize)
  <2> DEFINE pattern == SubSeq(f.look_back, 1, 3)
             leaves == /\ pattern \in DOMAIN f.starts
                       /\ AbsoluteToRelative(f, f.starts[pattern]) = 0
             fewer == IF leaves
                      THEN [p \in DOMAIN f.starts \ {pattern} |-> f.starts[p]]
                      ELSE f.starts
  <2>1. m = LookBackSize /\ m >= 3 /\ first < n /\ Oldest(f) = first + 1
    <3>1. Oldest(f) = first + 1
      BY <1>3 DEF Oldest, first, m
    <3>2. QED
      BY <1>1, <1>3, <3>1, LzssAssumption
  <2>2. pattern = PatternOf(Bytes(f), first)
    <3>1. /\ f.look_back \in Seq(Literal)
          /\ \A i \in 1 .. m : f.look_back[i] = Bytes(f)[first + i]
      BY <1>1, BytesOfWindow, Zenon DEF Window, first, m
    <3>2. pattern = <<f.look_back[1], f.look_back[2], f.look_back[3]>>
      BY <2>1, <3>1, FirstThree DEF m
    <3>3. 1 \in 1 .. m /\ 2 \in 1 .. m /\ 3 \in 1 .. m
      BY <1>1, <2>1
    <3>4. QED
      BY <3>1, <3>2, <3>3, Zenon DEF PatternOf
  <2>3. /\ f.starts = [p \in DOMAIN f.starts |-> f.starts[p]]
        /\ \A p \in DOMAIN f.starts : /\ f.starts[p] \in first .. n - 1
                                      /\ p = PatternOf(Bytes(f), f.starts[p])
    BY <1>1 DEF Indexed, StartsSound
  <2>4. \A p \in DOMAIN f.starts :
          AbsoluteToRelative(f, f.starts[p]) = f.starts[p] - first
    BY <1>1, <2>3, RelativeOfWindow DEF first, n
  <2>5. leaves <=> pattern \in DOMAIN f.starts /\ f.starts[pattern] = first
    <3>1. ASSUME pattern \in DOMAIN f.starts
          PROVE  AbsoluteToRelative(f, f.starts[pattern]) = 0
                   <=> f.starts[pattern] = first
      <4>1. f.starts[pattern] \in Int
        BY <1>1, <2>3, <3>1
      <4>2. QED
        BY <1>1, <2>4, <3>1, <4>1
    <3>2. QED
      BY <3>1, Zenon
  <2>6. RemovePattern(f) = [f EXCEPT !.chain = Tail(f.chain), !.starts = fewer]
    BY <1>3 DEF RemovePattern, m
  <2> HIDE DEF leaves, pattern
  <2>7. /\ fewer = [p \in DOMAIN fewer |-> f.starts[p]]
        /\ DOMAIN fewer = {p \in DOMAIN f.starts : f.starts[p] # first}
    <3>1. CASE leaves
      <4>1. fewer = [p \in DOMAIN f.starts \ {pattern} |-> f.starts[p]]
        BY <3>1
      <4>2. \A p \in DOMAIN f.starts : p = pattern <=> f.starts[p] = first
        BY <2>2, <2>3, <2>5, <3>1
      <4>3. QED
        BY <4>1, <4>2
    <3>2. CASE ~leaves
      <4>1. fewer = f.starts
        BY <3>2
      <4>2. \A p \in DOMAIN f.starts : f.starts[p] # first
        BY <2>2, <2>3, <2>5, <3>2
      <4>3. QED
        BY <2>3, <4>1, <4>2
    <3>3. QED
      BY <3>1, <3>2
  <2> HIDE DEF fewer
  <2>8. Indexed(Bytes(f), first + 1, n, Tail(f.chain), fewer, f.cut_off)
    BY <1>1, <2>1, <2>7, IndexedRemove
  <2>9. RemovePattern(f) =
          [look_back |-> f.look_back, look_ahead |-> f.look_ahead,
           chain |-> Tail(f.chain), starts |-> fewer,
           position |-> f.position, taken |-> f.taken, cut_off |-> f.cut_off]
    BY <1>1, <2>6 DEF Window
  <2>10. QED
    BY <2>1, <2>8, <2>9 DEF n
<1>4. QED
  BY <1>2, <1>3

\* h is f with one more byte in its window, and this index.
OneMore(h, f, chain, starts) ==
  /\ Window(h) /\ h.look_back # <<>> /\ FirstOf(h) = Oldest(f)
  /\ Bytes(h) = Bytes(f)
  /\ h.taken = Append(f.taken, Head(f.look_ahead))
  /\ h.look_ahead = Tail(f.look_ahead)
  /\ h.chain = chain /\ h.starts = starts
  /\ h.cut_off = IF Len(f.look_ahead) < 3
                 THEN f.cut_off \cup {Len(f.taken)} ELSE f.cut_off

\* The window with one more byte, the oldest one given up when it is full.
LEMMA ShiftStep ==
  ASSUME NEW f, Window(f), f.look_ahead # <<>>, NEW chain, NEW starts
  PROVE  OneMore(Shifted(With(f, chain, starts)), f, chain, starts)
<1> DEFINE g == With(f, chain, starts)
           first == FirstOf(f)
           n == Len(f.taken)
           m == Len(f.look_back)
           back == f.look_back
           ahead == f.look_ahead
           done == f.taken
           head == Head(ahead)
           back1 == Enqueued(back, LookBackSize, head)
           done1 == Append(done, head)
           h == Shifted(g)
           cut == IF Len(f.look_ahead) < 3
                  THEN f.cut_off \cup {Len(f.taken)} ELSE f.cut_off
<1>1. /\ back \in Seq(Literal) /\ ahead \in Seq(Literal) /\ done \in Seq(Literal)
      /\ n = Len(done) /\ m = Len(back)
      /\ n \in Nat /\ m \in Nat /\ first \in Nat /\ first = n - m
      /\ m <= LookBackSize /\ LookBackSize \in Nat /\ LookBackSize >= 3
      /\ Len(ahead) \in Nat /\ Len(ahead) <= LookAheadSize /\ ahead # <<>>
      /\ f.position = n + 1
      /\ \A i \in 1 .. m : back[i] = done[first + i]
  BY BytesOfWindow, LzssAssumption DEF Window
<1>1a. /\ n \in Nat /\ m \in Nat /\ first \in Nat /\ first = n - m
       /\ m <= LookBackSize /\ LookBackSize \in Nat /\ LookBackSize >= 3
       /\ Len(ahead) \in Nat
  BY <1>1
<1>2. h = [look_back |-> back1, look_ahead |-> Tail(ahead), chain |-> chain,
           starts |-> starts, position |-> f.position + 1, taken |-> done1,
           cut_off |-> cut]
  <2>1. /\ DOMAIN g = {"look_back", "look_ahead", "chain", "starts", "position",
                       "taken", "cut_off"}
        /\ g.look_back = back /\ g.look_ahead = ahead /\ g.chain = chain
        /\ g.starts = starts /\ g.position = f.position /\ g.taken = done
        /\ g.cut_off = f.cut_off
    BY DEF With
  <2>2. h = [g EXCEPT !.look_back = back1, !.look_ahead = Tail(ahead),
                      !.position = f.position + 1, !.taken = done1,
                      !.cut_off = cut]
    BY <2>1, Zenon DEF Shifted
  <2> HIDE DEF back, ahead, done, head, back1, done1, h, cut
  <2>3. g = [look_back |-> f.look_back, look_ahead |-> f.look_ahead,
             chain |-> chain, starts |-> starts, position |-> f.position,
             taken |-> f.taken, cut_off |-> f.cut_off]
    BY Zenon DEF With
  <2> HIDE DEF g
  <2>4. QED
    BY <2>2, <2>3
<1>3. Oldest(f) = IF m < LookBackSize THEN first ELSE first + 1
  BY DEF Oldest
<1>4. Bytes(f) = done \o ahead
  BY DEF Bytes
<1> HIDE DEF first, n, m, back, ahead, done, head, back1, done1, h, cut
<1>5. /\ head \in Literal /\ Tail(ahead) \in Seq(Literal)
      /\ Len(Tail(ahead)) = Len(ahead) - 1
      /\ \A i \in 1 .. Len(ahead) - 1 : Tail(ahead)[i] = ahead[i + 1]
      /\ ahead[1] = head
  <2>1. head = ahead[1]
    BY <1>1 DEF head
  <2>2. QED
    BY <1>1, <2>1, HeadTailProperties DEF head
<1>6. /\ done1 \in Seq(Literal) /\ Len(done1) = n + 1 /\ done1[n + 1] = head
      /\ \A i \in 1 .. n : done1[i] = done[i]
  BY <1>1, <1>5, AppendProperties DEF done1
<1>7. /\ back1 \in Seq(Literal) /\ Len(back1) = n + 1 - Oldest(f)
      /\ Oldest(f) \in Nat /\ Len(back1) \in 1 .. LookBackSize
      /\ \A i \in 1 .. Len(back1) : back1[i] = done1[Oldest(f) + i]
      /\ Last(back1) = head
  <2>1. CASE m < LookBackSize
    <3>1. back1 = Append(back, head) /\ Oldest(f) = first
      BY <1>1, <1>3, <2>1 DEF back1, Enqueued
    <3>2. /\ back1 \in Seq(Literal) /\ Len(back1) = m + 1 /\ back1[m + 1] = head
          /\ \A i \in 1 .. m : back1[i] = back[i]
      BY <1>1, <1>5, <3>1, AppendProperties
    <3>3. ASSUME NEW i \in 1 .. m + 1
          PROVE  back1[i] = done1[first + i]
      <4>1. CASE i = m + 1
        BY <1>1, <1>6, <3>2, <4>1
      <4>2. CASE i \in 1 .. m
        <5>1. first + i \in 1 .. n
          BY <1>1, <4>2
        <5>2. QED
          BY <1>1, <1>6, <3>2, <4>2, <5>1
      <4>3. QED
        BY <1>1, <4>1, <4>2
    <3>4. Last(back1) = head
      BY <3>2 DEF Last
    <3>5. n + 1 - Oldest(f) = m + 1 /\ m + 1 \in 1 .. LookBackSize
          /\ Oldest(f) \in Nat
      BY <1>1a, <2>1, <3>1
    <3>6. QED
      BY <3>1, <3>2, <3>3, <3>4, <3>5
  <2>2. CASE ~(m < LookBackSize)
    <3>1. back1 = Append(Tail(back), head) /\ Oldest(f) = first + 1 /\ m = LookBackSize
      BY <1>1, <1>3, <2>2 DEF back1, Enqueued
    <3>2. /\ Tail(back) \in Seq(Literal) /\ Len(Tail(back)) = m - 1
          /\ \A i \in 1 .. m - 1 : Tail(back)[i] = back[i + 1]
      <4>1. back # <<>>
        <5>1. Len(back) # 0
          BY <1>1, <3>1
        <5>2. QED
          BY <5>1
      <4>2. QED
        BY <1>1, <4>1, HeadTailProperties
    <3>3. /\ back1 \in Seq(Literal) /\ Len(back1) = m /\ back1[m] = head
          /\ \A i \in 1 .. m - 1 : back1[i] = back[i + 1]
      <4>1. /\ back1 \in Seq(Literal) /\ Len(back1) = Len(Tail(back)) + 1
            /\ back1[Len(Tail(back)) + 1] = head
            /\ \A i \in 1 .. Len(Tail(back)) : back1[i] = Tail(back)[i]
        BY <1>5, <3>1, <3>2, AppendProperties
      <4>2. QED
        BY <1>1, <3>2, <4>1
    <3>4. ASSUME NEW i \in 1 .. m
          PROVE  back1[i] = done1[first + 1 + i]
      <4>1. CASE i = m
        BY <1>1, <1>6, <3>3, <4>1
      <4>2. CASE i \in 1 .. m - 1
        <5>1. /\ first + 1 + i \in 1 .. n /\ i + 1 \in 1 .. m
              /\ first + (i + 1) = first + 1 + i
          BY <1>1, <4>2
        <5>2. QED
          BY <1>1, <1>6, <3>3, <4>2, <5>1
      <4>3. QED
        BY <1>1, <4>1, <4>2
    <3>5. Last(back1) = head
      BY <3>3 DEF Last
    <3>6. n + 1 - Oldest(f) = m /\ m \in 1 .. LookBackSize /\ Oldest(f) \in Nat
      BY <1>1a, <3>1
    <3>7. QED
      BY <3>1, <3>3, <3>4, <3>5, <3>6
  <2>3. QED
    BY <2>1, <2>2
<1>8. FirstOf(h) = Oldest(f)
  <2>1. FirstOf(h) = Len(done1) - Len(back1)
    BY <1>2 DEF FirstOf
  <2>2. QED
    BY <1>1, <1>6, <1>7, <2>1
<1>9. Window(h)
  <2>1. /\ Len(back1) <= LookBackSize /\ Len(back1) <= Len(done1)
        /\ Len(Tail(ahead)) <= LookAheadSize
        /\ f.position + 1 = Len(done1) + 1
    BY <1>1, <1>5, <1>6, <1>7, LzssAssumption
  <2>2. QED
    BY <1>2, <1>5, <1>6, <1>7, <1>8, <2>1 DEF Window
<1>10. Bytes(h) = Bytes(f)
  <2> DEFINE u == done \o ahead
             v == done1 \o Tail(ahead)
  <2>1. /\ u \in Seq(Literal) /\ Len(u) = n + Len(ahead)
        /\ \A i \in 1 .. n + Len(ahead) :
             u[i] = IF i <= n THEN done[i] ELSE ahead[i - n]
    BY <1>1, ConcatProperties
  <2>2. /\ v \in Seq(Literal) /\ Len(v) = n + 1 + Len(Tail(ahead))
        /\ \A i \in 1 .. n + 1 + Len(Tail(ahead)) :
             v[i] = IF i <= n + 1 THEN done1[i] ELSE Tail(ahead)[i - (n + 1)]
    <3>1. /\ v \in Seq(Literal) /\ Len(v) = Len(done1) + Len(Tail(ahead))
          /\ \A i \in 1 .. Len(done1) + Len(Tail(ahead)) :
               v[i] = IF i <= Len(done1) THEN done1[i]
                      ELSE Tail(ahead)[i - Len(done1)]
      BY <1>5, <1>6, ConcatProperties
    <3>2. Len(done1) = n + 1
      BY <1>6
    <3> HIDE DEF v
    <3>3. QED
      BY <3>1, <3>2
  <2> HIDE DEF u, v
  <2>3. Len(u) = Len(v)
    BY <1>1, <1>5, <2>1, <2>2
  <2>4. ASSUME NEW i \in 1 .. Len(u)
        PROVE  u[i] = v[i]
    <3>1. CASE i \in 1 .. n
      <4>1. i \in 1 .. n + Len(ahead) /\ i \in 1 .. n + 1 + Len(Tail(ahead))
        BY <2>1, <2>2, <2>3
      <4>2. i <= n /\ i <= n + 1
        BY <1>1a, <3>1
      <4>3. QED
        BY <1>6, <2>1, <2>2, <3>1, <4>1, <4>2
    <3>2. CASE i = n + 1
      <4>0. i \in 1 .. n + 1 + Len(Tail(ahead))
        BY <2>2, <2>3
      <4>1. i - n = 1 /\ ~(i <= n) /\ i <= n + 1
        BY <1>1, <3>2
      <4>2. u[i] = head
        BY <1>1, <1>5, <2>1, <4>1
      <4>3. v[i] = head
        BY <1>6, <2>2, <3>2, <4>0, <4>1
      <4>4. QED
        BY <4>2, <4>3
    <3>3. CASE i > n + 1
      <4>1. /\ ~(i <= n) /\ ~(i <= n + 1) /\ i - (n + 1) \in 1 .. Len(ahead) - 1
            /\ i - (n + 1) + 1 = i - n
        BY <1>1, <2>1, <3>3
      <4>2. u[i] = ahead[i - n]
        BY <2>1, <4>1
      <4>3. v[i] = Tail(ahead)[i - (n + 1)]
        <5>1. i \in 1 .. n + 1 + Len(Tail(ahead))
          BY <2>2, <2>3
        <5>2. QED
          BY <2>2, <4>1, <5>1
      <4>4. QED
        BY <1>5, <4>1, <4>2, <4>3
    <3>4. QED
      BY <1>1, <2>1, <3>1, <3>2, <3>3
  <2>5. u = v
    BY <2>1, <2>2, <2>3, <2>4, SeqEqual
  <2>6. QED
    BY <1>2, <1>4, <2>5 DEF Bytes, u, v
<1>11. back1 # <<>>
  BY <1>7
<1>12. /\ h.look_back = back1 /\ h.taken = done1 /\ h.look_ahead = Tail(ahead)
       /\ h.chain = chain /\ h.starts = starts /\ h.cut_off = cut
  BY <1>2
<1>13. QED
  BY <1>7, <1>8, <1>9, <1>10, <1>11, <1>12, Zenon DEF OneMore, h, g, done1, head, ahead, done, cut

\* The newest byte of the window is indexed.
LEMMA AddStep ==
  ASSUME NEW h, Window(h), h.look_back # <<>>,
         NEW n \in Nat, Len(h.taken) = n + 1, NEW cut,
         IndexedUpTo(h, n, cut),
         h.cut_off = IF Len(h.look_ahead) < 2 THEN cut \cup {n} ELSE cut
  PROVE  /\ Sound(AddPattern(h)) /\ Bytes(AddPattern(h)) = Bytes(h)
         /\ AddPattern(h).taken = h.taken
         /\ AddPattern(h).look_ahead = h.look_ahead
<1> DEFINE k == AddPattern(h)
           first == FirstOf(h)
           m == Len(h.look_back)
           bytes == Bytes(h)
           pattern == <<Last(h.look_back), h.look_ahead[1], h.look_ahead[2]>>
           link == IF pattern \in DOMAIN h.starts
                   THEN h.starts[pattern] ELSE end_of_chain
           more == [p \in DOMAIN h.starts \cup {pattern} |->
                      IF p = pattern THEN n ELSE h.starts[p]]
<1>1. /\ Len(h.look_ahead) \in Nat
      /\ m \in Nat /\ m # 0 /\ m <= LookBackSize /\ LookBackSize \in Nat
      /\ first \in Nat /\ first = n + 1 - m /\ AbsoluteStartOfLookBack(h) = first
      /\ Len(bytes) = n + 1 + Len(h.look_ahead)
  <2>1. h.look_back \in Seq(Literal) /\ m <= LookBackSize
    BY DEF Window
  <2>2. m # 0
    BY <2>1
  <2>3. /\ Len(h.look_ahead) \in Nat /\ m \in Nat /\ first \in Nat
        /\ first = n + 1 - m /\ AbsoluteStartOfLookBack(h) = first
        /\ Len(bytes) = n + 1 + Len(h.look_ahead)
    <3>1. /\ Len(h.look_ahead) \in Nat /\ m \in Nat /\ first \in Nat
          /\ first = Len(h.taken) - m /\ AbsoluteStartOfLookBack(h) = first
          /\ Len(bytes) = Len(h.taken) + Len(h.look_ahead)
      BY BytesOfWindow, Zenon
    <3> HIDE DEF first, m, bytes
    <3>2. QED
      BY <3>1
  <2>4. QED
    BY <2>1, <2>2, <2>3, LzssAssumption
<1>2. Indexed(bytes, first, n, h.chain, h.starts, cut)
  BY DEF IndexedUpTo
<1> HIDE DEF k, first, m, bytes, pattern, link, more
<1>3. /\ Len(h.chain) = m - 1
      /\ \A absolute : ChainWith(h, absolute) = Append(h.chain, absolute)
  <2>1. Len(h.chain) = n - first
    BY <1>2 DEF Indexed, ChainsSound
  <2>2. Len(h.chain) = m - 1 /\ Len(h.chain) # LookBackSize
    BY <1>1, <2>1
  <2>3. QED
    BY <2>2, Zenon DEF ChainWith, Enqueued
<1>4. ASSUME NEW chain, NEW starts,
             k = [h EXCEPT !.chain = chain, !.starts = starts],
             Indexed(bytes, first, n + 1, chain, starts, h.cut_off)
      PROVE  /\ Sound(k) /\ Bytes(k) = Bytes(h) /\ k.taken = h.taken
             /\ k.look_ahead = h.look_ahead
  <2>1. k = [look_back |-> h.look_back, look_ahead |-> h.look_ahead,
             chain |-> chain, starts |-> starts, position |-> h.position,
             taken |-> h.taken, cut_off |-> h.cut_off]
    BY <1>4 DEF Window
  <2>2. /\ k.look_back = h.look_back /\ k.look_ahead = h.look_ahead
        /\ k.taken = h.taken /\ k.position = h.position
        /\ k.cut_off = h.cut_off /\ k.chain = chain /\ k.starts = starts
    BY <2>1
  <2>3. Bytes(k) = Bytes(h) /\ FirstOf(k) = FirstOf(h)
    BY <2>2, Zenon DEF Bytes, FirstOf
  <2>4. Window(k)
    BY <2>1, <2>2, <2>3 DEF Window
  <2>5. QED
    BY <1>4, <2>2, <2>3, <2>4, Zenon DEF Sound, IndexedUpTo, bytes, first
<1>5. CASE Len(h.look_ahead) < 2
  <2>1. k = [h EXCEPT !.chain = Append(h.chain, end_of_chain)]
    <3>1. Len(h.look_ahead) < minimum_back_reference_length - 1
      BY <1>1, <1>5 DEF minimum_back_reference_length
    <3>2. k = [h EXCEPT !.chain = ChainWith(h, end_of_chain)]
      BY <3>1, Zenon DEF AddPattern, k
    <3>3. QED
      BY <1>3, <3>2, Zenon
  <2>2. k = [h EXCEPT !.chain = Append(h.chain, end_of_chain), !.starts = h.starts]
    BY <2>1 DEF Window
  <2>3. n < Len(bytes)
    <3>1. \A i, j \in Nat : i < i + 1 + j
      OBVIOUS
    <3>2. QED
      BY <1>1, <3>1, Zenon
  <2>4. Indexed(bytes, first, n + 1, Append(h.chain, end_of_chain), h.starts,
                h.cut_off)
    BY <1>2, <1>5, <2>3, IndexedCutOff
  <2>5. QED
    BY <1>4, <2>2, <2>4 DEF k
<1>6. CASE ~(Len(h.look_ahead) < 2)
  <2>1. AbsoluteStartOfLookBack(h) + Len(h.look_back) - 1 = n
    BY <1>1 DEF m
  <2>2. k = [h EXCEPT !.chain = Append(h.chain, link), !.starts = more]
    <3>1. /\ ~(Len(h.look_ahead) < minimum_back_reference_length - 1)
          /\ h.look_back # <<>>
      BY <1>1, <1>6 DEF minimum_back_reference_length
    <3>2. k = [h EXCEPT !.chain = ChainWith(h, link),
                        !.starts = StartsWith(h, pattern, n)]
      BY <2>1, <3>1, Zenon DEF AddPattern, k, link, pattern
    <3>3. QED
      BY <1>3, <3>2, Zenon DEF StartsWith, more
  <2>3. HasPattern(bytes, n)
    <3>1. Len(h.look_ahead) >= 2
      BY <1>1, <1>6
    <3>2. n + 1 + Len(h.look_ahead) >= n + 3
      <4>1. \A i, j \in Nat : j >= 2 => i + 1 + j >= i + 3
        OBVIOUS
      <4>2. QED
        BY <1>1, <3>1, <4>1, Zenon
    <3>3. n + 3 <= Len(bytes)
      BY <1>1, <3>2
    <3>4. QED
      BY <3>3, Zenon DEF HasPattern
  <2>4. pattern = PatternOf(bytes, n)
    <3>1. /\ m \in 1 .. Len(h.look_back) /\ first + m = n + 1
          /\ 1 \in 1 .. Len(h.look_ahead) /\ 2 \in 1 .. Len(h.look_ahead)
          /\ n + 1 + 1 = n + 2 /\ n + 1 + 2 = n + 3
      BY <1>1, <1>6 DEF m
    <3>2. /\ \A i \in 1 .. Len(h.look_ahead) :
               bytes[n + 1 + i] = h.look_ahead[i]
          /\ \A i \in 1 .. Len(h.look_back) : h.look_back[i] = bytes[first + i]
      <4>1. /\ \A i \in 1 .. Len(h.look_ahead) :
                 bytes[Len(h.taken) + i] = h.look_ahead[i]
            /\ \A i \in 1 .. Len(h.look_back) : h.look_back[i] = bytes[first + i]
        BY BytesOfWindow, Zenon DEF bytes, first
      <4>2. QED
        BY <4>1
    <3>3. /\ h.look_back[m] = bytes[n + 1]
          /\ h.look_ahead[1] = bytes[n + 2] /\ h.look_ahead[2] = bytes[n + 3]
      BY <3>1, <3>2
    <3>4. QED
      BY <3>3, Zenon DEF PatternOf, pattern, Last, m
  <2>5. Indexed(bytes, first, n + 1, Append(h.chain, link), more, h.cut_off)
    BY <1>2, <1>6, <2>3, <2>4, IndexedAdd DEF link, more
  <2>6. QED
    BY <1>4, <2>2, <2>5 DEF k
<1>7. QED
  BY <1>5, <1>6

\* One call of take_literal_.
LEMMA TakeStep ==
  ASSUME NEW f, Sound(f), f.look_ahead # <<>>
  PROVE  /\ Sound(TakeLiteral_(f)) /\ Bytes(TakeLiteral_(f)) = Bytes(f)
         /\ TakeLiteral_(f).taken = Append(f.taken, Head(f.look_ahead))
         /\ TakeLiteral_(f).look_ahead = Tail(f.look_ahead)
<1> DEFINE g == RemovePattern(f)
           h == Shifted(g)
           n == Len(f.taken)
<1>1. /\ g = [look_back |-> f.look_back, look_ahead |-> f.look_ahead,
              chain |-> g.chain, starts |-> g.starts,
              position |-> f.position, taken |-> f.taken, cut_off |-> f.cut_off]
      /\ Indexed(Bytes(f), Oldest(f), n, g.chain, g.starts, f.cut_off)
  BY RemoveStep, Zenon
<1>2. /\ Window(f) /\ n \in Nat /\ Head(f.look_ahead) \in Literal
      /\ f.taken \in Seq(Literal) /\ f.look_ahead \in Seq(Literal)
      /\ Len(Tail(f.look_ahead)) = Len(f.look_ahead) - 1
      /\ Len(f.look_ahead) \in Nat
  BY HeadTailProperties DEF Sound, Window
<1> HIDE DEF g
<1>3. /\ Window(h) /\ h.look_back # <<>> /\ FirstOf(h) = Oldest(f)
      /\ Bytes(h) = Bytes(f) /\ h.taken = Append(f.taken, Head(f.look_ahead))
      /\ h.look_ahead = Tail(f.look_ahead)
      /\ h.chain = g.chain /\ h.starts = g.starts
      /\ h.cut_off = IF Len(f.look_ahead) < 3 THEN f.cut_off \cup {n} ELSE f.cut_off
  <2>1. g = With(f, g.chain, g.starts)
    BY <1>1, Zenon DEF With
  <2>2. OneMore(Shifted(With(f, g.chain, g.starts)), f, g.chain, g.starts)
    BY <1>2, ShiftStep, Zenon
  <2>3. OneMore(h, f, g.chain, g.starts)
    BY <2>1, <2>2, Zenon
  <2> HIDE DEF h
  <2>4. QED
    BY <2>3, Zenon DEF OneMore
<1> HIDE DEF h
<1>4. Len(h.taken) = n + 1
  BY <1>2, <1>3, AppendProperties
<1>5. Len(f.look_ahead) < 3 <=> Len(h.look_ahead) < 2
  BY <1>2, <1>3
<1>6. h.cut_off = IF Len(h.look_ahead) < 2 THEN f.cut_off \cup {n} ELSE f.cut_off
  BY <1>3, <1>5
<1>7. IndexedUpTo(h, n, f.cut_off)
  BY <1>1, <1>3, Zenon DEF IndexedUpTo
<1> HIDE DEF n
<1>8. /\ Sound(AddPattern(h)) /\ Bytes(AddPattern(h)) = Bytes(h)
      /\ AddPattern(h).taken = h.taken
      /\ AddPattern(h).look_ahead = h.look_ahead
  BY <1>2, <1>3, <1>4, <1>6, <1>7, AddStep
<1>9. QED
  BY <1>3, <1>8, Zenon DEF TakeLiteral_, g, h

\* take_literal_ called n times: the bytes stay, and n of them are taken.
LEMMA TakenExists ==
  ASSUME NEW f, NEW m \in Nat
  PROVE  \E after : after = [i \in 0 .. m |-> IF i = 0 THEN f
                                              ELSE TakeLiteral_(after[i - 1])]
<1> DEFINE S == {n \in Nat :
                   \E after : after = [i \in 0 .. n |-> IF i = 0 THEN f
                                         ELSE TakeLiteral_(after[i - 1])]}
<1>1. 0 \in S
  <2>1. [i \in 0 .. 0 |-> f] = [i \in 0 .. 0 |-> IF i = 0 THEN f
                                  ELSE TakeLiteral_([j \in 0 .. 0 |-> f][i - 1])]
    OBVIOUS
  <2>2. QED
    BY <2>1
<1>2. ASSUME NEW n \in Nat, n \in S
      PROVE  n + 1 \in S
  <2>1. PICK after : after = [i \in 0 .. n |-> IF i = 0 THEN f
                                              ELSE TakeLiteral_(after[i - 1])]
    BY <1>2
  <2> DEFINE longer == [i \in 0 .. n + 1 |-> IF i = 0 THEN f
                                            ELSE TakeLiteral_(after[i - 1])]
             again == [i \in 0 .. n + 1 |-> IF i = 0 THEN f
                                           ELSE TakeLiteral_(longer[i - 1])]
  <2>2. \A i \in 0 .. n : longer[i] = after[i]
    BY <2>1
  <2>3. \A i \in 0 .. n + 1 : i = 0 \/ i - 1 \in 0 .. n
    OBVIOUS
  <2>4. \A i \in 0 .. n + 1 : i = 0 \/ longer[i - 1] = after[i - 1]
    BY <2>2, <2>3
  <2>5. \A i \in 0 .. n + 1 : longer[i] = again[i]
    BY <2>4
  <2>6. longer = [i \in 0 .. n + 1 |-> IF i = 0 THEN f
                                      ELSE TakeLiteral_(longer[i - 1])]
    BY <2>5, Zenon
  <2> HIDE DEF longer
  <2>7. \E g : g = [i \in 0 .. n + 1 |-> IF i = 0 THEN f
                                         ELSE TakeLiteral_(g[i - 1])]
    BY <2>6, Zenon
  <2>8. n + 1 \in Nat
    OBVIOUS
  <2>9. QED
    BY <2>7, <2>8, Zenon
<1>3. m \in S
  <2> HIDE DEF S
  <2>1. QED
    BY <1>1, <1>2, Induct
<1>4. QED
  BY <1>3

LEMMA TakenSteps ==
  ASSUME NEW f, Sound(f), NEW n \in Nat, n <= Len(f.look_ahead)
  PROVE  /\ Sound(Taken(f, n)) /\ Bytes(Taken(f, n)) = Bytes(f)
         /\ Len(Taken(f, n).taken) = Len(f.taken) + n
<1> DEFINE after == CHOOSE g : g = [i \in 0 .. n |-> IF i = 0 THEN f
                                                   ELSE TakeLiteral_(g[i - 1])]
<1>1. after = [i \in 0 .. n |-> IF i = 0 THEN f ELSE TakeLiteral_(after[i - 1])]
  BY TakenExists
<1>2. Taken(f, n) = after[n]
  BY DEF Taken
<1> HIDE DEF after
<1>3. /\ Len(f.taken) \in Nat /\ Len(f.look_ahead) \in Nat /\ Window(f)
  BY BytesOfWindow DEF Sound
<1> DEFINE S == {i \in Nat : i <= n =>
                   /\ Sound(after[i]) /\ Bytes(after[i]) = Bytes(f)
                   /\ Len(after[i].taken) = Len(f.taken) + i
                   /\ Len(after[i].look_ahead) = Len(f.look_ahead) - i}
<1>4. 0 \in S
  BY <1>1, <1>3
<1>5. ASSUME NEW i \in Nat, i \in S
      PROVE  i + 1 \in S
  <2>1. SUFFICES ASSUME i + 1 <= n
                 PROVE  /\ Sound(after[i + 1]) /\ Bytes(after[i + 1]) = Bytes(f)
                        /\ Len(after[i + 1].taken) = Len(f.taken) + (i + 1)
                        /\ Len(after[i + 1].look_ahead) = Len(f.look_ahead) - (i + 1)
    <3>1. i + 1 \in Nat
      OBVIOUS
    <3>2. QED
      BY <3>1, Zenon
  <2> DEFINE g == after[i]
  <2>2. /\ Sound(g) /\ Bytes(g) = Bytes(f)
        /\ Len(g.taken) = Len(f.taken) + i
        /\ Len(g.look_ahead) = Len(f.look_ahead) - i
    BY <1>5, <2>1
  <2>3. after[i + 1] = TakeLiteral_(g)
    <3>1. i + 1 \in 0 .. n /\ i + 1 # 0 /\ i + 1 - 1 = i
      BY <2>1
    <3>2. QED
      BY <1>1, <3>1
  <2> HIDE DEF g
  <2>4. /\ g.taken \in Seq(Literal) /\ g.look_ahead \in Seq(Literal)
    BY <2>2 DEF Sound, Window
  <2>5. g.look_ahead # <<>>
    <3>1. Len(g.look_ahead) # 0
      BY <1>3, <2>1, <2>2
    <3>2. QED
      BY <3>1
  <2>6. /\ Sound(TakeLiteral_(g)) /\ Bytes(TakeLiteral_(g)) = Bytes(g)
        /\ TakeLiteral_(g).taken = Append(g.taken, Head(g.look_ahead))
        /\ TakeLiteral_(g).look_ahead = Tail(g.look_ahead)
    BY <2>2, <2>5, TakeStep
  <2>7. /\ Len(Append(g.taken, Head(g.look_ahead))) = Len(g.taken) + 1
        /\ Len(Tail(g.look_ahead)) = Len(g.look_ahead) - 1
    BY <2>4, <2>5, HeadTailProperties, AppendProperties
  <2>8. /\ Len(f.taken) + i + 1 = Len(f.taken) + (i + 1)
        /\ Len(f.look_ahead) - i - 1 = Len(f.look_ahead) - (i + 1)
    <3>1. \A k \in Nat : k + i + 1 = k + (i + 1) /\ k - i - 1 = k - (i + 1)
      OBVIOUS
    <3>2. QED
      BY <1>3, <3>1, Zenon
  <2>9. QED
    BY <2>2, <2>3, <2>6, <2>7, <2>8, Zenon
<1>6. n \in S
  <2> HIDE DEF S
  <2>1. QED
    BY <1>4, <1>5, Induct
<1>7. QED
  BY <1>2, <1>6

-----------------------------------------------------------------------------
(***************************************************************************)
(* Following the chain.                                                    *)
(***************************************************************************)
\* The positions of the window where a search from a can see its pattern.
Same(bytes, first, n, cut, a) ==
  {b \in first .. n - 1 : /\ b \notin cut /\ b # end_of_chain /\ b <= a
                          /\ PatternOf(bytes, b) = PatternOf(bytes, a)}

\* s leads from a down through all of T.
Descends(s, T, a) ==
  /\ s \in Seq(Nat) /\ Len(s) >= 1 /\ s[1] = a
  /\ ToSet(s) = T
  /\ \A i \in 1 .. Len(s) - 1 : s[i + 1] < s[i]

\* from leads from each live position over its links.
Walk(from, N, Live, link) ==
  from = [a \in 0 .. N |-> IF a \notin Live THEN <<>> ELSE <<a>> \o from[link[a]]]

LEMMA WalkExists ==
  ASSUME NEW N \in Nat, NEW Live, NEW link,
         \A a \in 0 .. N : a \in Live => link[a] \in 0 .. a - 1
  PROVE  \E from : Walk(from, N, Live, link)
<1> DEFINE S == {n \in Nat : n <= N =>
                   \E from : from = [a \in 0 .. n |-> IF a \notin Live THEN <<>>
                                                     ELSE <<a>> \o from[link[a]]]}
<1>1. 0 \in S
  <2>1. \A a \in 0 .. 0 : a \notin Live
    OBVIOUS
  <2> DEFINE empty == [a \in 0 .. 0 |-> <<>>]
  <2>2. empty = [a \in 0 .. 0 |-> IF a \notin Live THEN <<>>
                                  ELSE <<a>> \o empty[link[a]]]
    BY <2>1, Zenon
  <2> HIDE DEF empty
  <2>3. \E from : from = [a \in 0 .. 0 |-> IF a \notin Live THEN <<>>
                                           ELSE <<a>> \o from[link[a]]]
    BY <2>2, Zenon
  <2>4. QED
    BY <2>3, Zenon
<1>2. ASSUME NEW n \in Nat, n \in S
      PROVE  n + 1 \in S
  <2>1. CASE ~(n + 1 <= N)
    BY <2>1
  <2>2. CASE n + 1 <= N
    <3>1. n <= N /\ n + 1 \in Nat
      BY <2>2
    <3>2. PICK from : from = [a \in 0 .. n |-> IF a \notin Live THEN <<>>
                                              ELSE <<a>> \o from[link[a]]]
      BY <1>2, <3>1, Zenon
    <3> DEFINE longer == [a \in 0 .. n + 1 |-> IF a \notin Live THEN <<>>
                                              ELSE <<a>> \o from[link[a]]]
    <3>3. \A a \in 0 .. n : longer[a] = from[a]
      <4>1. \A a \in 0 .. n : a \in 0 .. n + 1
        OBVIOUS
      <4>2. \A a \in 0 .. n : from[a] = IF a \notin Live THEN <<>>
                                       ELSE <<a>> \o from[link[a]]
        BY <3>2, Zenon
      <4>3. \A a \in 0 .. n : longer[a] = IF a \notin Live THEN <<>>
                                         ELSE <<a>> \o from[link[a]]
        BY <4>1, Zenon
      <4>4. QED
        BY <4>2, <4>3, Zenon
    <3>4. \A a \in 0 .. n + 1 : a \in Live => link[a] \in 0 .. n
      BY <2>2
    <3>5. \A a \in 0 .. n + 1 : a \in Live => longer[link[a]] = from[link[a]]
      BY <3>3, <3>4, Zenon
    <3>6. longer = [a \in 0 .. n + 1 |-> IF a \notin Live THEN <<>>
                                        ELSE <<a>> \o longer[link[a]]]
      BY <3>5, Zenon
    <3> HIDE DEF longer
    <3>7. \E g : g = [a \in 0 .. n + 1 |-> IF a \notin Live THEN <<>>
                                          ELSE <<a>> \o g[link[a]]]
      BY <3>6, Zenon
    <3>8. QED
      BY <3>1, <3>7, Zenon
  <2>3. QED
    BY <2>1, <2>2
<1>3. N \in S
  <2> HIDE DEF S
  <2>1. QED
    BY <1>1, <1>2, Induct
<1>4. N <= N
  OBVIOUS
<1>5. QED
  BY <1>3, <1>4, Zenon DEF Walk

\* A position put before a sequence of positions.
LEMMA Pushed ==
  ASSUME NEW a \in Nat, NEW t \in Seq(Nat)
  PROVE  LET u == <<a>> \o t IN
         /\ u \in Seq(Nat) /\ Len(u) = Len(t) + 1 /\ u[1] = a
         /\ \A i \in 1 .. Len(t) : u[i + 1] = t[i]
         /\ ToSet(u) = {a} \cup ToSet(t)
<1> DEFINE u == <<a>> \o t
           one == <<a>>
<1>1. one \in Seq(Nat) /\ Len(one) = 1 /\ one[1] = a
  OBVIOUS
<1>2. Len(t) \in Nat /\ DOMAIN t = 1 .. Len(t)
  OBVIOUS
<1> HIDE DEF one
<1>3. /\ u \in Seq(Nat) /\ Len(u) = 1 + Len(t)
      /\ \A i \in 1 .. 1 + Len(t) : u[i] = IF i <= 1 THEN one[i] ELSE t[i - 1]
  <2>1. u = one \o t
    BY DEF one
  <2> HIDE DEF u
  <2>2. /\ u \in Seq(Nat) /\ Len(u) = Len(one) + Len(t)
        /\ \A i \in 1 .. Len(one) + Len(t) :
             u[i] = IF i <= Len(one) THEN one[i] ELSE t[i - Len(one)]
    BY <1>1, <2>1, ConcatProperties
  <2>3. QED
    BY <1>1, <2>2
<1>4. DOMAIN u = 1 .. 1 + Len(t)
  BY <1>3
<1> HIDE DEF u
<1>5. u[1] = a
  BY <1>1, <1>2, <1>3
<1>6. \A i \in 1 .. Len(t) : u[i + 1] = t[i]
  <2>1. SUFFICES ASSUME NEW i \in 1 .. Len(t)
                 PROVE  u[i + 1] = t[i]
    OBVIOUS
  <2>2. i + 1 \in 1 .. 1 + Len(t) /\ ~(i + 1 <= 1) /\ i + 1 - 1 = i
    BY <1>2
  <2>3. QED
    BY <1>3, <2>2
<1>7. ToSet(u) = {a} \cup ToSet(t)
  <2>1. ASSUME NEW x \in ToSet(u)
        PROVE  x \in {a} \cup ToSet(t)
    <3>1. PICK i \in 1 .. 1 + Len(t) : x = u[i]
      BY <1>4 DEF ToSet
    <3>2. CASE i = 1
      BY <1>5, <3>1, <3>2
    <3>3. CASE i # 1
      <4>1. i - 1 \in 1 .. Len(t) /\ i - 1 + 1 = i
        BY <1>2, <3>3
      <4>2. x = t[i - 1]
        BY <1>6, <3>1, <4>1
      <4>3. QED
        BY <1>2, <4>1, <4>2 DEF ToSet
    <3>4. QED
      BY <3>2, <3>3
  <2>2. a \in ToSet(u)
    <3>1. 1 \in 1 .. 1 + Len(t)
      BY <1>2
    <3>2. QED
      BY <1>4, <1>5, <3>1 DEF ToSet
  <2>3. ASSUME NEW x \in ToSet(t)
        PROVE  x \in ToSet(u)
    <3>1. PICK i \in 1 .. Len(t) : x = t[i]
      BY <1>2 DEF ToSet
    <3>2. i + 1 \in 1 .. 1 + Len(t) /\ x = u[i + 1]
      BY <1>2, <1>6, <3>1
    <3>3. QED
      BY <1>4, <3>2 DEF ToSet
  <2>4. QED
    BY <2>1, <2>2, <2>3
<1>8. Len(u) = Len(t) + 1
  BY <1>2, <1>3
<1>9. QED
  BY <1>3, <1>5, <1>6, <1>7, <1>8 DEF u

\* From a live position the chain leads through all there are of its pattern.
LEMMA WalkReaches ==
  ASSUME NEW bytes, NEW first, NEW n, NEW chain, NEW starts, NEW cut,
         Indexed(bytes, first, n, chain, starts, cut), NEW from,
         from = [a \in 0 .. n - 1 |->
                   IF ~(a # end_of_chain /\ a >= first) THEN <<>>
                   ELSE <<a>> \o from[Link(chain, first, a)]]
  PROVE  \A a \in first .. n - 1 : a \notin cut /\ a # end_of_chain =>
           Descends(from[a], Same(bytes, first, n, cut, a), a)
<1> DEFINE same(a) == Same(bytes, first, n, cut, a)
           S == {a \in Nat : a \in first .. n - 1 /\ a \notin cut /\ a # end_of_chain
                               => Descends(from[a], same(a), a)}
<1>1. /\ first \in Nat /\ n \in Nat
      /\ \A a \in first .. n - 1 : a \in Nat /\ a \in 0 .. n - 1 /\ a >= first
  BY DEF Indexed, Bounds
<1>2. ASSUME NEW a \in Nat, \A b \in 0 .. a - 1 : b \in S
      PROVE  a \in S
  <2>1. SUFFICES ASSUME a \in first .. n - 1, a \notin cut, a # end_of_chain
                 PROVE  Descends(from[a], same(a), a)
    BY Zenon
  <2> DEFINE link == Link(chain, first, a)
  <2>2. from[a] = <<a>> \o from[link]
    BY <1>1, <2>1, Zenon
  <2>3. /\ link \in Nat /\ (link = end_of_chain \/ link < a)
        /\ link # end_of_chain /\ link >= first =>
             link \notin cut /\ PatternOf(bytes, link) = PatternOf(bytes, a)
    <3>1. chain \in Seq(Nat) /\ a - first + 1 \in 1 .. Len(chain)
      BY <1>1, <2>1 DEF Indexed, ChainsSound
    <3>2. link \in Nat
      BY <3>1 DEF Link
    <3>3. QED
      BY <2>1, <3>2, Zenon DEF Indexed, ChainsSound
  <2>4. \A b \in first .. n - 1 :
          b \notin cut /\ b < a /\ PatternOf(bytes, b) = PatternOf(bytes, a)
            => link >= b
    BY <2>1, Zenon DEF Indexed, Complete
  <2> HIDE DEF link
  <2>5. a \in same(a)
    BY <1>1, <2>1 DEF Same
  <2>6. CASE ~(link # end_of_chain /\ link >= first)
    <3>1. link \in 0 .. n - 1
      BY <1>1, <2>1, <2>3 DEF end_of_chain
    <3>2. from[link] = <<>>
      BY <2>6, <3>1, Zenon
    <3>3. ASSUME NEW b \in same(a)
          PROVE  b = a
      <4>1. /\ b \in first .. n - 1 /\ b \notin cut /\ b # end_of_chain /\ b <= a
            /\ PatternOf(bytes, b) = PatternOf(bytes, a) /\ b \in Nat /\ b >= first
        BY <1>1 DEF Same
      <4>2. CASE b < a
        <5>1. link >= b
          BY <2>4, <4>1, <4>2
        <5>2. QED
          BY <1>1, <2>3, <2>6, <4>1, <5>1 DEF end_of_chain
      <4>3. QED
        BY <4>1, <4>2
    <3>4. same(a) = {a}
      BY <2>5, <3>3, Zenon
    <3>5. /\ <<a>> \o <<>> = <<a>> /\ <<a>> \in Seq(Nat) /\ Len(<<a>>) = 1
          /\ <<a>>[1] = a
      BY ConcatEmptySeq
    <3>6. ToSet(<<a>>) = {a}
      BY DEF ToSet
    <3>7. \A i \in 1 .. Len(<<a>>) - 1 : <<a>>[i + 1] < <<a>>[i]
      BY <3>5
    <3>8. Descends(<<a>>, {a}, a)
      BY <3>5, <3>6, <3>7 DEF Descends
    <3>9. QED
      BY <2>2, <3>2, <3>4, <3>5, <3>8, Zenon
  <2>7. CASE link # end_of_chain /\ link >= first
    <3> DEFINE t == from[link]
               u == <<a>> \o t
    <3>1. /\ link < a /\ link \in first .. n - 1 /\ link \notin cut
          /\ PatternOf(bytes, link) = PatternOf(bytes, a) /\ link \in 0 .. a - 1
      BY <1>1, <2>1, <2>3, <2>7
    <3>2. Descends(t, same(link), link)
      BY <1>2, <2>7, <3>1, Zenon
    <3> HIDE DEF t
    <3>3. /\ t \in Seq(Nat) /\ Len(t) \in Nat /\ Len(t) >= 1 /\ t[1] = link
          /\ ToSet(t) = same(link)
          /\ \A i \in 1 .. Len(t) - 1 : t[i + 1] < t[i]
      BY <3>2 DEF Descends
    <3>4. /\ u \in Seq(Nat) /\ Len(u) = Len(t) + 1 /\ u[1] = a
          /\ \A i \in 1 .. Len(t) : u[i + 1] = t[i]
          /\ ToSet(u) = {a} \cup ToSet(t)
      BY <3>3, Pushed, Zenon
    <3> HIDE DEF u
    <3>5. ASSUME NEW i \in 1 .. Len(u) - 1
          PROVE  u[i + 1] < u[i]
      <4>1. CASE i = 1
        BY <3>1, <3>3, <3>4, <4>1
      <4>2. CASE i # 1
        <5>1. /\ i \in 1 .. Len(t) /\ i - 1 \in 1 .. Len(t) - 1 /\ i - 1 \in 1 .. Len(t)
              /\ i - 1 + 1 = i
          BY <3>3, <3>4, <4>2
        <5>2. u[i + 1] = t[i] /\ u[i] = t[i - 1]
          BY <3>4, <5>1
        <5>3. t[i] < t[i - 1]
          BY <3>3, <5>1
        <5>4. QED
          BY <5>2, <5>3
      <4>3. QED
        BY <4>1, <4>2
    <3>6. ASSUME NEW b \in same(a), b # a
          PROVE  b \in same(link)
      <4>1. /\ b \in first .. n - 1 /\ b \notin cut /\ b # end_of_chain /\ b <= a
            /\ PatternOf(bytes, b) = PatternOf(bytes, a) /\ b \in Nat /\ b >= first
        BY <1>1 DEF Same
      <4>2. b <= link
        BY <2>3, <2>4, <3>6, <4>1
      <4>3. QED
        BY <3>1, <4>1, <4>2 DEF Same
    <3>7. ASSUME NEW b \in same(link)
          PROVE  b \in same(a)
      <4>1. /\ b \in first .. n - 1 /\ b \notin cut /\ b # end_of_chain /\ b <= link
            /\ PatternOf(bytes, b) = PatternOf(bytes, link) /\ b \in Nat
        BY <1>1 DEF Same
      <4>2. b <= a
        BY <2>3, <3>1, <4>1
      <4>3. QED
        BY <3>1, <4>1, <4>2 DEF Same
    <3>8. same(a) = {a} \cup same(link)
      BY <2>5, <3>6, <3>7, Zenon
    <3>9. Len(u) >= 1
      BY <3>3, <3>4
    <3>10. Descends(u, same(a), a)
      BY <3>3, <3>4, <3>5, <3>8, <3>9, Zenon DEF Descends
    <3>11. QED
      BY <2>2, <3>10, Zenon DEF u, t
  <2>8. QED
    BY <2>6, <2>7
<1>3. \A a \in Nat : a \in S
  <2> HIDE DEF S
  <2>1. QED
    BY <1>2, InductFromSmaller
<1>4. QED
  BY <1>1, <1>3, Zenon

\* The same of the chain and the hash map of the finder.
LEMMA OccurrencesReach ==
  ASSUME Sound(Finder),
         NEW a \in FirstOf(Finder) .. Len(taken) - 1, a \notin cut_off
  PROVE  /\ a = end_of_chain => Occurrences(a) = <<>>
         /\ a # end_of_chain =>
              Descends(Occurrences(a),
                       Same(Bytes(Finder), FirstOf(Finder), Len(taken), cut_off, a), a)
<1> DEFINE first == FirstOf(Finder)
           n == Len(taken)
           from == CHOOSE g : g = [b \in 0 .. absolute_position_ - 2 |->
                                     IF ~IsAbsoluteInLookback(Finder, b) THEN <<>>
                                     ELSE <<b>> \o
                                       g[chain_[AbsoluteToRelative(Finder, b) + 1]]]
           Live == {b \in 0 .. n - 1 : IsAbsoluteInLookback(Finder, b)}
           link == [b \in 0 .. n - 1 |-> chain_[AbsoluteToRelative(Finder, b) + 1]]
<1>1. /\ Finder.taken = taken /\ Finder.chain = chain_ /\ Finder.cut_off = cut_off
      /\ Finder.starts = start_absolute_by_length_three_pattern_
      /\ Finder.position = absolute_position_
  BY DEF Finder
<1>2. Window(Finder)
  BY DEF Sound
<1>3. /\ first \in Nat /\ n \in Nat /\ AbsoluteStartOfLookBack(Finder) = first
      /\ absolute_position_ = n + 1
  BY <1>1, <1>2, BytesOfWindow DEF Window
<1>4. Indexed(Bytes(Finder), first, n, chain_,
              start_absolute_by_length_three_pattern_, cut_off)
  BY <1>1, Zenon DEF Sound, IndexedUpTo
<1>5. \A b \in first .. n - 1 : AbsoluteToRelative(Finder, b) = b - first
  BY <1>1, <1>2, RelativeOfWindow
<1>6. Occurrences(a) = from[a]
  BY DEF Occurrences
<1> HIDE DEF first, n, Finder
<1>7. /\ n - 1 \in Nat /\ absolute_position_ - 2 = n - 1 /\ a \in 0 .. n - 1
      /\ a \in first .. n - 1
  BY <1>3 DEF first, n
<1>8. \A b \in 0 .. n - 1 : b \in Live <=> b # end_of_chain /\ b >= first
  BY <1>3, Zenon DEF IsAbsoluteInLookback
<1>9. \A b \in Live : /\ b \in first .. n - 1 /\ b \in 0 .. n - 1
                      /\ link[b] = Link(chain_, first, b)
                      /\ link[b] \in 0 .. b - 1
  <2>1. SUFFICES ASSUME NEW b \in Live
                 PROVE  /\ b \in first .. n - 1 /\ b \in 0 .. n - 1
                        /\ link[b] = Link(chain_, first, b)
                        /\ link[b] \in 0 .. b - 1
    BY Zenon
  <2>2. b \in 0 .. n - 1 /\ b # end_of_chain /\ b >= first
    BY <1>8
  <2>3. b \in first .. n - 1 /\ b \in Nat /\ b # 0
    BY <1>3, <2>2 DEF end_of_chain
  <2>4. link[b] = Link(chain_, first, b)
    BY <1>5, <2>2, <2>3 DEF Link
  <2>5. chain_ \in Seq(Nat) /\ b - first + 1 \in 1 .. Len(chain_)
    BY <1>3, <1>4, <2>3 DEF Indexed, ChainsSound
  <2>6. Link(chain_, first, b) \in Nat
    BY <2>5 DEF Link
  <2>7. Link(chain_, first, b) = 0 \/ Link(chain_, first, b) < b
    BY <1>4, <2>3, Zenon DEF Indexed, ChainsSound, end_of_chain
  <2>8. Link(chain_, first, b) \in 0 .. b - 1
    BY <2>3, <2>6, <2>7
  <2>9. QED
    BY <2>2, <2>3, <2>4, <2>8, Zenon
<1> HIDE DEF Live
<1>10. \E g : g = [b \in 0 .. n - 1 |-> IF b \notin Live THEN <<>>
                                        ELSE <<b>> \o g[link[b]]]
  <2> DEFINE N == n - 1
  <2> HIDE DEF link, N
  <2>1. N \in Nat /\ \A b \in 0 .. N : b \in Live => link[b] \in 0 .. b - 1
    BY <1>7, <1>9, Zenon DEF N
  <2>2. \E g : Walk(g, N, Live, link)
    BY <2>1, WalkExists
  <2>3. QED
    BY <2>2, Zenon DEF Walk, N
<1>11. \A g : g = [b \in 0 .. n - 1 |-> IF b \notin Live THEN <<>>
                                        ELSE <<b>> \o g[link[b]]]
              <=> g = [b \in 0 .. absolute_position_ - 2 |->
                         IF ~IsAbsoluteInLookback(Finder, b) THEN <<>>
                         ELSE <<b>> \o g[chain_[AbsoluteToRelative(Finder, b) + 1]]]
  <2>1. SUFFICES ASSUME NEW g
                 PROVE  [b \in 0 .. n - 1 |-> IF b \notin Live THEN <<>>
                                              ELSE <<b>> \o g[link[b]]]
                        = [b \in 0 .. n - 1 |->
                             IF ~IsAbsoluteInLookback(Finder, b) THEN <<>>
                             ELSE <<b>> \o g[chain_[AbsoluteToRelative(Finder, b) + 1]]]
    BY <1>7, Zenon
  <2>2. \A b \in 0 .. n - 1 :
          /\ link[b] = chain_[AbsoluteToRelative(Finder, b) + 1]
          /\ b \in Live <=> IsAbsoluteInLookback(Finder, b)
    BY Zenon DEF Live
  <2> HIDE DEF link
  <2>3. QED
    BY <2>2, Zenon
<1>12. from = [b \in 0 .. n - 1 |-> IF b \notin Live THEN <<>>
                                    ELSE <<b>> \o from[link[b]]]
  <2> HIDE DEF link
  <2>1. \E g : g = [b \in 0 .. absolute_position_ - 2 |->
                      IF ~IsAbsoluteInLookback(Finder, b) THEN <<>>
                      ELSE <<b>> \o g[chain_[AbsoluteToRelative(Finder, b) + 1]]]
    BY <1>10, <1>11, Zenon
  <2>2. from = [b \in 0 .. absolute_position_ - 2 |->
                  IF ~IsAbsoluteInLookback(Finder, b) THEN <<>>
                  ELSE <<b>> \o from[chain_[AbsoluteToRelative(Finder, b) + 1]]]
    BY <2>1, Zenon
  <2> HIDE DEF from
  <2>3. QED
    BY <1>11, <2>2, Zenon
<1> HIDE DEF from, link
<1>13. from = [b \in 0 .. n - 1 |-> IF ~(b # end_of_chain /\ b >= first) THEN <<>>
                                    ELSE <<b>> \o from[Link(chain_, first, b)]]
  <2>1. \A b \in 0 .. n - 1 :
          (IF b \notin Live THEN <<>> ELSE <<b>> \o from[link[b]])
            = (IF ~(b # end_of_chain /\ b >= first) THEN <<>>
               ELSE <<b>> \o from[Link(chain_, first, b)])
    BY <1>8, <1>9, Zenon
  <2>2. QED
    BY <1>12, <2>1, Zenon
<1>14. \A b \in first .. n - 1 : b \notin cut_off /\ b # end_of_chain =>
          Descends(from[b], Same(Bytes(Finder), first, n, cut_off, b), b)
  BY <1>4, <1>13, WalkReaches
<1>15. ASSUME a = end_of_chain
       PROVE  from[a] = <<>>
  BY <1>7, <1>13, <1>15, Zenon
<1>16. QED
  BY <1>6, <1>7, <1>14, <1>15, Zenon DEF first, n

-----------------------------------------------------------------------------
(***************************************************************************)
(* Matches: s is what was taken, t what waits.                             *)
(***************************************************************************)
\* Repeating s from position a on gives byte i of t.
Agrees(s, t, a, i) == s[a + 1 + (i % (Len(s) - a))] = t[i + 1]

LEMMA Remainder ==
  ASSUME NEW i \in Nat, NEW d \in Nat \ {0}
  PROVE  i % d \in 0 .. d - 1 /\ (i < d => i % d = i)
  BY SMT

\* An occurrence of the first three bytes agrees in them, although it may
\* itself run on from s into t.
LEMMA SamePattern ==
  ASSUME NEW s \in Seq(Literal), NEW t \in Seq(Literal), Len(t) >= 3,
         NEW a \in Nat, a < Len(s)
  PROVE  PatternOf(s \o t, a) = <<t[1], t[2], t[3]>>
           <=> \A i \in 0 .. 2 : Agrees(s, t, a, i)
<1> DEFINE m == Len(s)
           k == Len(t)
           b == s \o t
           d == m - a
<1>1. m \in Nat /\ k \in Nat /\ d \in Nat /\ d # 0 /\ k >= 3 /\ a < m
  OBVIOUS
<1>2. \A i \in 1 .. m + k : /\ i <= m => b[i] = s[i]
                            /\ ~(i <= m) => b[i] = t[i - m]
  BY ConcatProperties
<1> HIDE DEF b, m, k
<1>3. \A i \in 0 .. 2 : Agrees(s, t, a, i) <=> s[a + 1 + (i % d)] = t[i + 1]
  BY Zenon DEF Agrees, d, m
<1>4. (\A i \in 0 .. 2 : Agrees(s, t, a, i))
        <=> /\ s[a + 1 + (0 % d)] = t[1] /\ s[a + 1 + (1 % d)] = t[2]
            /\ s[a + 1 + (2 % d)] = t[3]
  <2>1. 0 \in 0 .. 2 /\ 1 \in 0 .. 2 /\ 2 \in 0 .. 2 /\ 0 + 1 = 1 /\ 1 + 1 = 2
        /\ 2 + 1 = 3 /\ \A i \in 0 .. 2 : i = 0 \/ i = 1 \/ i = 2
    OBVIOUS
  <2> HIDE DEF d
  <2>2. QED
    BY <1>3, <2>1, Zenon
<1>5. PatternOf(b, a) = <<t[1], t[2], t[3]>>
        <=> b[a + 1] = t[1] /\ b[a + 2] = t[2] /\ b[a + 3] = t[3]
  BY DEF PatternOf
<1>6. b[a + 1] = s[a + 1] /\ 0 % d = 0 /\ a + 1 + 0 = a + 1
  <2>1. a + 1 \in 1 .. m + k /\ a + 1 <= m
    BY <1>1
  <2>2. 0 % d = 0
    BY <1>1, Remainder
  <2>3. QED
    BY <1>2, <2>1, <2>2
<1>7. CASE d = 1
  <2>1. 1 % d = 0 /\ 2 % d = 0
    <3>1. 1 % 1 = 0 /\ 2 % 1 = 0
      BY SMT
    <3>2. QED
      BY <1>7, <3>1, Zenon
  <2>2. /\ a + 2 \in 1 .. m + k /\ ~(a + 2 <= m) /\ (a + 2) - m = 1
        /\ a + 3 \in 1 .. m + k /\ ~(a + 3 <= m) /\ (a + 3) - m = 2
    BY <1>1, <1>7
  <2>3. b[a + 2] = t[1] /\ b[a + 3] = t[2]
    <3>1. b[a + 2] = t[(a + 2) - m] /\ b[a + 3] = t[(a + 3) - m]
      BY <1>2, <2>2, Zenon
    <3>2. QED
      BY <2>2, <3>1, Zenon
  <2> HIDE DEF d
  <2>4. QED
    BY <1>4, <1>5, <1>6, <2>1, <2>3, Zenon DEF b
<1>8. CASE d = 2
  <2>1. 1 % d = 1 /\ 2 % d = 0 /\ a + 1 + 1 = a + 2
    <3>1. 1 % 2 = 1 /\ 2 % 2 = 0
      BY SMT
    <3>2. QED
      BY <1>8, <3>1
  <2>2. /\ a + 2 \in 1 .. m + k /\ a + 2 <= m
        /\ a + 3 \in 1 .. m + k /\ ~(a + 3 <= m) /\ (a + 3) - m = 1
    BY <1>1, <1>8
  <2>3. b[a + 2] = s[a + 2] /\ b[a + 3] = t[1]
    <3>1. b[a + 2] = s[a + 2] /\ b[a + 3] = t[(a + 3) - m]
      BY <1>2, <2>2, Zenon
    <3>2. QED
      BY <2>2, <3>1, Zenon
  <2> HIDE DEF d
  <2>4. QED
    BY <1>4, <1>5, <1>6, <2>1, <2>3, Zenon DEF b
<1>9. CASE d > 2
  <2>1. 1 % d = 1 /\ 2 % d = 2 /\ a + 1 + 1 = a + 2 /\ a + 1 + 2 = a + 3
    <3>1. 1 \in Nat /\ 2 \in Nat /\ d \in Nat \ {0} /\ 1 < d /\ 2 < d
      BY <1>1, <1>9
    <3>2. 1 % d = 1 /\ 2 % d = 2
      BY <3>1, Remainder
    <3>3. a + 1 + 1 = a + 2 /\ a + 1 + 2 = a + 3
      OBVIOUS
    <3>4. QED
      BY <3>2, <3>3, Zenon
  <2>2. /\ a + 2 \in 1 .. m + k /\ a + 2 <= m
        /\ a + 3 \in 1 .. m + k /\ a + 3 <= m
    BY <1>1, <1>9
  <2>3. b[a + 2] = s[a + 2] /\ b[a + 3] = s[a + 3]
    BY <1>2, <2>2
  <2> HIDE DEF d
  <2>4. QED
    BY <1>4, <1>5, <1>6, <2>1, <2>3, Zenon DEF b
<1>10. QED
  BY <1>1, <1>7, <1>8, <1>9

\* A reference that reaches back to a stands for the next n bytes if they agree.
LEMMA RepeatedAgrees ==
  ASSUME taken \in Seq(Literal), look_ahead_ \in Seq(Literal),
         NEW a \in Nat, a < Len(taken), NEW n \in 0 .. Len(look_ahead_)
  PROVE  /\ Repeated(Len(taken) - a, n) = SubSeq(look_ahead_, 1, n)
              <=> \A i \in 0 .. n - 1 : Agrees(taken, look_ahead_, a, i)
         /\ Repeated(Len(taken) - a, n) \in Seq(Literal)
         /\ Len(Repeated(Len(taken) - a, n)) = n
<1> DEFINE s == taken
           t == look_ahead_
           m == Len(s)
           d == m - a
           r == Repeated(d, n)
           q == SubSeq(t, 1, n)
<1>1. m \in Nat /\ d \in Nat \ {0} /\ m - d = a /\ n \in Nat
  OBVIOUS
<1>2. \A i \in Nat : a + 1 + (i % d) \in 1 .. m /\ i % d \in Nat
  <2>1. SUFFICES ASSUME NEW i \in Nat
                 PROVE  a + 1 + (i % d) \in 1 .. m /\ i % d \in Nat
    OBVIOUS
  <2> HIDE DEF m, d
  <2>2. i % d \in 0 .. d - 1
    BY <1>1, Remainder
  <2>3. \A e \in 0 .. d - 1 : a + 1 + e \in 1 .. m /\ e \in Nat
    BY <1>1
  <2>4. QED
    BY <2>2, <2>3, Zenon
<1> HIDE DEF m, d, r, q
<1>3. r = [j \in 1 .. n |-> s[m - d + 1 + ((j - 1) % d)]]
  BY Zenon DEF r, Repeated, m
<1>4. \A j \in 1 .. n : r[j] = s[a + 1 + ((j - 1) % d)]
  BY <1>1, <1>3
<1>5. \A j \in 1 .. n : r[j] \in Literal
  <2>1. SUFFICES ASSUME NEW j \in 1 .. n
                 PROVE  r[j] \in Literal
    OBVIOUS
  <2>2. a + 1 + ((j - 1) % d) \in 1 .. m
    <3>1. j - 1 \in Nat
      BY <1>1
    <3>2. QED
      BY <1>2, <3>1, Zenon
  <2>3. QED
    BY <1>4, <2>2, ElementOfSeq DEF m
<1>6. r \in Seq(Literal) /\ Len(r) = n
  <2>1. r \in [1 .. n -> Literal]
    BY <1>3, <1>5
  <2>2. QED
    BY <1>1, <2>1
<1>7. q \in Seq(Literal) /\ Len(q) = n /\ \A j \in 1 .. n : q[j] = t[j]
  BY <1>1 DEF q
<1>8. r = q <=> \A j \in 1 .. n : r[j] = q[j]
  BY <1>6, <1>7, SeqEqual
<1>9. ASSUME NEW i \in 0 .. n - 1
      PROVE  Agrees(s, t, a, i) <=> r[i + 1] = q[i + 1]
  <2>1. i + 1 \in 1 .. n /\ i + 1 - 1 = i
    BY <1>1
  <2>2. r[i + 1] = s[a + 1 + (i % d)] /\ q[i + 1] = t[i + 1]
    BY <1>4, <1>7, <2>1
  <2>3. QED
    BY <2>2, Zenon DEF Agrees, m, d
<1>10. \A j \in 1 .. n : j - 1 \in 0 .. n - 1 /\ j - 1 + 1 = j
  BY <1>1
<1>11. \A i \in 0 .. n - 1 : i + 1 \in 1 .. n
  BY <1>1
<1>12. (\A j \in 1 .. n : r[j] = q[j]) <=> \A i \in 0 .. n - 1 : Agrees(s, t, a, i)
  <2>1. ASSUME \A j \in 1 .. n : r[j] = q[j], NEW i \in 0 .. n - 1
        PROVE  Agrees(s, t, a, i)
    BY <1>9, <1>11, <2>1, Zenon
  <2>2. ASSUME \A i \in 0 .. n - 1 : Agrees(s, t, a, i), NEW j \in 1 .. n
        PROVE  r[j] = q[j]
    <3>1. r[j - 1 + 1] = q[j - 1 + 1]
      BY <1>9, <1>10, <2>2, Zenon
    <3>2. QED
      BY <1>10, <3>1, Zenon
  <2>3. QED
    BY <2>1, <2>2, Zenon
<1>13. QED
  BY <1>6, <1>8, <1>12, Zenon DEF r, q, d, m

\* The three bytes that are looked for.
Wanted == <<look_ahead_[1], look_ahead_[2], look_ahead_[3]>>

\* MatchLength is how far an occurrence of the pattern agrees.
LEMMA MatchLengthAgrees ==
  ASSUME Sound(Finder), NEW a \in FirstOf(Finder) .. Len(taken) - 1,
         Len(look_ahead_) >= 3, PatternOf(Bytes(Finder), a) = Wanted
  PROVE  /\ MatchLength(a) \in 3 .. Len(look_ahead_)
         /\ \A n \in 3 .. Len(look_ahead_) :
              n <= MatchLength(a)
                <=> \A i \in 0 .. n - 1 : Agrees(taken, look_ahead_, a, i)
<1> DEFINE first == FirstOf(Finder)
           m == Len(taken)
           k == Len(look_ahead_)
           w == Len(look_back_)
           d == m - a
           start == AbsoluteToRelative(Finder, a)
           distance == Len(look_back_) - start
           current(i) == IF distance < Len(look_ahead_)
                         THEN start + (i % distance) ELSE start + i
           lengths == {n \in minimum_back_reference_length .. Len(look_ahead_) :
                         \A i \in minimum_back_reference_length .. n - 1 :
                           look_back_[current(i) + 1] = look_ahead_[i + 1]}
           agree(i) == Agrees(taken, look_ahead_, a, i)
<1>1. /\ Finder.taken = taken /\ Finder.look_ahead = look_ahead_
      /\ Finder.look_back = look_back_
  BY DEF Finder
<1>2. Window(Finder)
  BY DEF Sound
<1>3. /\ m \in Nat /\ k \in Nat /\ w \in Nat /\ first \in Nat /\ first = m - w
      /\ taken \in Seq(Literal) /\ look_ahead_ \in Seq(Literal)
      /\ \A j \in 1 .. w : look_back_[j] = taken[first + j]
  BY <1>1, <1>2, BytesOfWindow DEF Window
<1>4. start = a - first /\ start \in 0 .. w - 1
  BY <1>1, <1>2, RelativeOfWindow
<1>5. MatchLength(a) = CHOOSE n \in lengths : \A l \in lengths : l <= n
  BY Zenon DEF MatchLength
<1>6. Bytes(Finder) = taken \o look_ahead_
  BY <1>1, Zenon DEF Bytes
<1>7. a \in Nat /\ a < m /\ first <= a /\ d \in Nat \ {0} /\ k >= 3
  BY <1>3
<1> HIDE DEF Finder, first, start
<1>8. distance = d
  BY <1>3, <1>4, <1>7
<1>9. \A i \in 0 .. 2 : agree(i)
  BY <1>3, <1>6, <1>7, SamePattern, Zenon DEF Wanted
<1>10. ASSUME NEW i \in 3 .. k - 1
       PROVE  look_back_[current(i) + 1] = look_ahead_[i + 1] <=> agree(i)
  <2> DEFINE j == i % d
  <2>1. i \in Nat /\ j \in 0 .. d - 1 /\ (i < d => j = i)
    <3>1. i \in Nat
      BY <1>3
    <3> HIDE DEF d
    <3>2. QED
      BY <1>7, <3>1, Remainder
  <2>2. current(i) = start + j
    <3>1. CASE d < k
      BY <1>8, <3>1
    <3>2. CASE ~(d < k)
      BY <1>3, <1>7, <1>8, <2>1, <3>2
    <3>3. QED
      BY <3>1, <3>2
  <2> HIDE DEF j, current, d
  <2>3. look_back_[start + j + 1] = taken[a + 1 + j]
    <3>1. start + j + 1 \in 1 .. w /\ first + (start + j + 1) = a + 1 + j
      BY <1>3, <1>4, <1>7, <2>1 DEF d
    <3>2. QED
      BY <1>3, <3>1, Zenon
  <2>4. agree(i) <=> taken[a + 1 + j] = look_ahead_[i + 1]
    BY Zenon DEF Agrees, j, d
  <2>5. QED
    BY <2>2, <2>3, <2>4, Zenon
<1> HIDE DEF current, agree
<1>11. lengths = {n \in 3 .. k : \A i \in 3 .. n - 1 : agree(i)}
  <2>1. \A n \in 3 .. k : \A i \in 3 .. n - 1 : i \in 3 .. k - 1
    BY <1>3
  <2>2. \A n \in 3 .. k :
          (\A i \in 3 .. n - 1 : look_back_[current(i) + 1] = look_ahead_[i + 1])
            <=> (\A i \in 3 .. n - 1 : agree(i))
    BY <1>10, <2>1, Zenon
  <2>3. QED
    BY <2>2, Zenon DEF minimum_back_reference_length
<1> HIDE DEF lengths
<1>12. 3 \in lengths
  BY <1>3, <1>7, <1>11
<1>13. \E n \in lengths : \A l \in lengths : l <= n
  <2>1. lengths \subseteq Int /\ lengths # {} /\ \A l \in lengths : l <= k
    BY <1>3, <1>11, <1>12
  <2>2. k \in Int
    BY <1>3
  <2>3. QED
    BY <2>1, <2>2, GreatestElement
<1>14. /\ MatchLength(a) \in lengths /\ \A l \in lengths : l <= MatchLength(a)
  BY <1>5, <1>13, Zenon
<1>15. ASSUME NEW n \in 3 .. k
       PROVE  n <= MatchLength(a) <=> \A i \in 0 .. n - 1 : agree(i)
  <2>1. CASE n <= MatchLength(a)
    <3>1. \A i \in 0 .. n - 1 : i \in 0 .. 2 \/ i \in 3 .. MatchLength(a) - 1
      BY <1>11, <1>14, <2>1
    <3>2. QED
      BY <1>9, <1>11, <1>14, <2>1, <3>1, Zenon
  <2>2. CASE \A i \in 0 .. n - 1 : agree(i)
    <3>1. \A i \in 3 .. n - 1 : i \in 0 .. n - 1
      OBVIOUS
    <3>2. n \in lengths
      BY <1>11, <2>2, <3>1, Zenon
    <3>3. QED
      BY <1>14, <2>2, <3>2, Zenon
  <2>3. QED
    BY <2>1, <2>2, Zenon
<1>16. MatchLength(a) \in 3 .. k
  BY <1>11, <1>14, Zenon
<1>17. QED
  BY <1>15, <1>16, Zenon DEF agree

\* Of the matches at these positions k is the longest, and the first as long.
Best(occurrences, k, n) ==
  /\ k \in 1 .. n
  /\ \A j \in 1 .. n :
       \/ MatchLength(occurrences[j]) < MatchLength(occurrences[k])
       \/ MatchLength(occurrences[j]) = MatchLength(occurrences[k]) /\ k <= j

Reference(a) == [distance |-> Len(taken) - a, length |-> MatchLength(a)]

LEMMA LongestExists ==
  ASSUME NEW occurrences, NEW m \in Nat
  PROVE  \E best : best = [n \in 0 .. m |-> IF n = 0 THEN NoBackReference
                                           ELSE Longer(best[n - 1], occurrences[n])]
<1> DEFINE S == {l \in Nat :
                   \E best : best = [n \in 0 .. l |->
                               IF n = 0 THEN NoBackReference
                               ELSE Longer(best[n - 1], occurrences[n])]}
<1>1. 0 \in S
  <2> DEFINE one == [n \in 0 .. 0 |-> NoBackReference]
  <2>1. \A n \in 0 .. 0 : n = 0
    OBVIOUS
  <2>2. one = [n \in 0 .. 0 |-> IF n = 0 THEN NoBackReference
                                ELSE Longer(one[n - 1], occurrences[n])]
    BY <2>1, Zenon
  <2> HIDE DEF one
  <2>3. \E best : best = [n \in 0 .. 0 |->
                            IF n = 0 THEN NoBackReference
                            ELSE Longer(best[n - 1], occurrences[n])]
    BY <2>2, Zenon
  <2>4. QED
    BY <2>3, Zenon
<1>2. ASSUME NEW l \in Nat, l \in S
      PROVE  l + 1 \in S
  <2>1. PICK best : best = [n \in 0 .. l |->
                              IF n = 0 THEN NoBackReference
                              ELSE Longer(best[n - 1], occurrences[n])]
    BY <1>2, Zenon
  <2> DEFINE more == [n \in 0 .. l + 1 |-> IF n = 0 THEN NoBackReference
                                           ELSE Longer(best[n - 1], occurrences[n])]
  <2>2. \A n \in 0 .. l : more[n] = best[n]
    <3>1. \A n \in 0 .. l : n \in 0 .. l + 1
      OBVIOUS
    <3>2. \A n \in 0 .. l : best[n] = IF n = 0 THEN NoBackReference
                                      ELSE Longer(best[n - 1], occurrences[n])
      BY <2>1, Zenon
    <3>3. QED
      BY <3>1, <3>2, Zenon
  <2>3. \A n \in 0 .. l + 1 : n = 0 \/ n - 1 \in 0 .. l
    OBVIOUS
  <2>4. \A n \in 0 .. l + 1 : n = 0 \/ more[n - 1] = best[n - 1]
    BY <2>2, <2>3, Zenon
  <2>5. more = [n \in 0 .. l + 1 |-> IF n = 0 THEN NoBackReference
                                     ELSE Longer(more[n - 1], occurrences[n])]
    BY <2>4, Zenon
  <2> HIDE DEF more
  <2>6. \E b : b = [n \in 0 .. l + 1 |-> IF n = 0 THEN NoBackReference
                                         ELSE Longer(b[n - 1], occurrences[n])]
    BY <2>5, Zenon
  <2>7. l + 1 \in Nat
    OBVIOUS
  <2>8. QED
    BY <2>6, <2>7, Zenon
<1>3. m \in S
  <2> HIDE DEF S
  <2>1. QED
    BY <1>1, <1>2, Induct
<1>4. QED
  BY <1>3, Zenon

\* LongestOf finds the reference to the first of the longest matches.
LEMMA LongestOfBest ==
  ASSUME NEW occurrences \in Seq(Nat),
         \A i \in 1 .. Len(occurrences) :
           /\ MatchLength(occurrences[i]) \in Nat \ {0}
           /\ Len(look_back_) - AbsoluteToRelative(Finder, occurrences[i])
                = Len(taken) - occurrences[i]
  PROVE  /\ occurrences = <<>> => LongestOf(occurrences) = NoBackReference
         /\ occurrences # <<>> =>
              \E k \in 1 .. Len(occurrences) :
                /\ Best(occurrences, k, Len(occurrences))
                /\ LongestOf(occurrences) = Reference(occurrences[k])
<1> DEFINE m == Len(occurrences)
           best == CHOOSE b : b = [n \in 0 .. Len(occurrences) |->
                                     IF n = 0 THEN NoBackReference
                                     ELSE Longer(b[n - 1], occurrences[n])]
           length(i) == MatchLength(occurrences[i])
<1>1. m \in Nat
  OBVIOUS
<1>2. best = [n \in 0 .. m |-> IF n = 0 THEN NoBackReference
                               ELSE Longer(best[n - 1], occurrences[n])]
  <2>1. \E b : b = [n \in 0 .. m |-> IF n = 0 THEN NoBackReference
                                     ELSE Longer(b[n - 1], occurrences[n])]
    BY <1>1, LongestExists
  <2>2. QED
    BY <2>1, Zenon
<1>3. LongestOf(occurrences) = best[m]
  BY DEF LongestOf
<1> HIDE DEF best
<1>4. best[0] = NoBackReference
  <2>1. 0 \in 0 .. m
    BY <1>1
  <2>2. QED
    BY <1>2, <2>1, Zenon
<1>5. \A n \in 1 .. m : best[n] = Longer(best[n - 1], occurrences[n])
  <2>1. \A n \in 1 .. m : n \in 0 .. m /\ n # 0
    BY <1>1
  <2>2. QED
    BY <1>2, <2>1, Zenon
<1>6. \A n \in 1 .. m : \A b :
        Longer(b, occurrences[n]) =
          IF length(n) > b.length THEN Reference(occurrences[n]) ELSE b
  BY Zenon DEF Longer, Reference
<1>7. \A n \in 1 .. m : /\ length(n) \in Nat \ {0}
                        /\ Reference(occurrences[n]).length = length(n)
  BY DEF Reference
<1> HIDE DEF length, m
<1> DEFINE S == {n \in Nat : n + 1 <= m =>
                   \E k \in 1 .. n + 1 :
                     /\ best[n + 1] = Reference(occurrences[k])
                     /\ \A j \in 1 .. n + 1 :
                          length(j) < length(k) \/ (length(j) = length(k) /\ k <= j)}
<1>8. 0 \in S
  <2>1. SUFFICES ASSUME 0 + 1 <= m
                 PROVE  \E k \in 1 .. 0 + 1 :
                          /\ best[0 + 1] = Reference(occurrences[k])
                          /\ \A j \in 1 .. 0 + 1 :
                               length(j) < length(k) \/ (length(j) = length(k) /\ k <= j)
    <3>1. 0 \in Nat
      OBVIOUS
    <3>2. QED
      BY <3>1, Zenon
  <2>2. 1 \in 1 .. m /\ 1 - 1 = 0 /\ 0 + 1 = 1
    BY <1>1, <2>1
  <2>3. length(1) > NoBackReference.length
    BY <1>7, <2>2 DEF NoBackReference
  <2>4. best[1] = Reference(occurrences[1])
    BY <1>4, <1>5, <1>6, <2>2, <2>3, Zenon
  <2>5. QED
    BY <2>2, <2>4
<1>9. ASSUME NEW n \in Nat, n \in S
      PROVE  n + 1 \in S
  <2>1. SUFFICES ASSUME n + 1 + 1 <= m
                 PROVE  \E k \in 1 .. n + 1 + 1 :
                          /\ best[n + 1 + 1] = Reference(occurrences[k])
                          /\ \A j \in 1 .. n + 1 + 1 :
                               length(j) < length(k) \/ (length(j) = length(k) /\ k <= j)
    <3>1. n + 1 \in Nat
      OBVIOUS
    <3>2. QED
      BY <3>1, Zenon
  <2> DEFINE l == n + 1
  <2>2. l \in Nat /\ l <= m /\ l + 1 <= m /\ l >= 1 /\ l + 1 \in 1 .. m /\ l \in 1 .. m
        /\ (l + 1) - 1 = l
    BY <1>1, <2>1
  <2>3. PICK k \in 1 .. l :
          /\ best[l] = Reference(occurrences[k])
          /\ \A j \in 1 .. l :
               length(j) < length(k) \/ (length(j) = length(k) /\ k <= j)
    BY <1>9, <2>2, Zenon
  <2> HIDE DEF l
  <2>4. k \in 1 .. m /\ k \in 1 .. l + 1 /\ k <= l + 1
    BY <1>1, <2>2
  <2>5. best[l + 1] = IF length(l + 1) > length(k)
                      THEN Reference(occurrences[l + 1]) ELSE best[l]
    <3>1. best[l + 1] = Longer(best[l], occurrences[l + 1])
      BY <1>5, <2>2, Zenon
    <3>2. best[l].length = length(k)
      BY <1>7, <2>3, <2>4, Zenon
    <3>3. QED
      BY <1>6, <2>2, <3>1, <3>2, Zenon
  <2>6. \A j \in 1 .. l + 1 : j \in 1 .. l \/ j = l + 1
    BY <2>2
  <2>7. \A j \in 1 .. l + 1 : j \in 1 .. m
    BY <1>1, <2>2
  <2>8. CASE length(l + 1) > length(k)
    <3>1. best[l + 1] = Reference(occurrences[l + 1])
      BY <2>5, <2>8, Zenon
    <3>2. ASSUME NEW j \in 1 .. l + 1
          PROVE  \/ length(j) < length(l + 1)
                 \/ length(j) = length(l + 1) /\ l + 1 <= j
      <4>1. CASE j = l + 1
        BY <2>2, <4>1
      <4>2. CASE j \in 1 .. l
        <5>1. length(j) \in Nat /\ length(k) \in Nat /\ length(l + 1) \in Nat
          BY <1>7, <2>2, <2>4, <2>7
        <5>2. length(j) <= length(k)
          BY <2>3, <4>2, <5>1
        <5>3. QED
          BY <2>8, <5>1, <5>2
      <4>3. QED
        BY <2>6, <4>1, <4>2
    <3>3. l + 1 \in 1 .. l + 1
      BY <2>2
    <3>4. QED
      BY <3>1, <3>2, <3>3, Zenon DEF l
  <2>9. CASE ~(length(l + 1) > length(k))
    <3>1. best[l + 1] = Reference(occurrences[k])
      BY <2>3, <2>5, <2>9, Zenon
    <3>2. ASSUME NEW j \in 1 .. l + 1
          PROVE  length(j) < length(k) \/ (length(j) = length(k) /\ k <= j)
      <4>1. CASE j = l + 1
        <5>1. length(k) \in Nat /\ length(l + 1) \in Nat
          BY <1>7, <2>2, <2>4
        <5>2. QED
          BY <2>4, <2>9, <4>1, <5>1
      <4>2. CASE j \in 1 .. l
        BY <2>3, <4>2, Zenon
      <4>3. QED
        BY <2>6, <4>1, <4>2
    <3>3. QED
      BY <2>4, <3>1, <3>2, Zenon DEF l
  <2>10. QED
    BY <2>8, <2>9
<1>10. \A n \in Nat : n \in S
  <2> HIDE DEF S
  <2>1. QED
    BY <1>8, <1>9, Induct
<1>11. CASE occurrences = <<>>
  <2>1. m = 0
    BY <1>11 DEF m
  <2>2. QED
    BY <1>3, <1>4, <1>11, <2>1, Zenon
<1>12. CASE occurrences # <<>>
  <2>1. m # 0
    BY <1>12 DEF m
  <2>2. m - 1 \in Nat /\ m - 1 + 1 = m /\ m <= m
    BY <1>1, <2>1
  <2>3. PICK k \in 1 .. m :
          /\ best[m] = Reference(occurrences[k])
          /\ \A j \in 1 .. m :
               length(j) < length(k) \/ (length(j) = length(k) /\ k <= j)
    BY <1>10, <2>2, Zenon
  <2>4. Best(occurrences, k, m)
    BY <2>3, Zenon DEF Best, length
  <2>5. QED
    BY <1>3, <1>12, <2>3, <2>4, Zenon DEF m
<1>13. QED
  BY <1>11, <1>12

-----------------------------------------------------------------------------
(***************************************************************************)
(* What the properties of Lzss say of a sound finder.                      *)
(***************************************************************************)
LEMMA FinderFields ==
  /\ Finder.look_back = look_back_ /\ Finder.look_ahead = look_ahead_
  /\ Finder.chain = chain_
  /\ Finder.starts = start_absolute_by_length_three_pattern_
  /\ Finder.position = absolute_position_
  /\ Finder.taken = taken /\ Finder.cut_off = cut_off
  BY DEF Finder

LEMMA SoundFinder ==
  ASSUME Sound(Finder)
  PROVE  /\ look_back_ \in Seq(Literal) /\ Len(look_back_) <= LookBackSize
         /\ look_ahead_ \in Seq(Literal) /\ Len(look_ahead_) <= LookAheadSize
         /\ taken \in Seq(Literal) /\ absolute_position_ = Len(taken) + 1
         /\ Len(taken) \in Nat /\ Len(look_ahead_) \in Nat /\ Len(look_back_) \in Nat
         /\ FirstOf(Finder) \in Nat
         /\ FirstOf(Finder) = Len(taken) - Len(look_back_)
         /\ AbsoluteStartOfLookBack(Finder) = FirstOf(Finder)
         /\ InWindow = FirstOf(Finder) .. Len(taken) - 1
         /\ Bytes(Finder) = taken \o look_ahead_ /\ Bytes(Finder) \in Seq(Literal)
         /\ Len(Bytes(Finder)) = Len(taken) + Len(look_ahead_)
         /\ Indexed(Bytes(Finder), FirstOf(Finder), Len(taken), chain_,
                    start_absolute_by_length_three_pattern_, cut_off)
<1>1. Window(Finder) /\ IndexedUpTo(Finder, Len(Finder.taken), Finder.cut_off)
  BY DEF Sound
<1> HIDE DEF Finder
<1>2. /\ Len(taken) \in Nat /\ Len(look_ahead_) \in Nat /\ Len(look_back_) \in Nat
      /\ FirstOf(Finder) \in Nat /\ Bytes(Finder) \in Seq(Literal)
      /\ FirstOf(Finder) = Len(taken) - Len(look_back_)
      /\ AbsoluteStartOfLookBack(Finder) = FirstOf(Finder)
      /\ Len(Bytes(Finder)) = Len(taken) + Len(look_ahead_)
  <2>1. /\ Len(Finder.taken) \in Nat /\ Len(Finder.look_ahead) \in Nat
        /\ Len(Finder.look_back) \in Nat
        /\ FirstOf(Finder) \in Nat /\ Bytes(Finder) \in Seq(Literal)
        /\ FirstOf(Finder) = Len(Finder.taken) - Len(Finder.look_back)
        /\ AbsoluteStartOfLookBack(Finder) = FirstOf(Finder)
        /\ Len(Bytes(Finder)) = Len(Finder.taken) + Len(Finder.look_ahead)
    BY <1>1, BytesOfWindow, Zenon
  <2>2. QED
    BY <2>1, FinderFields, Zenon
<1>3. /\ look_back_ \in Seq(Literal) /\ Len(look_back_) <= LookBackSize
      /\ look_ahead_ \in Seq(Literal) /\ Len(look_ahead_) <= LookAheadSize
      /\ taken \in Seq(Literal) /\ absolute_position_ = Len(taken) + 1
  BY <1>1, FinderFields, Zenon DEF Window
<1>4. Bytes(Finder) = taken \o look_ahead_
  BY FinderFields, Zenon DEF Bytes
<1>5. InWindow = FirstOf(Finder) .. Len(taken) - 1
  BY <1>2, Zenon DEF InWindow
<1>6. Indexed(Bytes(Finder), FirstOf(Finder), Len(taken), chain_,
              start_absolute_by_length_three_pattern_, cut_off)
  BY <1>1, FinderFields, Zenon DEF IndexedUpTo
<1>7. QED
  BY <1>2, <1>3, <1>4, <1>5, <1>6, Zenon

\* The positions that have three bytes to look at have the pattern of these.
LEMMA PatternAtIs ==
  ASSUME Sound(Finder), NEW a \in Nat, HasPattern(Bytes(Finder), a)
  PROVE  PatternAt(a) = PatternOf(Bytes(Finder), a)
<1> DEFINE b == Bytes(Finder)
           n == Len(b)
           q == SubSeq(b, a + 1, n)
<1>1. b \in Seq(Literal) /\ n \in Nat /\ a + 3 <= n
  BY SoundFinder DEF HasPattern
<1>2. PatternAt(a) = SubSeq(q, 1, 3)
  <2>1. BytesFrom(a) = q
    BY SoundFinder, Zenon DEF BytesFrom
  <2>2. QED
    BY <2>1, Zenon DEF PatternAt
<1> HIDE DEF b
<1>3. \A i \in a + 1 .. n : b[i] \in Literal
  <2>1. \A i \in a + 1 .. n : i \in 1 .. Len(b)
    BY <1>1
  <2>2. QED
    BY <1>1, <2>1, ElementOfSeq
<1> HIDE DEF n
<1>4. /\ q \in Seq(Literal) /\ Len(q) = n - (a + 1) + 1
      /\ \A i \in 1 .. n - (a + 1) + 1 : q[i] = b[a + 1 + i - 1]
  <2>1. a + 1 \in Int /\ n \in Int /\ a + 1 <= n
    BY <1>1
  <2>2. QED
    BY <1>3, <2>1, SubSeqProperties
<1> HIDE DEF q
<1>5. Len(q) >= 3
  BY <1>1, <1>4
<1>6. q[1] = b[a + 1] /\ q[2] = b[a + 2] /\ q[3] = b[a + 3]
  <2>1. /\ 1 \in 1 .. n - (a + 1) + 1 /\ 2 \in 1 .. n - (a + 1) + 1
        /\ 3 \in 1 .. n - (a + 1) + 1
        /\ a + 1 + 1 - 1 = a + 1 /\ a + 1 + 2 - 1 = a + 2 /\ a + 1 + 3 - 1 = a + 3
    BY <1>1
  <2>2. QED
    BY <1>4, <2>1
<1>7. SubSeq(q, 1, 3) = <<q[1], q[2], q[3]>>
  BY <1>4, <1>5, FirstThree
<1>8. QED
  BY <1>2, <1>6, <1>7, Zenon DEF PatternOf, b

\* Of a position that was indexed the finder knows the pattern.
LEMMA VisibleKnown ==
  ASSUME Sound(Finder), NEW a \in Visible
  PROVE  /\ a \in FirstOf(Finder) .. Len(taken) - 1 /\ a \in Nat /\ a < Len(taken)
         /\ a \notin cut_off /\ a # end_of_chain
         /\ HasPattern(Bytes(Finder), a)
         /\ PatternAt(a) = PatternOf(Bytes(Finder), a)
         /\ PatternAt(a) \in DOMAIN start_absolute_by_length_three_pattern_
<1>1. a \in FirstOf(Finder) .. Len(taken) - 1 /\ a \notin cut_off /\ a # end_of_chain
  BY SoundFinder, Zenon DEF Visible
<1>2. a \in Nat /\ a < Len(taken)
  <2>1. FirstOf(Finder) \in Nat /\ Len(taken) \in Nat
    BY SoundFinder, Zenon
  <2> HIDE DEF FirstOf, Finder
  <2>2. QED
    BY <1>1, <2>1
<1>3. /\ HasPattern(Bytes(Finder), a)
      /\ PatternOf(Bytes(Finder), a) \in DOMAIN start_absolute_by_length_three_pattern_
  BY <1>1, SoundFinder, Zenon DEF Indexed, Complete
<1>4. QED
  BY <1>1, <1>2, <1>3, PatternAtIs, Zenon

\* Followed from the hash map the chain reaches just the visible ones.
LEMMA Reached ==
  ASSUME Sound(Finder),
         NEW p \in DOMAIN start_absolute_by_length_three_pattern_
  PROVE  LET a == start_absolute_by_length_three_pattern_[p] IN
         /\ a \in FirstOf(Finder) .. Len(taken) - 1 /\ a \in Nat
         /\ HasPattern(Bytes(Finder), a) /\ p = PatternOf(Bytes(Finder), a)
         /\ Occurrences(a) \in Seq(Nat)
         /\ ToSet(Occurrences(a)) =
              {b \in Visible : PatternOf(Bytes(Finder), b) = p}
         /\ \A i \in 1 .. Len(Occurrences(a)) - 1 :
              Occurrences(a)[i + 1] < Occurrences(a)[i]
<1> DEFINE a == start_absolute_by_length_three_pattern_[p]
           bytes == Bytes(Finder)
           first == FirstOf(Finder)
           n == Len(taken)
           same == Same(bytes, first, n, cut_off, a)
           visible == {b \in Visible : PatternOf(bytes, b) = p}
           occurrences == Occurrences(a)
<1>1. /\ a \in first .. n - 1 /\ a \notin cut_off
      /\ HasPattern(bytes, a) /\ p = PatternOf(bytes, a)
  BY SoundFinder, Zenon DEF Indexed, StartsSound
<1>2. first \in Nat /\ n \in Nat
  BY SoundFinder, Zenon
<1>3. \A b : b \in Visible <=>
               b \in first .. n - 1 /\ b \notin cut_off /\ b # end_of_chain
  BY SoundFinder, Zenon DEF Visible
<1>4. \A b \in first .. n - 1 : b \notin cut_off /\ PatternOf(bytes, b) = p => a >= b
  BY SoundFinder, Zenon DEF Indexed, Complete
<1> HIDE DEF a, first, n, bytes
<1>5. visible = same
  <2>1. \A b : b \in same <=> /\ b \in first .. n - 1 /\ b \notin cut_off
                              /\ b # end_of_chain /\ b <= a
                              /\ PatternOf(bytes, b) = PatternOf(bytes, a)
    BY Zenon DEF Same
  <2>2. \A b : b \in visible <=> /\ b \in first .. n - 1 /\ b \notin cut_off
                                 /\ b # end_of_chain /\ PatternOf(bytes, b) = p
    BY <1>3, Zenon
  <2>3. \A b \in first .. n - 1 : a >= b => b <= a
    BY <1>1, <1>2
  <2> HIDE DEF same, visible
  <2>4. QED
    BY <1>1, <1>4, <2>1, <2>2, <2>3, Zenon
<1>6. /\ a = end_of_chain => occurrences = <<>>
      /\ a # end_of_chain => Descends(occurrences, same, a)
  BY <1>1, OccurrencesReach, Zenon DEF first, n, bytes
<1> HIDE DEF occurrences, same, visible
<1>7. a \in Nat
  BY <1>1, <1>2
<1>8. CASE a = end_of_chain
  <2>1. \A b : b \notin same
    <3>1. ASSUME NEW b \in same
          PROVE  FALSE
      <4>1. b \in first .. n - 1 /\ b # end_of_chain /\ b <= a
        BY Zenon DEF same, Same
      <4>2. QED
        BY <1>2, <1>8, <4>1 DEF end_of_chain
    <3>2. QED
      BY <3>1, Zenon
  <2>2. ToSet(<<>>) = {} /\ <<>> \in Seq(Nat) /\ 1 .. Len(<<>>) - 1 = {}
    BY DEF ToSet
  <2>3. occurrences = <<>> /\ visible = {}
    BY <1>5, <1>6, <1>8, <2>1, Zenon
  <2>4. QED
    BY <1>1, <1>7, <2>2, <2>3, Zenon DEF a, bytes, first, n, occurrences, visible
<1>9. CASE a # end_of_chain
  <2>1. Descends(occurrences, same, a)
    BY <1>6, <1>9, Zenon
  <2>2. QED
    BY <1>1, <1>5, <1>7, <2>1, Zenon
       DEF Descends, a, bytes, first, n, occurrences, visible
<1>10. QED
  BY <1>8, <1>9

\* What is later in a descending sequence is smaller.
LEMMA Descending ==
  ASSUME NEW s \in Seq(Nat), \A i \in 1 .. Len(s) - 1 : s[i + 1] < s[i]
  PROVE  \A i, j \in 1 .. Len(s) : i <= j => s[j] <= s[i]
<1> DEFINE n == Len(s)
<1>1. n \in Nat /\ \A i \in 1 .. n : s[i] \in Nat
  BY ElementOfSeq
<1> HIDE DEF n
<1>2. SUFFICES ASSUME NEW i \in 1 .. n
               PROVE  \A j \in 1 .. n : i <= j => s[j] <= s[i]
  BY Zenon DEF n
<1> DEFINE S == {d \in Nat : i + d <= n => s[i + d] <= s[i]}
<1>3. 0 \in S
  BY <1>1
<1>4. ASSUME NEW d \in Nat, d \in S
      PROVE  d + 1 \in S
  <2>1. SUFFICES ASSUME i + (d + 1) <= n
                 PROVE  s[i + (d + 1)] <= s[i]
    OBVIOUS
  <2>2. /\ i + d \in 1 .. n - 1 /\ i + d \in 1 .. n /\ i + (d + 1) \in 1 .. n
        /\ i + d + 1 = i + (d + 1) /\ i + d <= n
    BY <1>1, <2>1
  <2>3. s[i + (d + 1)] < s[i + d] /\ s[i + d] <= s[i]
    <3>1. s[i + d + 1] < s[i + d]
      BY <2>2, Zenon DEF n
    <3>2. s[i + d] <= s[i]
      BY <1>4, <2>2, Zenon
    <3>3. QED
      BY <2>2, <3>1, <3>2, Zenon
  <2>4. s[i + (d + 1)] \in Nat /\ s[i + d] \in Nat /\ s[i] \in Nat
    BY <1>1, <2>2, Zenon
  <2>5. QED
    BY <2>3, <2>4
<1>5. \A d \in Nat : d \in S
  <2> HIDE DEF S
  <2>1. QED
    BY <1>3, <1>4, Induct
<1>6. ASSUME NEW j \in 1 .. n, i <= j
      PROVE  s[j] <= s[i]
  <2>1. j - i \in Nat /\ i + (j - i) = j /\ j <= n
    BY <1>1, <1>6
  <2>2. QED
    BY <1>5, <2>1, Zenon
<1>7. QED
  BY <1>6, Zenon

Candidates == {a \in Visible : PatternOf(Bytes(Finder), a) = Wanted}

\* The search gives the longest match, and of several as long the nearest.
LEMMA FindsBest ==
  ASSUME Sound(Finder)
  PROVE  \/ /\ FindBestBackReference = NoBackReference
            /\ Len(look_ahead_) < 3 \/ Candidates = {}
         \/ /\ Len(look_ahead_) >= 3
            /\ \E a \in Candidates :
                 /\ FindBestBackReference = Reference(a)
                 /\ \A b \in Candidates :
                      \/ MatchLength(b) < MatchLength(a)
                      \/ MatchLength(b) = MatchLength(a) /\ b <= a
<1> DEFINE pattern == SubSeq(look_ahead_, 1, 3)
           starts == start_absolute_by_length_three_pattern_
           bytes == Bytes(Finder)
<1>1. look_ahead_ \in Seq(Literal) /\ Len(look_ahead_) \in Nat
  BY SoundFinder
<1>2. CASE Len(look_ahead_) < 3
  <2>1. FindBestBackReference = NoBackReference
    BY <1>2, Zenon DEF FindBestBackReference, minimum_back_reference_length
  <2>2. QED
    BY <1>2, <2>1
<1>3. CASE ~(Len(look_ahead_) < 3)
  <2>1. Len(look_ahead_) >= 3
    BY <1>1, <1>3
  <2>2. pattern = Wanted
    BY <1>1, <2>1, FirstThree DEF Wanted
  <2> HIDE DEF pattern
  <2>3. CASE pattern \notin DOMAIN starts
    <3>1. FindBestBackReference = NoBackReference
      BY <2>3, Zenon DEF FindBestBackReference, pattern
    <3>2. Candidates = {}
      BY <2>2, <2>3, VisibleKnown, Zenon DEF Candidates
    <3>3. QED
      BY <3>1, <3>2
  <2>4. CASE pattern \in DOMAIN starts
    <3> DEFINE occurrences == Occurrences(starts[pattern])
    <3>1. FindBestBackReference = LongestOf(occurrences)
      BY <1>3, <2>4, Zenon
         DEF FindBestBackReference, minimum_back_reference_length, pattern
    <3>2. /\ occurrences \in Seq(Nat) /\ ToSet(occurrences) = Candidates
          /\ \A i \in 1 .. Len(occurrences) - 1 : occurrences[i + 1] < occurrences[i]
      BY <2>2, <2>4, Reached, Zenon DEF Candidates
    <3> HIDE DEF occurrences
    <3>3. /\ Len(occurrences) \in Nat /\ DOMAIN occurrences = 1 .. Len(occurrences)
          /\ \A i \in 1 .. Len(occurrences) : occurrences[i] \in Nat
      BY <3>2, ElementOfSeq
    <3>4. \A i \in 1 .. Len(occurrences) : occurrences[i] \in Candidates
      BY <3>2, <3>3, Zenon DEF ToSet
    <3>5. ASSUME NEW a \in Candidates
          PROVE  /\ MatchLength(a) \in Nat \ {0}
                 /\ Len(look_back_) - AbsoluteToRelative(Finder, a) = Len(taken) - a
      <4>1. /\ a \in FirstOf(Finder) .. Len(taken) - 1 /\ a \in Nat
            /\ PatternOf(bytes, a) = Wanted
        BY VisibleKnown, Zenon DEF Candidates
      <4>2. MatchLength(a) \in 3 .. Len(look_ahead_)
        BY <2>1, <4>1, MatchLengthAgrees, Zenon
      <4>3. AbsoluteToRelative(Finder, a) = a - FirstOf(Finder)
        <5>1. Window(Finder) /\ Len(Finder.taken) = Len(taken)
          BY FinderFields, Zenon DEF Sound
        <5>2. QED
          BY <4>1, <5>1, RelativeOfWindow, Zenon
      <4>4. /\ Len(look_back_) \in Nat /\ Len(taken) \in Nat
            /\ FirstOf(Finder) = Len(taken) - Len(look_back_)
        BY SoundFinder, Zenon
      <4> HIDE DEF Finder
      <4>5. Len(look_back_) - (a - FirstOf(Finder)) = Len(taken) - a
        BY <4>1, <4>4
      <4>6. MatchLength(a) \in Nat \ {0}
        BY <1>1, <4>2
      <4>7. QED
        BY <4>3, <4>5, <4>6, Zenon
    <3>6. \A i \in 1 .. Len(occurrences) :
            /\ MatchLength(occurrences[i]) \in Nat \ {0}
            /\ Len(look_back_) - AbsoluteToRelative(Finder, occurrences[i])
                 = Len(taken) - occurrences[i]
      BY <3>4, <3>5, Zenon
    <3>7. CASE occurrences = <<>>
      <4>1. ToSet(<<>>) = {}
        BY DEF ToSet
      <4>2. Candidates = {}
        BY <3>2, <3>7, <4>1, Zenon
      <4>3. LongestOf(occurrences) = NoBackReference
        BY <3>2, <3>6, <3>7, LongestOfBest, Zenon
      <4>4. QED
        BY <3>1, <4>2, <4>3, Zenon
    <3>8. CASE occurrences # <<>>
      <4>1. PICK k \in 1 .. Len(occurrences) :
              /\ Best(occurrences, k, Len(occurrences))
              /\ LongestOf(occurrences) = Reference(occurrences[k])
        BY <3>2, <3>6, <3>8, LongestOfBest, Zenon
      <4>2. \A i, j \in 1 .. Len(occurrences) :
              i <= j => occurrences[j] <= occurrences[i]
        BY <3>2, Descending
      <4>3. ASSUME NEW b \in Candidates
            PROVE  \/ MatchLength(b) < MatchLength(occurrences[k])
                   \/ MatchLength(b) = MatchLength(occurrences[k])
                      /\ b <= occurrences[k]
        <5>1. PICK j \in 1 .. Len(occurrences) : b = occurrences[j]
          BY <3>2, <3>3, Zenon DEF ToSet
        <5>2. QED
          BY <4>1, <4>2, <5>1, Zenon DEF Best
      <4>4. QED
        BY <2>1, <3>1, <3>4, <4>1, <4>3, Zenon
    <3>9. QED
      BY <3>7, <3>8
  <2>5. QED
    BY <2>3, <2>4
<1>4. QED
  BY <1>2, <1>3

\* What a reference to a visible position may stand for.
LEMMA MatchesAre ==
  ASSUME Sound(Finder), NEW a \in Visible, NEW n \in 3 .. Len(look_ahead_)
  PROVE  Repeated(Len(taken) - a, n) = SubSeq(look_ahead_, 1, n)
           <=> a \in Candidates /\ n <= MatchLength(a)
<1> DEFINE t == look_ahead_
           k == Len(t)
           agree(i) == Agrees(taken, t, a, i)
<1>1. /\ taken \in Seq(Literal) /\ t \in Seq(Literal) /\ k \in Nat
      /\ Bytes(Finder) = taken \o t
  BY SoundFinder, Zenon
<1>2. /\ a \in Nat /\ a < Len(taken)
      /\ a \in FirstOf(Finder) .. Len(taken) - 1
  BY VisibleKnown, Zenon
<1>3. k >= 3 /\ n \in 0 .. k /\ \A i \in 0 .. 2 : i \in 0 .. n - 1
  BY <1>1
<1>4. Repeated(Len(taken) - a, n) = SubSeq(t, 1, n)
        <=> \A i \in 0 .. n - 1 : agree(i)
  BY <1>1, <1>2, <1>3, RepeatedAgrees, Zenon
<1>5. a \in Candidates <=> \A i \in 0 .. 2 : agree(i)
  BY <1>1, <1>2, <1>3, SamePattern, Zenon DEF Candidates, Wanted
<1>6. a \in Candidates => (n <= MatchLength(a) <=> \A i \in 0 .. n - 1 : agree(i))
  BY <1>2, <1>3, MatchLengthAgrees, Zenon DEF Candidates
<1> HIDE DEF agree
<1>7. QED
  BY <1>3, <1>4, <1>5, <1>6, Zenon

LEMMA SoundLongest ==
  ASSUME Sound(Finder)
  PROVE  LongestFound
<1> DEFINE best == FindBestBackReference
           distances == {Len(taken) - absolute : absolute \in Visible}
           k == Len(look_ahead_)
           matches == {m \in distances \X (3 .. Len(look_ahead_)) :
                         Repeated(m[1], m[2]) = SubSeq(look_ahead_, 1, m[2])}
<1>1. SUFFICES /\ best.length = 0 <=> matches = {}
               /\ best.length > 0 =>
                    /\ <<best.distance, best.length>> \in matches
                    /\ \A m \in matches :
                         \/ m[2] < best.length
                         \/ m[2] = best.length /\ m[1] >= best.distance
  BY DEF LongestFound
<1>2. k \in Nat /\ Len(taken) \in Nat
  BY SoundFinder, Zenon
<1>3. ASSUME NEW m \in matches
      PROVE  /\ k >= 3 /\ m[2] \in 3 .. k
             /\ \E b \in Candidates : m[1] = Len(taken) - b /\ m[2] <= MatchLength(b)
  <2>1. /\ m[1] \in distances /\ m[2] \in 3 .. k
        /\ Repeated(m[1], m[2]) = SubSeq(look_ahead_, 1, m[2])
    OBVIOUS
  <2>2. PICK b \in Visible : m[1] = Len(taken) - b
    BY <2>1, Zenon
  <2>3. b \in Candidates /\ m[2] <= MatchLength(b)
    BY <2>1, <2>2, MatchesAre, Zenon
  <2>4. k >= 3
    BY <1>2, <2>1
  <2>5. QED
    BY <2>1, <2>2, <2>3, <2>4, Zenon
<1>4. ASSUME NEW a \in Candidates, k >= 3
      PROVE  /\ a \in Nat /\ MatchLength(a) \in 3 .. k
             /\ <<Len(taken) - a, MatchLength(a)>> \in matches
  <2>1. /\ a \in Visible /\ PatternOf(Bytes(Finder), a) = Wanted
    BY DEF Candidates
  <2>2. a \in Nat /\ a \in FirstOf(Finder) .. Len(taken) - 1
    BY <2>1, VisibleKnown, Zenon
  <2>3. MatchLength(a) \in 3 .. k
    BY <1>4, <2>1, <2>2, MatchLengthAgrees, Zenon
  <2>4. MatchLength(a) <= MatchLength(a)
    BY <1>2, <2>3
  <2> DEFINE l == MatchLength(a)
  <2>5. Repeated(Len(taken) - a, l) = SubSeq(look_ahead_, 1, l)
    BY <2>1, <2>3, <2>4, MatchesAre, Zenon
  <2>6. Len(taken) - a \in distances
    BY <2>1, Zenon
  <2> HIDE DEF l, distances
  <2>7. QED
    BY <2>2, <2>3, <2>5, <2>6 DEF l
<1> HIDE DEF matches, best
<1>5. CASE best = NoBackReference /\ (k < 3 \/ Candidates = {})
  <2>1. matches = {}
    <3>1. ASSUME NEW m \in matches PROVE FALSE
      <4>1. k >= 3 /\ Candidates # {}
        BY <1>3, Zenon
      <4>2. QED
        BY <1>2, <1>5, <4>1
    <3>2. QED
      BY <3>1, Zenon
  <2>2. best.length = 0 /\ ~(best.length > 0)
    BY <1>5 DEF NoBackReference
  <2>3. QED
    BY <2>1, <2>2, Zenon
<1>6. ASSUME k >= 3, NEW a \in Candidates, best = Reference(a),
             \A b \in Candidates : \/ MatchLength(b) < MatchLength(a)
                                   \/ MatchLength(b) = MatchLength(a) /\ b <= a
      PROVE  /\ best.length = 0 <=> matches = {}
             /\ best.length > 0 =>
                  /\ <<best.distance, best.length>> \in matches
                  /\ \A m \in matches :
                       \/ m[2] < best.length
                       \/ m[2] = best.length /\ m[1] >= best.distance
  <2>1. best.distance = Len(taken) - a /\ best.length = MatchLength(a)
    BY <1>6 DEF Reference
  <2>2. /\ a \in Nat /\ MatchLength(a) \in 3 .. k
        /\ <<Len(taken) - a, MatchLength(a)>> \in matches
    BY <1>4, <1>6, Zenon
  <2>3. ASSUME NEW m \in matches
        PROVE  \/ m[2] < MatchLength(a)
               \/ m[2] = MatchLength(a) /\ m[1] >= Len(taken) - a
    <3>1. PICK b \in Candidates : m[1] = Len(taken) - b /\ m[2] <= MatchLength(b)
      BY <1>3, Zenon
    <3>2. m[2] \in 3 .. k
      BY <1>3, Zenon
    <3>3. b \in Nat /\ MatchLength(b) \in 3 .. k
      BY <1>4, <1>6, Zenon
    <3>4. \/ MatchLength(b) < MatchLength(a)
          \/ MatchLength(b) = MatchLength(a) /\ b <= a
      BY <1>6, Zenon
    <3> DEFINE x == MatchLength(a)
               y == MatchLength(b)
    <3> HIDE DEF x, y, k
    <3>5. x \in Nat /\ y \in Nat /\ m[2] \in Nat
      BY <1>2, <2>2, <3>2, <3>3 DEF x, y
    <3>6. (y < x \/ (y = x /\ b <= a)) /\ m[2] <= y
      BY <3>1, <3>4, Zenon DEF x, y
    <3>7. m[2] < x \/ (m[2] = x /\ b <= a)
      BY <3>5, <3>6
    <3>8. b <= a => Len(taken) - b >= Len(taken) - a
      BY <1>2, <2>2, <3>3
    <3>9. QED
      BY <3>1, <3>7, <3>8, Zenon DEF x
  <2>4. ~(best.length = 0)
    BY <1>2, <2>1, <2>2
  <2>5. matches # {}
    BY <2>2, Zenon
  <2>6. QED
    BY <2>1, <2>2, <2>3, <2>4, <2>5, Zenon
<1>7. QED
  BY <1>5, <1>6, FindsBest, Zenon DEF best

-----------------------------------------------------------------------------
(***************************************************************************)
(* What holds of a sound finder.                                           *)
(***************************************************************************)
LEMMA SoundIndex ==
  ASSUME Sound(Finder)
  PROVE  IndexSound
<1> DEFINE starts == start_absolute_by_length_three_pattern_
<1>1. SUFFICES ASSUME NEW p \in DOMAIN starts
               PROVE  starts[p] \in InWindow /\ PatternAt(starts[p]) = p
  BY DEF IndexSound
<1>2. /\ starts[p] \in FirstOf(Finder) .. Len(taken) - 1 /\ starts[p] \in Nat
      /\ HasPattern(Bytes(Finder), starts[p])
      /\ p = PatternOf(Bytes(Finder), starts[p])
  BY Reached, Zenon
<1>3. InWindow = FirstOf(Finder) .. Len(taken) - 1
  BY SoundFinder
<1> QED
  BY <1>2, <1>3, PatternAtIs, Zenon

LEMMA SoundChain ==
  ASSUME Sound(Finder)
  PROVE  ChainSound
<1> DEFINE first == FirstOf(Finder)
           n == Len(taken)
           bytes == Bytes(Finder)
<1>1. /\ InWindow = first .. n - 1 /\ first \in Nat /\ n \in Nat
      /\ Len(look_back_) \in Nat /\ first = n - Len(look_back_)
      /\ AbsoluteStartOfLookBack(Finder) = first
      /\ bytes \in Seq(Literal) /\ Len(bytes) \in Nat
  BY SoundFinder
<1>2. ChainsSound(bytes, first, n, chain_, cut_off)
  BY SoundFinder, Zenon DEF Indexed
<1>3. Len(chain_) = Len(look_back_) /\ chain_ \in Seq(Nat)
  <2>1. Len(chain_) = n - first /\ chain_ \in Seq(Nat)
    BY <1>2, Zenon DEF ChainsSound
  <2> HIDE DEF first, n
  <2> QED  BY <2>1, <1>1
<1>4. ASSUME NEW a \in InWindow,
             IsAbsoluteInLookback(Finder, chain_[AbsoluteToRelative(Finder, a) + 1])
      PROVE  /\ chain_[AbsoluteToRelative(Finder, a) + 1] < a
             /\ PatternAt(chain_[AbsoluteToRelative(Finder, a) + 1]) = PatternAt(a)
  <2> DEFINE link == chain_[AbsoluteToRelative(Finder, a) + 1]
  <2>1. a \in first .. n - 1
    BY <1>1, Zenon
  <2>2. AbsoluteToRelative(Finder, a) = a - first
    <3>1. Window(Finder) /\ Len(Finder.taken) = n
      BY FinderFields, Zenon DEF Sound
    <3> QED  BY <2>1, <3>1, RelativeOfWindow, Zenon
  <2>3. link = Link(chain_, first, a)
    BY <2>2, Zenon DEF Link
  <2>4. link # end_of_chain /\ link >= first
    BY <1>1, <1>4, Zenon DEF IsAbsoluteInLookback
  <2>5. /\ link = end_of_chain \/ link < a
        /\ HasPattern(bytes, a) /\ PatternOf(bytes, link) = PatternOf(bytes, a)
    BY <1>2, <2>1, <2>3, <2>4, Zenon DEF ChainsSound
  <2>6. link \in Nat
    <3>1. a - first + 1 \in 1 .. Len(chain_)
      <4> HIDE DEF first, n
      <4> QED  BY <1>1, <1>3, <2>1
    <3>2. link = chain_[a - first + 1]
      BY <2>3, Zenon DEF Link
    <3> HIDE DEF first, link
    <3> QED  BY <1>3, <3>1, <3>2, ElementOfSeq
  <2>7. a \in Nat /\ link < a /\ HasPattern(bytes, link)
    <3>1. a \in Nat
      <4> HIDE DEF first, n
      <4> QED  BY <1>1, <2>1
    <3>2. link < a
      BY <2>4, <2>5, Zenon
    <3> HIDE DEF link, first, n, bytes
    <3> QED  BY <1>1, <2>5, <2>6, <3>1, <3>2 DEF HasPattern
  <2>8. PatternAt(link) = PatternOf(bytes, link) /\ PatternAt(a) = PatternOf(bytes, a)
    BY <2>5, <2>6, <2>7, PatternAtIs, Zenon
  <2> QED
    BY <2>5, <2>7, <2>8, Zenon
<1> QED
  BY <1>3, <1>4, Zenon DEF ChainSound

LEMMA SoundComplete ==
  ASSUME Sound(Finder)
  PROVE  IndexComplete
<1> DEFINE starts == start_absolute_by_length_three_pattern_
<1>1. SUFFICES ASSUME NEW absolute \in Visible
               PROVE  LET p == PatternAt(absolute)
                          reached == Occurrences(starts[p])
                      IN /\ p \in DOMAIN starts
                         /\ ToSet(reached) = {a \in Visible : PatternAt(a) = p}
                         /\ \A i \in 1 .. Len(reached) - 1 : reached[i + 1] < reached[i]
  BY Zenon DEF IndexComplete
<1> DEFINE p == PatternAt(absolute)
<1>2. p \in DOMAIN starts
  BY VisibleKnown, Zenon
<1>3. /\ ToSet(Occurrences(starts[p])) =
           {b \in Visible : PatternOf(Bytes(Finder), b) = p}
      /\ \A i \in 1 .. Len(Occurrences(starts[p])) - 1 :
           Occurrences(starts[p])[i + 1] < Occurrences(starts[p])[i]
  BY <1>2, Reached, Zenon
<1>4. {b \in Visible : PatternOf(Bytes(Finder), b) = p} =
        {b \in Visible : PatternAt(b) = p}
  <2>1. \A b \in Visible : PatternAt(b) = PatternOf(Bytes(Finder), b)
    BY VisibleKnown, Zenon
  <2> HIDE DEF p
  <2> QED  BY <2>1, Zenon
<1> QED
  BY <1>2, <1>3, <1>4, Zenon

-----------------------------------------------------------------------------
(***************************************************************************)
(* The inductive invariant: the index is sound, and what is cached is what *)
(* would be found now.                                                     *)
(***************************************************************************)
IInv ==
  /\ Sound(Finder)
  /\ back_reference_ = NoBackReference \/ back_reference_ = FindBestBackReference

\* A reference that is found fits, and repeats what waits.
LEMMA SoundReference ==
  ASSUME Sound(Finder), FindBestBackReference # NoBackReference
  PROVE  \E distance \in 1 .. LookBackSize, length \in 3 .. Len(look_ahead_) :
           /\ FindBestBackReference = [distance |-> distance, length |-> length]
           /\ distance <= Len(taken)
           /\ Repeated(distance, length) = SubSeq(look_ahead_, 1, length)
<1>1. PICK a \in Candidates : FindBestBackReference = Reference(a)
  BY FindsBest, Zenon
<1>2. /\ Len(look_ahead_) >= 3
      /\ a \in Visible /\ PatternOf(Bytes(Finder), a) = Wanted
  BY FindsBest, Zenon DEF Candidates
<1>3. a \in FirstOf(Finder) .. Len(taken) - 1 /\ a \in Nat /\ a < Len(taken)
  BY <1>2, VisibleKnown, Zenon
<1> DEFINE distance == Len(taken) - a
           length == MatchLength(a)
<1>4. length \in 3 .. Len(look_ahead_)
  BY <1>2, <1>3, MatchLengthAgrees, Zenon
<1>5. distance \in 1 .. LookBackSize /\ distance <= Len(taken)
  BY <1>3, SoundFinder, LzssAssumption
<1>6. length <= MatchLength(a)
  <2>1. \A i \in 3 .. Len(look_ahead_) : i <= i
    BY SoundFinder
  <2> QED  BY <1>4, <2>1, Zenon
<1>7. Repeated(distance, length) = SubSeq(look_ahead_, 1, length)
  BY <1>1, <1>2, <1>4, <1>6, MatchesAre, Zenon
<1>8. FindBestBackReference = [distance |-> distance, length |-> length]
  BY <1>1, Zenon DEF Reference
<1> QED
  BY <1>4, <1>5, <1>7, <1>8, Zenon

LEMMA SoundTypes ==
  ASSUME IInv
  PROVE  TypeOK
<1> DEFINE starts == start_absolute_by_length_three_pattern_
<1>1. Sound(Finder)
  BY DEF IInv
<1>2. /\ look_back_ \in Seq(Literal) /\ Len(look_back_) <= LookBackSize
      /\ look_ahead_ \in Seq(Literal) /\ Len(look_ahead_) <= LookAheadSize
      /\ taken \in Seq(Literal) /\ absolute_position_ \in Nat
  BY <1>1, SoundFinder
<1>3. /\ chain_ \in Seq(Nat) /\ \A a \in cut_off : a \in Nat
  BY <1>1, SoundFinder, Zenon DEF Indexed, Bounds, ChainsSound
<1>4. ASSUME NEW p \in DOMAIN starts
      PROVE  p \in Pattern /\ starts[p] \in Nat
  <2>1. /\ starts[p] \in Nat /\ HasPattern(Bytes(Finder), starts[p])
        /\ p = PatternOf(Bytes(Finder), starts[p])
    BY <1>1, Reached, Zenon
  <2>2. Bytes(Finder) \in Seq(Literal) /\ Len(Bytes(Finder)) \in Nat
    BY <1>1, SoundFinder
  <2> DEFINE a == starts[p]
             b == Bytes(Finder)
  <2>3. a + 1 \in 1 .. Len(b) /\ a + 2 \in 1 .. Len(b) /\ a + 3 \in 1 .. Len(b)
    <3> HIDE DEF a, b
    <3> QED  BY <2>1, <2>2 DEF HasPattern, a, b
  <2>4. b[a + 1] \in Literal /\ b[a + 2] \in Literal /\ b[a + 3] \in Literal
    BY <2>2, <2>3, ElementOfSeq, Zenon
  <2>5. p = <<b[a + 1], b[a + 2], b[a + 3]>>
    BY <2>1, Zenon DEF PatternOf
  <2> HIDE DEF a, b
  <2> QED  BY <2>1, <2>4, <2>5 DEF Pattern, a
<1>5. /\ back_reference_.distance \in 0 .. LookBackSize
      /\ back_reference_.length \in {0} \cup 3 .. LookAheadSize
  <2>1. CASE back_reference_ = NoBackReference
    BY <2>1, LzssAssumption DEF NoBackReference
  <2>2. CASE back_reference_ # NoBackReference
    <3>1. /\ back_reference_ = FindBestBackReference
          /\ FindBestBackReference # NoBackReference
      BY <2>2, Zenon DEF IInv
    <3>2. PICK distance \in 1 .. LookBackSize, length \in 3 .. Len(look_ahead_) :
                 FindBestBackReference = [distance |-> distance, length |-> length]
      BY <1>1, <3>1, SoundReference, Zenon
    <3>3. back_reference_.distance = distance /\ back_reference_.length = length
      BY <3>1, <3>2
    <3>4. Len(look_ahead_) \in Nat
      BY <1>1, SoundFinder
    <3> QED  BY <1>2, <3>2, <3>3, <3>4, LzssAssumption
  <2> QED  BY <2>1, <2>2
<1>6. DOMAIN starts \subseteq Pattern /\ cut_off \subseteq Nat
  BY <1>3, <1>4, Zenon
<1> QED
  BY <1>2, <1>3, <1>4, <1>5, <1>6, Zenon DEF TypeOK

LEMMA SoundCache ==
  ASSUME IInv
  PROVE  CacheFresh
<1>1. NoBackReference.length = 0
  BY DEF NoBackReference
<1>2. ~(0 > 0)
  OBVIOUS
<1> QED
  BY <1>1, <1>2, Zenon DEF IInv, CacheFresh

\* A reference in the cache fits, and repeats what waits.
LEMMA CachedReference ==
  ASSUME IInv, back_reference_.length > 0
  PROVE  \E distance \in 1 .. LookBackSize, length \in 3 .. Len(look_ahead_) :
           /\ back_reference_ = [distance |-> distance, length |-> length]
           /\ distance <= Len(taken)
           /\ Repeated(distance, length) = SubSeq(look_ahead_, 1, length)
<1>1. back_reference_ # NoBackReference
  <2>1. NoBackReference.length = 0 /\ ~(0 > 0)
    BY DEF NoBackReference
  <2> QED  BY <2>1, Zenon
<1>2. back_reference_ = FindBestBackReference /\ Sound(Finder)
  BY <1>1, Zenon DEF IInv
<1> QED
  BY <1>1, <1>2, SoundReference, Zenon

-----------------------------------------------------------------------------
(***************************************************************************)
(* Every step keeps it.                                                    *)
(***************************************************************************)
LEMMA InitSound ==
  ASSUME Init
  PROVE  IInv
<1> DEFINE f == Finder
<1>1. /\ f = [look_back |-> <<>>, look_ahead |-> <<>>, chain |-> <<>>, starts |-> <<>>,
              position |-> 1, taken |-> <<>>, cut_off |-> {}]
  BY DEF Finder, Init
<1>2. /\ f.look_back = <<>> /\ f.look_ahead = <<>> /\ f.chain = <<>> /\ f.starts = <<>>
      /\ f.position = 1 /\ f.taken = <<>> /\ f.cut_off = {}
  BY <1>1
<1>3. <<>> \in Seq(Literal) /\ <<>> \in Seq(Nat) /\ Len(<<>>) = 0 /\ DOMAIN <<>> = {}
  OBVIOUS
<1>4. FirstOf(f) = 0 /\ Bytes(f) = <<>>
  BY <1>2 DEF FirstOf, Bytes
<1>5. Window(f)
  <2>1. \A i \in 1 .. Len(f.look_back) : f.look_back[i] = f.taken[FirstOf(f) + i]
    BY <1>2, <1>3
  <2>2. /\ Len(f.look_back) <= LookBackSize /\ Len(f.look_ahead) <= LookAheadSize
        /\ Len(f.look_back) <= Len(f.taken) /\ f.position = Len(f.taken) + 1
    BY <1>2, <1>3, LzssAssumption
  <2>3. f = [look_back |-> f.look_back, look_ahead |-> f.look_ahead,
             chain |-> f.chain, starts |-> f.starts, position |-> f.position,
             taken |-> f.taken, cut_off |-> f.cut_off]
    BY <1>1, <1>2, Zenon
  <2>4. /\ f.look_back \in Seq(Literal) /\ f.look_ahead \in Seq(Literal)
        /\ f.taken \in Seq(Literal)
    BY <1>2, <1>3, Zenon
  <2> QED  BY <2>1, <2>2, <2>3, <2>4, Zenon DEF Window
<1>6. Indexed(<<>>, 0, 0, <<>>, <<>>, {})
  <2>1. Bounds(<<>>, 0, 0, {})
    BY DEF Bounds
  <2>2. <<>> = [p \in DOMAIN <<>> |-> <<>>[p]]
    OBVIOUS
  <2>3. StartsSound(<<>>, 0, 0, <<>>, {})
    BY <1>3, <2>2, Zenon DEF StartsSound
  <2>4. 0 .. 0 - 1 = {} /\ Len(<<>>) = 0 - 0
    OBVIOUS
  <2>5. ChainsSound(<<>>, 0, 0, <<>>, {})
    BY <1>3, <2>4, Zenon DEF ChainsSound
  <2>6. Complete(<<>>, 0, 0, <<>>, <<>>, {})
    BY <2>4, Zenon DEF Complete
  <2> QED  BY <2>1, <2>3, <2>5, <2>6, Zenon DEF Indexed
<1>7. IndexedUpTo(f, Len(f.taken), f.cut_off)
  BY <1>2, <1>3, <1>4, <1>6, Zenon DEF IndexedUpTo
<1> QED
  BY <1>5, <1>7, Zenon DEF IInv, Sound, Init

LEMMA PutSound ==
  ASSUME IInv, Put
  PROVE  IInv'
<1> DEFINE f == Finder
           g == Finder'
<1>1. PICK literal \in Literal :
        look_ahead_' = Enqueued(look_ahead_, LookAheadSize, literal)
  BY Zenon DEF Put
<1>2. Sound(f)
  BY Zenon DEF IInv
<1>3. look_ahead_ \in Seq(Literal) /\ Len(look_ahead_) < LookAheadSize
      /\ taken \in Seq(Literal)
  BY <1>2, SoundFinder DEF Put
<1>4. look_ahead_' = Append(look_ahead_, literal)
  BY <1>1, <1>3, LzssAssumption DEF Enqueued
<1>5. g = [look_back |-> f.look_back, look_ahead |-> look_ahead_', chain |-> f.chain,
           starts |-> f.starts, position |-> f.position, taken |-> f.taken,
           cut_off |-> f.cut_off]
  BY FinderFields, Zenon DEF Finder, Put
<1>6. /\ g.look_back = f.look_back /\ g.look_ahead = look_ahead_' /\ g.chain = f.chain
      /\ g.starts = f.starts /\ g.position = f.position /\ g.taken = f.taken
      /\ g.cut_off = f.cut_off
  <2> HIDE DEF f, g
  <2> QED  BY <1>5
<1>7. look_ahead_' \in Seq(Literal) /\ Len(look_ahead_') <= LookAheadSize
  BY <1>3, <1>4, LzssAssumption
<1>8. Bytes(g) = Append(Bytes(f), literal) /\ FirstOf(g) = FirstOf(f)
  <2>1. taken \o Append(look_ahead_, literal) = Append(taken \o look_ahead_, literal)
    BY <1>3
  <2>2. Bytes(g) = taken \o look_ahead_' /\ Bytes(f) = taken \o look_ahead_
    BY <1>6, FinderFields, Zenon DEF Bytes
  <2>3. FirstOf(g) = FirstOf(f)
    BY <1>6, Zenon DEF FirstOf
  <2> QED  BY <1>4, <2>1, <2>2, <2>3, Zenon
<1>9. Window(g)
  <2> HIDE DEF f, g
  <2>1. g = [look_back |-> g.look_back, look_ahead |-> g.look_ahead, chain |-> g.chain,
             starts |-> g.starts, position |-> g.position, taken |-> g.taken,
             cut_off |-> g.cut_off]
    BY <1>5, <1>6, Zenon
  <2> QED  BY <1>2, <1>6, <1>7, <1>8, <2>1, Zenon DEF Sound, Window
<1>10. IndexedUpTo(g, Len(g.taken), g.cut_off)
  <2> HIDE DEF f, g
  <2>1. Indexed(Bytes(f), FirstOf(f), Len(f.taken), f.chain, f.starts, f.cut_off)
    BY <1>2, Zenon DEF Sound, IndexedUpTo
  <2> QED  BY <1>6, <1>8, <2>1, IndexedMoreBytes, Zenon DEF IndexedUpTo
<1> QED
  BY <1>9, <1>10, Zenon DEF IInv, Sound, Put

\* Nothing the search reads has changed.
LEMMA SameFinder ==
  ASSUME UNCHANGED <<look_back_, look_ahead_, chain_,
                     start_absolute_by_length_three_pattern_, absolute_position_,
                     taken, cut_off>>
  PROVE  Finder' = Finder /\ FindBestBackReference' = FindBestBackReference
<1>1. Finder' = Finder
  BY DEF Finder
<1>2. ASSUME NEW a
      PROVE  MatchLength(a)' = MatchLength(a)
  BY <1>1 DEF MatchLength
<1>3. ASSUME NEW best, NEW a
      PROVE  Longer(best, a)' = Longer(best, a)
  BY <1>1, <1>2 DEF Longer
<1>4. ASSUME NEW a
      PROVE  Occurrences(a)' = Occurrences(a)
  BY <1>1 DEF Occurrences
<1>5. ASSUME NEW s
      PROVE  LongestOf(s)' = LongestOf(s)
  BY <1>1, <1>3 DEF LongestOf
<1> QED
  BY <1>1, <1>4, <1>5 DEF FindBestBackReference

LEMMA BackReferenceSound ==
  ASSUME IInv, BackReference
  PROVE  IInv'
<1>1. Finder' = Finder /\ FindBestBackReference' = FindBestBackReference
  BY SameFinder, Zenon DEF BackReference
<1>2. back_reference_' = back_reference_ \/ back_reference_' = FindBestBackReference
  BY Zenon DEF BackReference, CachedBackReference
<1> QED
  BY <1>1, <1>2, Zenon DEF IInv

LEMMA BecomeFinder ==
  ASSUME NEW g, Window(g), Become(g)
  PROVE  Finder' = g
BY Zenon DEF Become, Finder, Window

LEMMA TakeLiteralSound ==
  ASSUME IInv, TakeLiteral
  PROVE  IInv'
<1>1. /\ Sound(Finder) /\ Finder.look_ahead # <<>>
      /\ Become(TakeLiteral_(Finder)) /\ back_reference_' = NoBackReference
  BY FinderFields, Zenon DEF IInv, TakeLiteral
<1>2. Sound(TakeLiteral_(Finder))
  BY <1>1, TakeStep, Zenon
<1>3. Finder' = TakeLiteral_(Finder)
  BY <1>1, <1>2, BecomeFinder, Zenon DEF Sound
<1> QED
  BY <1>1, <1>2, <1>3, Zenon DEF IInv

LEMMA TakeBackReferenceFits ==
  ASSUME IInv, TakeBackReference
  PROVE  /\ back_reference_.length \in Nat
         /\ back_reference_.length <= Len(Finder.look_ahead)
<1>1. PICK distance \in 1 .. LookBackSize, length \in 3 .. Len(look_ahead_) :
             back_reference_ = [distance |-> distance, length |-> length]
  BY CachedReference, Zenon DEF TakeBackReference
<1>2. back_reference_.length = length
  BY <1>1
<1>3. Len(look_ahead_) \in Nat
  BY SoundFinder DEF IInv
<1>4. length \in Nat /\ length <= Len(look_ahead_)
  BY <1>3
<1> QED
  BY <1>2, <1>4, FinderFields, Zenon

LEMMA TakeBackReferenceSound ==
  ASSUME IInv, TakeBackReference
  PROVE  IInv'
<1>1. /\ Sound(Finder) /\ Become(Taken(Finder, back_reference_.length))
      /\ back_reference_' = NoBackReference
  BY Zenon DEF IInv, TakeBackReference
<1>2. Sound(Taken(Finder, back_reference_.length))
  BY <1>1, TakeBackReferenceFits, TakenSteps, Zenon
<1>3. Finder' = Taken(Finder, back_reference_.length)
  BY <1>1, <1>2, BecomeFinder, Zenon DEF Sound
<1> QED
  BY <1>1, <1>2, <1>3, Zenon DEF IInv

LEMMA StepSound ==
  ASSUME IInv, [Next]_vars
  PROVE  IInv'
<1>1. CASE Put
  BY <1>1, PutSound
<1>2. CASE BackReference
  BY <1>2, BackReferenceSound
<1>3. CASE TakeLiteral
  BY <1>3, TakeLiteralSound
<1>4. CASE TakeBackReference
  BY <1>4, TakeBackReferenceSound
<1>5. CASE UNCHANGED vars
  <2>1. Finder' = Finder /\ FindBestBackReference' = FindBestBackReference
    BY <1>5, SameFinder DEF vars
  <2>2. back_reference_' = back_reference_
    BY <1>5 DEF vars
  <2> QED  BY <2>1, <2>2, Zenon DEF IInv
<1> QED
  BY <1>1, <1>2, <1>3, <1>4, <1>5, Zenon DEF Next

LEMMA SpecSound == Spec => []IInv
<1>1. Init => IInv
  BY InitSound
<1>2. IInv /\ [Next]_vars => IInv'
  BY StepSound
<1> QED
  BY <1>1, <1>2, PTL DEF Spec

-----------------------------------------------------------------------------
(***************************************************************************)
(* The theorems.                                                           *)
(***************************************************************************)
\* The window and the look-ahead keep to their capacities, and a cached
\* reference to the distances and lengths that DEFLATE has.
THEOREM TypeCorrect == Spec => []TypeOK
<1>1. IInv => TypeOK
  BY SoundTypes
<1> QED
  BY <1>1, SpecSound, PTL

\* Lzss::remove_pattern and Lzss::add_pattern: an entry of the hash map never
\* outlives the bytes it points at, and names the bytes that stand there.
THEOREM IndexIsSound == Spec => []IndexSound
<1>1. IInv => IndexSound
  BY SoundIndex DEF IInv
<1> QED
  BY <1>1, SpecSound, PTL

\* The chain stays aligned with look_back_, and each link in the window leads
\* to an earlier start of the same pattern: the search ends.
THEOREM ChainIsSound == Spec => []ChainSound
<1>1. IInv => ChainSound
  BY SoundChain DEF IInv
<1> QED
  BY <1>1, SpecSound, PTL

\* From the hash map the chain leads to every visible start of a pattern, the
\* nearest first.
THEOREM IndexIsComplete == Spec => []IndexComplete
<1>1. IInv => IndexComplete
  BY SoundComplete DEF IInv
<1> QED
  BY <1>1, SpecSound, PTL

\* Lzss::put, Lzss::take_literal and Lzss::take_back_reference: a cached
\* reference is the one that would be found now.
THEOREM CacheIsFresh == Spec => []CacheFresh
<1>1. IInv => CacheFresh
  BY SoundCache
<1> QED
  BY <1>1, SpecSound, PTL

\* Lzss::find_best_back_reference gives the longest match at a visible
\* position, and of several as long the nearest.
THEOREM LongestIsFound == Spec => []LongestFound
<1>1. IInv => LongestFound
  BY SoundLongest DEF IInv
<1> QED
  BY <1>1, SpecSound, PTL

-----------------------------------------------------------------------------
(***************************************************************************)
(* The match finder implements what an LZSS encoder promises its decoder.  *)
(***************************************************************************)
\* The bytes that are taken are the ones that waited first.
LEMMA PrefixOfSame ==
  ASSUME NEW s \in Seq(Literal), NEW t \in Seq(Literal),
         NEW u \in Seq(Literal), NEW v \in Seq(Literal),
         NEW l \in Nat, l <= Len(t), s \o t = u \o v, Len(u) = Len(s) + l
  PROVE  u = s \o SubSeq(t, 1, l)
<1> DEFINE q == SubSeq(t, 1, l)
           w == s \o q
<1>1. q \in Seq(Literal) /\ Len(q) = l /\ \A i \in 1 .. l : q[i] = t[i]
  OBVIOUS
<1>2. w \in Seq(Literal) /\ Len(w) = Len(s) + l
  BY <1>1
<1>3. ASSUME NEW i \in 1 .. Len(s) + l
      PROVE  u[i] = w[i]
  <2>1. u[i] = (u \o v)[i]
    OBVIOUS
  <2>2. (s \o t)[i] = IF i <= Len(s) THEN s[i] ELSE t[i - Len(s)]
    OBVIOUS
  <2>3. w[i] = IF i <= Len(s) THEN s[i] ELSE q[i - Len(s)]
    <3> HIDE DEF q
    <3> QED  BY <1>1
  <2>4. ~(i <= Len(s)) => q[i - Len(s)] = t[i - Len(s)]
    <3>1. ~(i <= Len(s)) => i - Len(s) \in 1 .. l
      OBVIOUS
    <3> HIDE DEF q
    <3> QED  BY <1>1, <3>1
  <2> HIDE DEF w, q
  <2> QED  BY <2>1, <2>2, <2>3, <2>4
<1> HIDE DEF w, q
<1>4. Len(u) = Len(w) /\ \A i \in 1 .. Len(u) : u[i] = w[i]
  BY <1>2, <1>3
<1>5. u = w
  BY <1>2, <1>4, SeqEqual
<1> QED
  BY <1>5 DEF w, q

LEMMA InitRefines ==
  ASSUME Init
  PROVE  Coder!Init
BY DEF Init, Coder!Init

LEMMA PutRefines ==
  ASSUME IInv, Put
  PROVE  Coder!Put
<1>1. PICK literal \in Literal :
        look_ahead_' = Enqueued(look_ahead_, LookAheadSize, literal)
  BY Zenon DEF Put
<1>2. Len(look_ahead_) < LookAheadSize /\ look_ahead_ \in Seq(Literal)
  BY SoundFinder DEF Put, IInv
<1>3. look_ahead_' = Append(look_ahead_, literal)
  BY <1>1, <1>2, LzssAssumption DEF Enqueued
<1>4. UNCHANGED <<taken, token>>
  BY DEF Put
<1> QED
  BY <1>3, <1>4, Zenon DEF Coder!Put

LEMMA TakeLiteralRefines ==
  ASSUME IInv, TakeLiteral
  PROVE  Coder!Code
<1>1. /\ Sound(Finder) /\ Finder.look_ahead # <<>> /\ Become(TakeLiteral_(Finder))
      /\ token' = <<"literal", Head(look_ahead_)>>
  BY FinderFields, Zenon DEF IInv, TakeLiteral
<1>2. /\ taken' = Append(taken, Head(look_ahead_)) /\ look_ahead_' = Tail(look_ahead_)
  BY <1>1, TakeStep, FinderFields, Zenon DEF Become
<1>3. taken \in Seq(Literal) /\ look_ahead_ \in Seq(Literal) /\ look_ahead_ # <<>>
  BY <1>1, SoundFinder, FinderFields
<1>4. Head(look_ahead_) \in Literal
  BY <1>3
<1>5. token' \in Coder!Tokens
  BY <1>1, <1>4 DEF Coder!Tokens
<1>6. token' \notin Coder!References
  BY <1>1 DEF Coder!References
<1>7. token'[2] = Head(look_ahead_)
  BY <1>1
<1>8. taken' \o look_ahead_' = taken \o look_ahead_
  <2>1. Bytes(TakeLiteral_(Finder)) = Bytes(Finder)
    BY <1>1, TakeStep, Zenon
  <2> QED  BY <1>1, <2>1, FinderFields, Zenon DEF Become, Bytes
<1> QED
  BY <1>2, <1>5, <1>6, <1>7, <1>8, Zenon DEF Coder!Code

LEMMA TakeBackReferenceRefines ==
  ASSUME IInv, TakeBackReference
  PROVE  Coder!Code
<1>1. PICK distance \in 1 .. LookBackSize, length \in 3 .. Len(look_ahead_) :
        /\ back_reference_ = [distance |-> distance, length |-> length]
        /\ distance <= Len(taken)
        /\ Repeated(distance, length) = SubSeq(look_ahead_, 1, length)
  BY CachedReference, Zenon DEF TakeBackReference
<1>2. back_reference_.distance = distance /\ back_reference_.length = length
  BY <1>1
<1> DEFINE g == Taken(Finder, length)
<1>3. /\ Sound(Finder) /\ Become(g)
      /\ token' = <<"reference", distance, length>>
  BY <1>2, Zenon DEF IInv, TakeBackReference
<1>4. /\ taken \in Seq(Literal) /\ look_ahead_ \in Seq(Literal)
      /\ Len(look_ahead_) \in Nat /\ Len(look_ahead_) <= LookAheadSize
  BY <1>3, SoundFinder
<1>5. length \in Nat /\ length <= Len(look_ahead_) /\ length \in 3 .. LookAheadSize
  BY <1>4, LzssAssumption
<1>6. Sound(g) /\ Bytes(g) = Bytes(Finder) /\ Len(g.taken) = Len(taken) + length
  BY <1>3, <1>5, TakenSteps, FinderFields, Zenon
<1>7. taken' \o look_ahead_' = taken \o look_ahead_
  BY <1>3, <1>6, FinderFields, Zenon DEF Become, Bytes
<1>8. taken' = taken \o SubSeq(look_ahead_, 1, length)
  <2>1. /\ taken' \in Seq(Literal) /\ look_ahead_' \in Seq(Literal)
        /\ Len(taken') = Len(taken) + length
    BY <1>3, <1>6, Zenon DEF Become, Sound, Window
  <2> QED  BY <1>4, <1>5, <1>7, <2>1, PrefixOfSame
<1>9. taken' = Coder!Copied(taken, distance, length)
  BY <1>1, <1>8, Zenon DEF Coder!Copied, Repeated
<1>10. token' \in Coder!References /\ token' \in Coder!Tokens
  BY <1>3, <1>5 DEF Coder!References, Coder!Tokens
<1>11. token'[2] = distance /\ token'[3] = length
  BY <1>3
<1> QED
  BY <1>1, <1>7, <1>9, <1>10, <1>11, Zenon DEF Coder!Code

LEMMA StepRefines ==
  ASSUME IInv, [Next]_vars
  PROVE  [Coder!Next]_Coder!vars
<1>1. CASE Put
  BY <1>1, PutRefines DEF Coder!Next
<1>2. CASE BackReference
  BY <1>2 DEF BackReference, Coder!vars
<1>3. CASE TakeLiteral
  BY <1>3, TakeLiteralRefines DEF Coder!Next
<1>4. CASE TakeBackReference
  BY <1>4, TakeBackReferenceRefines DEF Coder!Next
<1>5. CASE UNCHANGED vars
  BY <1>5 DEF vars, Coder!vars
<1> QED
  BY <1>1, <1>2, <1>3, <1>4, <1>5, Zenon DEF Next

\* A decoder that is given the tokens, literals and references, rebuilds the
\* bytes that were put, in their order.
THEOREM Refinement == Spec => ImplementsCoder
<1>1. Init => Coder!Init
  BY InitRefines
<1>2. IInv /\ [Next]_vars => [Coder!Next]_Coder!vars
  BY StepRefines
<1> QED
  BY <1>1, <1>2, SpecSound, PTL DEF Spec, ImplementsCoder, Coder!Spec

=============================================================================

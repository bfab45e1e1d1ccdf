---- MODULE Streams_proofs ----
(***************************************************************************)
(* Proofs about the two components that pass on a stream of frames, for    *)
(* every number of frames and, where they apply, of tool calls, and for    *)
(* every interval, timeout and handshake ceiling.                          *)
(*                                                                         *)
(* Both put frames or calls in order by their positions (Ascending), and   *)
(* share the facts about that: the sequence of the members of a finite set *)
(* exists, by induction in the form every set of numbers has a least one,  *)
(* there is only one, and a greater number goes to its end.                *)
(*                                                                         *)
(* CompletionStream: what the reason route charges for, how the agent's    *)
(* client is given tool calls and told the end. RealtimeRelay: that the    *)
(* frames of the client go through a FrameChannel, whose answers it is     *)
(* shown, the life of the heartbeat timer, the two sides of the heartbeat  *)
(* (no live peer is cut, no dead one goes unnoticed), and the close code   *)
(* of a rejected handshake.                                                *)
(***************************************************************************)
EXTENDS CompletionStream, RealtimeRelay, Integers, SequenceTheorems, FiniteSetTheorems,
        WellFoundedInduction, TLAPS

---------------------------------------------------------------------------
(* Numbers in order                                                        *)

LEMMA Least ==
  ASSUME NEW S \in SUBSET Nat, S # {}
  PROVE  \E m \in S : \A k \in S : m <= k
<1>1. PICK m \in S : \A k \in S : ~ (<<k, m>> \in OpToRel(<, Nat))
  BY NatLessThanWellFounded, WFMin, Zenon
<1>2. \A k \in S : ~(k < m)
  BY <1>1, Zenon DEF OpToRel
<1> QED BY <1>2

LEMMA Induction ==
  ASSUME NEW I \in SUBSET Nat, 0 \in I, \A n \in I : n + 1 \in I
  PROVE  I = Nat
<1> SUFFICES ASSUME Nat \ I # {} PROVE FALSE
  OBVIOUS
<1>1. PICK m \in Nat \ I : \A k \in Nat \ I : m <= k
  BY Least
<1>2. m # 0 /\ m - 1 \in Nat
  BY <1>1
<1>3. m - 1 \in I
  BY <1>1, <1>2
<1> QED
  BY <1>1, <1>2, <1>3

LEMMA InOrderExists ==
  ASSUME NEW S \in SUBSET Nat, IsFiniteSet(S)
  PROVE  \E s \in [1 .. Cardinality(S) -> S] : Increases(s) /\ Members(s) = S
<1> DEFINE Has(T) == \E s \in [1 .. Cardinality(T) -> T] : Increases(s) /\ Members(s) = T
           I == {n \in Nat : \A T \in SUBSET Nat : IsFiniteSet(T) /\ Cardinality(T) = n => Has(T)}
<1>1. 0 \in I
  <2> SUFFICES ASSUME NEW T \in SUBSET Nat, IsFiniteSet(T), Cardinality(T) = 0 PROVE Has(T)
    OBVIOUS
  <2>1. T = {}
    BY FS_EmptySet
  <2>2. [j \in 1 .. 0 |-> 0] \in [1 .. Cardinality(T) -> T]
    BY <2>1
  <2>3. Increases([j \in 1 .. 0 |-> 0]) /\ Members([j \in 1 .. 0 |-> 0]) = T
    BY <2>1 DEF Increases, Members
  <2> QED
    BY <2>2, <2>3
<1>2. ASSUME NEW n \in I PROVE n + 1 \in I
  <2> SUFFICES ASSUME NEW T \in SUBSET Nat, IsFiniteSet(T), Cardinality(T) = n + 1 PROVE Has(T)
    OBVIOUS
  <2>1. T # {}
    BY FS_EmptySet
  <2>2. PICK m \in T : \A k \in T : m <= k
    BY <2>1, Least
  <2>3. IsFiniteSet(T \ {m}) /\ Cardinality(T \ {m}) = n
    <3>1. IsFiniteSet(T \ {m}) /\ Cardinality(T \ {m}) = Cardinality(T) - 1
      BY FS_RemoveElement
    <3> QED
      BY <3>1
  <2>4. PICK s \in [1 .. n -> T \ {m}] : Increases(s) /\ Members(s) = T \ {m}
    BY <2>3
  <2> DEFINE t == [j \in 1 .. n + 1 |-> IF j = 1 THEN m ELSE s[j - 1]]
  <2>5. \A j \in 2 .. n + 1 : j - 1 \in 1 .. n /\ t[j] = s[j - 1] /\ t[j] \in T \ {m}
    OBVIOUS
  <2>6. t[1] = m /\ t \in [1 .. n + 1 -> T]
    BY <2>5
  <2>7. Increases(t)
    <3> SUFFICES ASSUME NEW j \in 1 .. n + 1, NEW k \in 1 .. n + 1, j < k PROVE t[j] < t[k]
      BY DEF Increases
    <3>1. k \in 2 .. n + 1
      OBVIOUS
    <3>2. CASE j = 1
      <4>1. t[k] \in T \ {m} /\ t[j] = m
        BY <2>5, <2>6, <3>1, <3>2
      <4>2. \A x \in T \ {m} : m < x
        BY <2>2
      <4> HIDE DEF t
      <4> QED
        BY <4>1, <4>2
    <3>3. CASE j # 1
      <4>1. j \in 2 .. n + 1 /\ j - 1 < k - 1
        BY <3>3
      <4>2. s[j - 1] < s[k - 1]
        BY <2>4, <2>5, <3>1, <4>1 DEF Increases
      <4> QED
        BY <2>5, <3>1, <4>1, <4>2
    <3> QED
      BY <3>2, <3>3
  <2>8. Members(t) = T
    <3>1. ASSUME NEW x \in T PROVE \E j \in 1 .. n + 1 : t[j] = x
      <4>1. CASE x = m
        BY <2>6, <4>1
      <4>2. CASE x # m
        <5>1. PICK j \in 1 .. n : s[j] = x
          BY <2>4, <4>2 DEF Members
        <5>2. j + 1 \in 2 .. n + 1 /\ (j + 1) - 1 = j
          OBVIOUS
        <5> QED
          BY <2>5, <5>1, <5>2
      <4> QED
        BY <4>1, <4>2
    <3> HIDE DEF t
    <3>2. DOMAIN t = 1 .. n + 1 /\ \A j \in 1 .. n + 1 : t[j] \in T
      BY <2>6
    <3>3. Members(t) = {t[j] : j \in 1 .. n + 1}
      BY <3>2 DEF Members
    <3>4. {t[j] : j \in 1 .. n + 1} = T
      BY <3>1, <3>2
    <3> QED
      BY <3>3, <3>4
  <2> QED
    BY <2>6, <2>7, <2>8
<1>3. I = Nat
  <2> HIDE DEF I
  <2>1. I \in SUBSET Nat
    BY DEF I
  <2> QED
    BY <1>1, <1>2, <2>1, Induction
<1>4. Cardinality(S) \in Nat
  BY FS_CardinalityType
<1> QED
  BY <1>3, <1>4

LEMMA InOrderProps ==
  ASSUME NEW S \in SUBSET Nat, IsFiniteSet(S)
  PROVE  /\ InOrder(S) \in Seq(Nat)
         /\ Len(InOrder(S)) = Cardinality(S)
         /\ Increases(InOrder(S))
         /\ Members(InOrder(S)) = S
<1>1. /\ InOrder(S) \in [1 .. Cardinality(S) -> S]
      /\ Increases(InOrder(S)) /\ Members(InOrder(S)) = S
  BY InOrderExists DEF InOrder
<1>2. Cardinality(S) \in Nat
  BY FS_CardinalityType
<1>3. InOrder(S) \in [1 .. Cardinality(S) -> Nat]
  BY <1>1
<1>4. InOrder(S) \in Seq(Nat) /\ Len(InOrder(S)) = Cardinality(S)
  BY <1>2, <1>3
<1> QED
  BY <1>1, <1>4

\* There is only one such sequence.
LEMMA InOrderUnique ==
  ASSUME NEW s \in Seq(Nat), NEW t \in Seq(Nat), Increases(s), Increases(t),
         Members(s) = Members(t)
  PROVE  s = t
<1>1. \A k \in DOMAIN s \cap DOMAIN t : s[k] = t[k]
  <2> DEFINE D == {k \in DOMAIN s \cap DOMAIN t : s[k] # t[k]}
  <2> SUFFICES ASSUME D # {} PROVE FALSE
    OBVIOUS
  <2>1. D \in SUBSET Nat
    OBVIOUS
  <2>2. PICK k \in D : \A j \in D : k <= j
    BY <2>1, Least
  <2>3. ASSUME NEW x \in Seq(Nat), NEW y \in Seq(Nat), Increases(x), Increases(y),
               Members(x) = Members(y), k \in DOMAIN x, k \in DOMAIN y, x[k] < y[k],
               \A j \in DOMAIN x \cap DOMAIN y : j < k => x[j] = y[j]
        PROVE  FALSE
    <3>1. PICK j \in DOMAIN y : y[j] = x[k]
      BY <2>3 DEF Members
    <3>0. x[k] \in Nat /\ y[k] \in Nat /\ y[j] \in Nat /\ k \in Nat /\ j \in Nat
      <4>1. /\ x \in [1 .. Len(x) -> Nat] /\ DOMAIN x = 1 .. Len(x) /\ Len(x) \in Nat
            /\ y \in [1 .. Len(y) -> Nat] /\ DOMAIN y = 1 .. Len(y) /\ Len(y) \in Nat
        BY LenProperties
      <4>2. k \in 1 .. Len(x) /\ k \in 1 .. Len(y) /\ j \in 1 .. Len(y)
        BY <2>3, <4>1
      <4>3. x[k] \in Nat /\ y[k] \in Nat /\ y[j] \in Nat
        BY <4>1, <4>2
      <4>4. k \in Nat
        BY <2>1
      <4>5. j \in Nat
        BY <4>1, <4>2
      <4> QED
        BY <4>3, <4>4, <4>5
    <3>2. CASE j < k
      <4>1. j \in DOMAIN x
        BY <2>3, <3>2
      <4>2. x[j] < x[k]
        BY <2>3, <3>2, <4>1 DEF Increases
      <4> QED
        BY <2>3, <3>0, <3>1, <3>2, <4>1, <4>2
    <3>3. CASE k < j
      <4>1. y[k] < y[j]
        BY <2>3, <3>3 DEF Increases
      <4> QED
        BY <2>3, <3>0, <3>1, <4>1
    <3>4. CASE j = k
      BY <2>3, <3>0, <3>1, <3>4
    <3> QED
      BY <3>0, <3>2, <3>3, <3>4
  <2>4. \A j \in DOMAIN s \cap DOMAIN t : j < k => s[j] = t[j]
    BY <2>2
  <2>5. s[k] \in Nat /\ t[k] \in Nat /\ s[k] # t[k] /\ k \in DOMAIN s /\ k \in DOMAIN t
    BY <2>2
  <2>6. s[k] < t[k] \/ t[k] < s[k]
    BY <2>5
  <2> QED
    BY <2>3, <2>4, <2>5, <2>6
<1>2. ASSUME NEW x \in Seq(Nat), NEW y \in Seq(Nat), Increases(x), Increases(y),
             Members(x) = Members(y), Len(x) < Len(y),
             \A k \in DOMAIN x \cap DOMAIN y : x[k] = y[k]
      PROVE  FALSE
  <2> DEFINE m == Len(x) + 1
  <2>1. m \in DOMAIN y
    BY <1>2
  <2>2. PICK j \in DOMAIN x : x[j] = y[m]
    BY <1>2, <2>1 DEF Members
  <2>3. j \in DOMAIN y /\ j < m
    BY <1>2
  <2>4. y[j] < y[m] /\ y[j] = y[m]
    BY <1>2, <2>1, <2>2, <2>3 DEF Increases
  <2>5. y[j] \in Nat
    BY <2>3
  <2> QED
    BY <2>4, <2>5
<1>3. Len(s) = Len(t)
  <2>1. Len(s) \in Nat /\ Len(t) \in Nat
    OBVIOUS
  <2>2. ~(Len(s) < Len(t)) /\ ~(Len(t) < Len(s))
    BY <1>1, <1>2
  <2> QED
    BY <2>1, <2>2
<1>4. \A k \in 1 .. Len(s) : s[k] = t[k]
  BY <1>1, <1>3, LenProperties
<1>5. s \in Seq(Nat) /\ t \in Seq(Nat)
  OBVIOUS
<1> QED
  BY <1>3, <1>4, <1>5, SeqEqual

\* A greater number goes to the end.
LEMMA InOrderAppend ==
  ASSUME NEW S \in SUBSET Nat, IsFiniteSet(S), NEW m \in Nat, \A k \in S : k < m
  PROVE  InOrder(S \cup {m}) = Append(InOrder(S), m)
<1> DEFINE s == InOrder(S)
           t == Append(s, m)
<1>1. s \in Seq(Nat) /\ Increases(s) /\ Members(s) = S
  BY InOrderProps
<1> HIDE DEF s
<1>2. /\ t \in Seq(Nat) /\ DOMAIN t = DOMAIN s \cup {Len(s) + 1}
      /\ DOMAIN s = 1 .. Len(s) /\ Len(s) \in Nat
      /\ \A j \in DOMAIN s : t[j] = s[j] /\ s[j] \in S
      /\ t[Len(s) + 1] = m
  <2>1. s \in Seq(Nat) /\ DOMAIN s = 1 .. Len(s) /\ Len(s) \in Nat
    BY <1>1
  <2>2. \A j \in DOMAIN s : s[j] \in S
    BY <1>1 DEF Members
  <2>3. t \in Seq(Nat) /\ DOMAIN t = 1 .. Len(s) + 1
    BY <2>1
  <2> QED
    BY <2>1, <2>2, <2>3
<1> HIDE DEF t
<1>3. Increases(t)
  <2> SUFFICES ASSUME NEW j \in DOMAIN t, NEW k \in DOMAIN t, j < k PROVE t[j] < t[k]
    BY DEF Increases
  <2>1. j \in DOMAIN s
    BY <1>2
  <2>2. CASE k \in DOMAIN s
    BY <1>1, <1>2, <2>1, <2>2 DEF Increases
  <2>3. CASE k = Len(s) + 1
    BY <1>2, <2>1, <2>3
  <2> QED
    BY <1>2, <2>2, <2>3
<1>4. Members(t) = S \cup {m}
  <2>1. ASSUME NEW x \in S PROVE \E j \in DOMAIN t : t[j] = x
    <3>1. PICK j \in DOMAIN s : s[j] = x
      BY <1>1 DEF Members
    <3> QED
      BY <1>2, <3>1
  <2>2. Len(s) + 1 \in DOMAIN t /\ t[Len(s) + 1] = m
    BY <1>2
  <2>3. \A j \in DOMAIN t : t[j] \in S \cup {m}
    BY <1>2
  <2> QED
    BY <2>1, <2>2, <2>3 DEF Members
<1>5. PICK T \in SUBSET Nat : T = S \cup {m} /\ IsFiniteSet(T)
  <2>1. IsFiniteSet(S \cup {m})
    BY FS_AddElement
  <2>2. S \cup {m} \in SUBSET Nat
    OBVIOUS
  <2> QED
    BY <2>1, <2>2
<1>6. InOrder(T) \in Seq(Nat) /\ Increases(InOrder(T)) /\ Members(InOrder(T)) = T
  BY <1>5, InOrderProps
<1>7. InOrder(T) = t
  BY <1>2, <1>3, <1>4, <1>5, <1>6, InOrderUnique
<1> QED
  BY <1>5, <1>7 DEF t, s

---------------------------------------------------------------------------
(* Lists of positions                                                      *)

\* s lists the positions of the frames in S among the first n of f.
Listing(s, S, n, f) ==
  /\ {s[j] : j \in DOMAIN s} = {k \in 1 .. n : f[k] \in S}
  /\ \A j, k \in DOMAIN s : j < k => s[j] < s[k]

\* A frame more: it goes to the end of the list it belongs to.
LEMMA ListingGrows ==
  ASSUME NEW s \in Seq(Nat), NEW S, NEW n \in Nat, NEW f, NEW g, Listing(s, S, n, f),
         \A k \in 1 .. n : g[k] = f[k]
  PROVE  /\ g[n + 1] \in S => Listing(Append(s, n + 1), S, n + 1, g)
         /\ g[n + 1] \notin S => Listing(s, S, n + 1, g)
<1> DEFINE m == n + 1
<1>1. m \in Nat /\ 1 .. m = (1 .. n) \cup {m} /\ m \notin 1 .. n
  OBVIOUS
<1>2. {s[j] : j \in DOMAIN s} = {k \in 1 .. n : f[k] \in S}
  BY DEF Listing
<1>3. \A i, j \in DOMAIN s : i < j => s[i] < s[j]
  BY DEF Listing
<1>4. \A j \in DOMAIN s : s[j] \in 1 .. n
  BY <1>2
<1>5. CASE g[m] \in S
  <2> DEFINE t == Append(s, m)
  <2>1. /\ DOMAIN t = DOMAIN s \cup {Len(s) + 1} /\ DOMAIN s = 1 .. Len(s) /\ Len(s) \in Nat
        /\ t[Len(s) + 1] = m /\ \A j \in DOMAIN s : t[j] = s[j]
    BY <1>1
  <2> HIDE DEF t
  <2>2. {t[j] : j \in DOMAIN t} = {s[j] : j \in DOMAIN s} \cup {m}
    BY <2>1
  <2> HIDE DEF m
  <2>3. {k \in 1 .. m : g[k] \in S} = {k \in 1 .. n : f[k] \in S} \cup {m}
    BY <1>1, <1>5
  <2>4. \A i, j \in DOMAIN t : i < j => t[i] < t[j]
    <3>1. \A j \in DOMAIN s : j < Len(s) + 1 /\ t[j] < m
      BY <1>4, <2>1 DEF m
    <3>2. \A i \in DOMAIN s, j \in DOMAIN s : i < j => t[i] < t[j]
      BY <1>3, <2>1
    <3>3. \A j \in DOMAIN s : ~(Len(s) + 1 < j)
      BY <2>1
    <3> QED
      BY <2>1, <3>1, <3>2, <3>3
  <2>5. {t[j] : j \in DOMAIN t} = {k \in 1 .. m : g[k] \in S}
    BY <1>2, <2>2, <2>3
  <2> QED
    BY <1>5, <2>4, <2>5 DEF Listing, t, m
<1>6. CASE g[m] \notin S
  <2> HIDE DEF m
  <2>1. {k \in 1 .. m : g[k] \in S} = {k \in 1 .. n : f[k] \in S}
    BY <1>1, <1>6
  <2> QED
    BY <1>2, <1>3, <1>6, <2>1 DEF Listing, m
<1> QED
  BY <1>5, <1>6

---------------------------------------------------------------------------
(* CompletionStream: the control, and what is read                         *)

\* The control of both routes, without the chunks and the accumulator.
Control ==
  /\ route \in Routes
  /\ stage \in Stages
  /\ body \in {"none", "open", "ended"}
  /\ fin \in {"no", "eof", "lost"}
  /\ left \in Stages \cup {"no"}
  /\ finish \in BOOLEAN /\ usage \in BOOLEAN /\ failed \in BOOLEAN

Data ==
  /\ sent \in Seq(Frames)
  /\ seen \in 0 .. Len(sent)
  /\ text \in Seq(Nat)

\* What has been read so far is what the flags and the text say.
IsUsage(f) == f.kind = "usage" \/ (Ends(f) /\ f.usage)

Read ==
  route = "reason" =>
    /\ finish <=> \E k \in 1 .. seen : Ends(sent[k])
    /\ usage <=> \E k \in 1 .. seen : IsUsage(sent[k])
    /\ failed <=> \E k \in 1 .. seen : sent[k].kind = "error"
    /\ \A j \in DOMAIN text : text[j] \in 1 .. seen
    /\ Lists(text, {[kind |-> "text"]})

\* A charge is made, or under way, for a stream that is read to its end and whole.
ReadWhole == route = "reason" /\ fin = "eof" /\ seen = Len(sent) /\ Whole

Charged ==
  /\ stage = "charging" => ReadWhole
  /\ row \/ reply = "ok" => stage = "over" /\ ReadWhole
  /\ reply = "ok" => row

\* The accumulator, and what the reason route has answered.
Replied ==
  /\ calls \in [Indices -> [named : BOOLEAN, args : Seq(Nat)]]
  /\ row \in BOOLEAN
  /\ reply \in {"none", "ok", "bad"}

StreamInv == Control /\ Data /\ Replied /\ Read /\ Charged

---------------------------------------------------------------------------

\* A frame of text is nothing but that.
LEMMA TextFrame ==
  ASSUME NEW f \in Frames
  PROVE  f \in {[kind |-> "text"]} <=> f.kind = "text"
BY DEF Frames, Pieces, Finishes

LEMMA InitHolds == Init => StreamInv
<1> SUFFICES ASSUME Init PROVE StreamInv
  OBVIOUS
<1>1. Control
  BY DEF Init, Control, Routes, Stages
<1>2. Data
  BY DEF Init, Data
<1>3. Charged
  BY DEF Init, Charged
<1>4. Read
  BY DEF Init, Read, Lists
<1>5. Absent \in [named : BOOLEAN, args : Seq(Nat)]
  BY DEF Absent
<1>6. Replied
  BY <1>5 DEF Init, Replied
<1> QED
  BY <1>1, <1>2, <1>3, <1>4, <1>6 DEF StreamInv

\* A step that reads nothing keeps what has been read, though frames may be added.
LEMMA ReadKept ==
  ASSUME Read, seen \in Nat, UNCHANGED <<route, seen, finish, usage, failed, text>>,
         \A k \in 1 .. seen : sent'[k] = sent[k]
  PROVE  Read'
<1> SUFFICES ASSUME route = "reason"
             PROVE  /\ finish <=> \E k \in 1 .. seen : Ends(sent'[k])
                    /\ usage <=> \E k \in 1 .. seen : IsUsage(sent'[k])
                    /\ failed <=> \E k \in 1 .. seen : sent'[k].kind = "error"
                    /\ \A j \in DOMAIN text : text[j] \in 1 .. seen
                    /\ {text[j] : j \in DOMAIN text} =
                         {k \in 1 .. seen : sent'[k] \in {[kind |-> "text"]}}
                    /\ \A j, k \in DOMAIN text : j < k => text[j] < text[k]
  BY DEF Read, Lists, Ends, IsUsage
<1>1. finish <=> \E k \in 1 .. seen : Ends(sent'[k])
  BY DEF Read, Ends
<1>2. usage <=> \E k \in 1 .. seen : IsUsage(sent'[k])
  BY DEF Read, Ends, IsUsage
<1>3. failed <=> \E k \in 1 .. seen : sent'[k].kind = "error"
  BY DEF Read
<1>4. {k \in 1 .. seen : sent'[k] \in {[kind |-> "text"]}} =
        {k \in 1 .. seen : sent[k] \in {[kind |-> "text"]}}
  OBVIOUS
<1> QED
  BY <1>1, <1>2, <1>3, <1>4 DEF Read, Lists

\* A frame more is read.
LEMMA ReadGrows ==
  ASSUME Control, Data, Read, ReasonReads
  PROVE  Data' /\ Read'
<1> DEFINE k == seen + 1
           f == sent[k]
<1>1. /\ route = "reason" /\ route' = route /\ sent' = sent
      /\ k \in 1 .. Len(sent) /\ k \in Nat /\ seen' = k
  BY DEF ReasonReads, Data
<1>2. f \in Frames
  BY <1>1 DEF Data
<1>3. /\ text' = IF f.kind = "text" THEN Append(text, k) ELSE text
      /\ finish' = (finish \/ Ends(f))
      /\ usage' = (usage \/ IsUsage(f))
      /\ failed' = (failed \/ f.kind = "error")
  BY DEF ReasonReads, IsUsage
<1>4. 1 .. seen' = (1 .. seen) \cup {k}
  BY <1>1 DEF Data
<1>5. Data'
  <2>1. text' \in Seq(Nat)
    BY <1>1, <1>3 DEF Data
  <2> QED
    BY <1>1, <2>1 DEF Data
<1> HIDE DEF k
<1>6. finish' <=> \E j \in 1 .. seen' : Ends(sent[j])
  BY <1>1, <1>3, <1>4 DEF Read
<1>7. usage' <=> \E j \in 1 .. seen' : IsUsage(sent[j])
  BY <1>1, <1>3, <1>4 DEF Read
<1>8. failed' <=> \E j \in 1 .. seen' : sent[j].kind = "error"
  BY <1>1, <1>3, <1>4 DEF Read
<1>9. \A j \in DOMAIN text : text[j] \in 1 .. seen
  BY <1>1 DEF Read
<1>10. \A j \in DOMAIN text' : text'[j] \in 1 .. seen'
  BY <1>1, <1>3, <1>4, <1>9 DEF Data
<1>11. Listing(text', {[kind |-> "text"]}, seen', sent)
  <2>1. Listing(text, {[kind |-> "text"]}, seen, sent) /\ text \in Seq(Nat) /\ seen \in Nat
    BY <1>1 DEF Read, Lists, Listing, Data
  <2>2. text' = IF f \in {[kind |-> "text"]} THEN Append(text, k) ELSE text
    BY <1>2, <1>3, TextFrame
  <2> QED
    BY <1>1, <2>1, <2>2, ListingGrows DEF k
<1> QED
  BY <1>1, <1>5, <1>6, <1>7, <1>8, <1>10, <1>11 DEF Read, Lists, Listing, Ends, IsUsage

LEMMA ControlKept ==
  ASSUME Control, [Next]_vars
  PROVE  Control'
<1>1. CASE \E f \in Frames : Says(f)
  BY <1>1 DEF Says, Control, parser, answer
<1>2. CASE \E how \in {"eof", "lost"} : Stops(how)
  BY <1>2 DEF Stops, Control, parser, answer
<1>3. CASE Answers \/ Refuses
  BY <1>3 DEF Answers, Refuses, Control, Stages, parser, answer
<1>4. CASE AgentReads \/ AgentEnds
  BY <1>4 DEF AgentReads, AgentEnds, Control, Stages, Ends, parser
<1>5. CASE ReasonReads
  BY <1>5 DEF ReasonReads, Control, parser, answer
<1>6. CASE ReasonEnds \/ Breaks
  BY <1>6 DEF ReasonEnds, Breaks, Control, Stages, parser
<1>7. CASE Charges \/ ChargeFails
  BY <1>7 DEF Charges, ChargeFails, Control, Stages, parser
<1>8. CASE Leaves
  BY <1>8 DEF Leaves, Control, parser, answer
<1>9. CASE UNCHANGED vars
  BY <1>9 DEF vars, Control, parser, answer
<1> QED
  BY <1>1, <1>2, <1>3, <1>4, <1>5, <1>6, <1>7, <1>8, <1>9 DEF Next, Gateway, Handler

LEMMA ReadsKept ==
  ASSUME Control, Data, Read, [Next]_vars
  PROVE  Data' /\ Read'
<1>0. seen \in Nat /\ 1 .. seen \subseteq DOMAIN sent
  BY DEF Data
<1>1. CASE \E f \in Frames : Says(f)
  <2>1. PICK f \in Frames : Says(f)
    BY <1>1
  <2>2. sent' = Append(sent, f) /\ UNCHANGED <<route, seen, finish, usage, failed, text>>
    BY <2>1 DEF Says, parser
  <2>3. Data'
    BY <2>2 DEF Data
  <2>4. \A k \in 1 .. seen : sent'[k] = sent[k]
    BY <1>0, <2>2 DEF Data
  <2> QED
    BY <1>0, <2>2, <2>3, <2>4, ReadKept
<1>2. CASE ReasonReads
  BY <1>2, ReadGrows
<1>3. CASE AgentReads
  BY <1>3 DEF AgentReads, Data, Read
<1>4. ASSUME \/ \E how \in {"eof", "lost"} : Stops(how)
             \/ Answers \/ Refuses \/ AgentEnds \/ ReasonEnds \/ Breaks
             \/ Charges \/ ChargeFails \/ Leaves \/ UNCHANGED vars
      PROVE  Data' /\ Read'
  <2>1. UNCHANGED <<sent, route, seen, finish, usage, failed, text>>
    BY <1>4 DEF Stops, Answers, Refuses, AgentEnds, ReasonEnds, Breaks, Charges,
                ChargeFails, Leaves, vars, parser
  <2> QED
    BY <1>0, <2>1, ReadKept DEF Data
<1> QED
  BY <1>1, <1>2, <1>3, <1>4 DEF Next, Gateway, Handler

LEMMA RepliedKept ==
  ASSUME Replied, Data, [Next]_vars
  PROVE  Replied'
<1>1. CASE AgentReads
  <2>1. seen + 1 \in Nat /\ sent[seen + 1] \in Frames
    BY <1>1 DEF AgentReads, Data
  <2>2. sent[seen + 1].kind = "call" => sent[seen + 1] \in Pieces
    BY <2>1 DEF Frames, Pieces, Finishes
  <2>3. ASSUME NEW f \in Pieces, NEW k \in Nat
        PROVE  Absorbed(f, k) \in [Indices -> [named : BOOLEAN, args : Seq(Nat)]]
    <3>1. f.index \in Indices /\ f.name \in BOOLEAN
      BY DEF Pieces
    <3>2. calls[f.index] \in [named : BOOLEAN, args : Seq(Nat)]
      BY <3>1 DEF Replied
    <3>3. Append(calls[f.index].args, k) \in Seq(Nat)
      BY <3>2
    <3>4. [named |-> calls[f.index].named \/ f.name,
           args |-> IF f.name THEN calls[f.index].args ELSE Append(calls[f.index].args, k)]
            \in [named : BOOLEAN, args : Seq(Nat)]
      BY <3>1, <3>2, <3>3
    <3> QED
      BY <3>1, <3>4 DEF Absorbed, Replied
  <2>4. [i \in Indices |-> Absent] \in [Indices -> [named : BOOLEAN, args : Seq(Nat)]]
    BY DEF Absent
  <2>5. calls' \in [Indices -> [named : BOOLEAN, args : Seq(Nat)]]
    BY <1>1, <2>1, <2>2, <2>3, <2>4 DEF AgentReads, Replied
  <2> QED
    BY <1>1, <2>5 DEF AgentReads, Replied
<1>2. CASE Refuses \/ ReasonEnds \/ Breaks \/ Charges \/ ChargeFails
  BY <1>2 DEF Refuses, ReasonEnds, Breaks, Charges, ChargeFails, Replied, parser
<1>3. ASSUME \/ \E f \in Frames : Says(f)
             \/ \E how \in {"eof", "lost"} : Stops(how)
             \/ Answers \/ AgentEnds \/ ReasonReads \/ Leaves \/ UNCHANGED vars
      PROVE  Replied'
  <2>1. UNCHANGED <<calls, row, reply>>
    BY <1>3 DEF Says, Stops, Answers, AgentEnds, ReasonReads, Leaves, vars, parser, answer
  <2> QED
    BY <2>1 DEF Replied
<1> QED
  BY <1>1, <1>2, <1>3 DEF Next, Gateway, Handler

LEMMA ChargedKept ==
  ASSUME Control, Data, Charged, [Next]_vars
  PROVE  Charged'
<1>1. CASE \E f \in Frames : Says(f)
  BY <1>1 DEF Says, Charged, ReadWhole, Whole, parser, answer
<1>2. CASE \E how \in {"eof", "lost"} : Stops(how)
  BY <1>2 DEF Stops, Charged, ReadWhole, Whole, parser, answer
<1>3. CASE Answers \/ Refuses
  BY <1>3 DEF Answers, Refuses, Charged, ReadWhole, Whole, parser, answer
<1>4. CASE AgentReads \/ AgentEnds
  BY <1>4 DEF AgentReads, AgentEnds, Charged, ReadWhole, Whole, parser
<1>5. CASE ReasonReads
  BY <1>5 DEF ReasonReads, Charged, ReadWhole, Whole, parser, answer
<1>6. CASE ReasonEnds
  BY <1>6 DEF ReasonEnds, Charged, ReadWhole, Whole, parser
<1>7. CASE Breaks
  BY <1>7 DEF Breaks, Charged, ReadWhole, Whole, parser
<1>8. CASE Charges \/ ChargeFails
  BY <1>8 DEF Charges, ChargeFails, Charged, ReadWhole, Whole, parser
<1>9. CASE Leaves
  BY <1>9 DEF Leaves, Charged, ReadWhole, Whole, parser, answer
<1>10. CASE UNCHANGED vars
  BY <1>10 DEF vars, Charged, ReadWhole, Whole, parser, answer
<1> QED
  BY <1>1, <1>2, <1>3, <1>4, <1>5, <1>6, <1>7, <1>8, <1>9, <1>10 DEF Next, Gateway, Handler

---------------------------------------------------------------------------
(* What the agent's client is written                                      *)

\* The chunks of the agent route.
Chunks ==
  [type : {"content"}, frame : Nat] \cup [type : {"tool_call"}, index : Indices, args : Seq(Nat)]
  \cup [type : {"done"}, reason : {"stop", "tool_calls", "incomplete"}] \cup [type : {"error"}]

IsCall(c) == c.type = "tool_call"
IsAsked(c) == c = Done("tool_calls")

Named == {i \in Indices : calls[i].named}

\* The gateway's order: nothing behind the sentinel, and behind a finish no text, no
\* piece of a tool call and no other finish.
Late == {"usage", "error", "noise", "end"}

Orderly ==
  \A j, k \in DOMAIN sent : j < k =>
    sent[j].kind # "end" /\ (Ends(sent[j]) => sent[k].kind \in Late)

\* The accumulator holds what was read of each tool call, until the finish.
Gathered ==
  route = "agent" /\ ~finish =>
    /\ IsFiniteSet(Named)
    /\ \A i \in Indices :
         /\ Lists(calls[i].args, {Piece(i, FALSE)})
         /\ calls[i].named <=> \E k \in 1 .. seen : sent[k] = Piece(i, TRUE)

\* What has been written, against how far the stream is.
Told ==
  /\ out \in Seq(Chunks)
  /\ route = "reason" => out = <<>>
  /\ route = "agent" => (finish <=> \E k \in 1 .. seen : Ends(sent[k]))
  /\ ~finish => \A k \in DOMAIN out : ~IsCall(out[k]) /\ ~IsAsked(out[k])
  /\ stage \in {"calling", "draining"} =>
       \A k \in DOMAIN out : out[k].type # "error" /\ (out[k].type = "done" => finish)
  /\ left = "over" => stage = "over"
  /\ finish /\ left \in {"no", "over"} /\ route = "agent" =>
       \E k \in DOMAIN out : out[k].type = "done"

\* The flush of the accumulator: each named call once, by index, with its pieces.
LEMMA FlushedProps ==
  ASSUME Replied, StreamAssumption, IsFiniteSet(Named)
  PROVE  /\ Flushed \in Seq(Chunks)
         /\ \A k \in DOMAIN Flushed : IsCall(Flushed[k]) /\ Flushed[k].index \in Indices
         /\ \A k \in DOMAIN Flushed : Flushed[k].args = calls[Flushed[k].index].args
         /\ \A k, l \in DOMAIN Flushed : k < l => Flushed[k].index < Flushed[l].index
         /\ {Flushed[k].index : k \in DOMAIN Flushed} = Named
<1> DEFINE order == InOrder(Named)
<1>1. Named \in SUBSET Nat
  BY DEF Named, StreamAssumption
<1>2. /\ order \in Seq(Nat) /\ Increases(order) /\ Members(order) = Named
  BY <1>1, InOrderProps
<1>3. Flushed = [k \in DOMAIN order |-> [type |-> "tool_call", index |-> order[k],
                                         args |-> calls[order[k]].args]]
  BY DEF Flushed, Named
<1> HIDE DEF order
<1>4. \A k \in DOMAIN order : order[k] \in Named
  BY <1>2 DEF Members
<1>5. DOMAIN order = 1 .. Len(order) /\ Len(order) \in Nat
  BY <1>2
<1>6. \A k \in DOMAIN order :
        /\ order[k] \in Indices /\ calls[order[k]].args \in Seq(Nat)
        /\ [type |-> "tool_call", index |-> order[k], args |-> calls[order[k]].args] \in Chunks
  <2> SUFFICES ASSUME NEW k \in DOMAIN order
               PROVE  /\ order[k] \in Indices /\ calls[order[k]].args \in Seq(Nat)
                      /\ [type |-> "tool_call", index |-> order[k],
                          args |-> calls[order[k]].args] \in Chunks
    OBVIOUS
  <2>1. order[k] \in Indices
    BY <1>4 DEF Named
  <2>2. calls[order[k]].args \in Seq(Nat)
    BY <2>1 DEF Replied
  <2> QED
    BY <2>1, <2>2 DEF Chunks
<1>7. Flushed \in [1 .. Len(order) -> Chunks]
  BY <1>3, <1>5, <1>6
<1>8. Flushed \in Seq(Chunks)
  BY <1>5, <1>7
<1>9. DOMAIN Flushed = DOMAIN order /\ \A k \in DOMAIN order : Flushed[k].index = order[k]
  BY <1>3
<1>10. \A k \in DOMAIN Flushed :
         IsCall(Flushed[k]) /\ Flushed[k].args = calls[Flushed[k].index].args
  BY <1>3 DEF IsCall
<1>11. \A k, l \in DOMAIN Flushed : k < l => Flushed[k].index < Flushed[l].index
  BY <1>2, <1>9 DEF Increases
<1>12. {Flushed[k].index : k \in DOMAIN Flushed} = Named
  BY <1>2, <1>9 DEF Members
<1> QED
  BY <1>6, <1>8, <1>9, <1>10, <1>11, <1>12

\* CallsWhole, of the chunks o and the first n of the frames f.
WholeOf(o, n, f) ==
  LET given == {k \in DOMAIN o : IsCall(o[k])}
      asked == {k \in DOMAIN o : IsAsked(o[k])}
  IN /\ \A k \in given : \E l \in asked : k < l
     /\ \A k \in given : Listing(o[k].args, {Piece(o[k].index, FALSE)}, n, f)
     /\ \A k, l \in given : k < l => o[k].index < o[l].index
     /\ asked # {} =>
          {o[k].index : k \in given} = {i \in Indices : \E k \in 1 .. n : f[k] = Piece(i, TRUE)}

\* The pieces of tool calls are the same ones.
SamePieces(n, f, m, g) ==
  \A i \in Indices, name \in BOOLEAN :
    {k \in 1 .. m : g[k] = Piece(i, name)} = {k \in 1 .. n : f[k] = Piece(i, name)}

\* No piece is read once a call is given or asked for.
LEMMA WholeStays ==
  ASSUME NEW o \in Seq(Chunks), NEW n, NEW f, NEW m, NEW g, WholeOf(o, n, f),
         (\E k \in DOMAIN o : IsCall(o[k]) \/ IsAsked(o[k])) => SamePieces(n, f, m, g)
  PROVE  WholeOf(o, m, g)
<1> DEFINE given == {k \in DOMAIN o : IsCall(o[k])}
           asked == {k \in DOMAIN o : IsAsked(o[k])}
<1>1. /\ \A k \in given : \E l \in asked : k < l
      /\ \A k \in given : Listing(o[k].args, {Piece(o[k].index, FALSE)}, n, f)
      /\ \A k, l \in given : k < l => o[k].index < o[l].index
      /\ asked # {} =>
           {o[k].index : k \in given} = {i \in Indices : \E k \in 1 .. n : f[k] = Piece(i, TRUE)}
  BY DEF WholeOf
<1>2. ASSUME NEW k \in given
      PROVE  Listing(o[k].args, {Piece(o[k].index, FALSE)}, m, g)
  <2>1. o[k].index \in Indices
    BY DEF IsCall, Chunks
  <2>2. {j \in 1 .. m : g[j] = Piece(o[k].index, FALSE)} =
          {j \in 1 .. n : f[j] = Piece(o[k].index, FALSE)}
    BY <2>1 DEF SamePieces
  <2>3. {j \in 1 .. m : g[j] \in {Piece(o[k].index, FALSE)}} =
          {j \in 1 .. n : f[j] \in {Piece(o[k].index, FALSE)}}
    BY <2>2
  <2> QED
    BY <1>1, <2>3 DEF Listing
<1>3. asked # {} => {i \in Indices : \E k \in 1 .. m : g[k] = Piece(i, TRUE)} =
                      {i \in Indices : \E k \in 1 .. n : f[k] = Piece(i, TRUE)}
  <2> SUFFICES ASSUME SamePieces(n, f, m, g), NEW i \in Indices
               PROVE  (\E k \in 1 .. m : g[k] = Piece(i, TRUE)) <=>
                        (\E k \in 1 .. n : f[k] = Piece(i, TRUE))
    OBVIOUS
  <2>1. {k \in 1 .. m : g[k] = Piece(i, TRUE)} = {k \in 1 .. n : f[k] = Piece(i, TRUE)}
    BY DEF SamePieces
  <2> QED
    BY <2>1
<1> QED
  BY <1>1, <1>2, <1>3 DEF WholeOf

\* A chunk more is written, that is no call and asks for none.
LEMMA WholeAppend ==
  ASSUME NEW o \in Seq(Chunks), NEW n, NEW f, WholeOf(o, n, f),
         NEW c \in Chunks, ~IsCall(c), ~IsAsked(c)
  PROVE  WholeOf(Append(o, c), n, f)
<1> DEFINE p == Append(o, c)
<1>1. /\ DOMAIN p = DOMAIN o \cup {Len(o) + 1} /\ p[Len(o) + 1] = c
      /\ \A k \in DOMAIN o : p[k] = o[k]
  OBVIOUS
<1> HIDE DEF p
<1>2. /\ {k \in DOMAIN p : IsCall(p[k])} = {k \in DOMAIN o : IsCall(o[k])}
      /\ {k \in DOMAIN p : IsAsked(p[k])} = {k \in DOMAIN o : IsAsked(o[k])}
  BY <1>1
<1>3. \A k \in {j \in DOMAIN o : IsCall(o[j])} : p[k] = o[k]
  BY <1>1
<1>4. {p[k].index : k \in {j \in DOMAIN o : IsCall(o[j])}} =
        {o[k].index : k \in {j \in DOMAIN o : IsCall(o[j])}}
  BY <1>3
<1> QED
  BY <1>2, <1>3, <1>4 DEF WholeOf, p

\* The positions of a sequence that is F and then d behind o.
LEMMA FlushPositions ==
  ASSUME NEW S, NEW o \in Seq(S), NEW F \in Seq(S), NEW d \in S
  PROVE  LET p == o \o Append(F, d)
             a == Len(o)
             b == Len(F)
         IN /\ p \in Seq(S) /\ DOMAIN p = 1 .. a + b + 1
            /\ \A k \in 1 .. a : p[k] = o[k]
            /\ \A k \in 1 .. b : p[a + k] = F[k]
            /\ p[a + b + 1] = d
<1> DEFINE a == Len(o)
           b == Len(F)
           q == Append(F, d)
           p == o \o q
<1>1. a \in Nat /\ b \in Nat
  OBVIOUS
<1>2. /\ q \in Seq(S) /\ Len(q) = b + 1
      /\ q[b + 1] = d /\ \A k \in 1 .. b : q[k] = F[k]
  BY AppendProperties
<1> HIDE DEF q
<1>3. /\ p \in Seq(S) /\ Len(p) = a + Len(q)
      /\ \A k \in 1 .. a + Len(q) : p[k] = IF k <= a THEN o[k] ELSE q[k - a]
  BY <1>2, ConcatProperties
<1> HIDE DEF a, b, p
<1>4. p \in Seq(S) /\ DOMAIN p = 1 .. a + b + 1
  BY <1>1, <1>2, <1>3
<1>5. ASSUME NEW k \in 1 .. a PROVE p[k] = o[k]
  <2>1. k \in 1 .. a + Len(q) /\ k <= a
    BY <1>1, <1>2
  <2> QED
    BY <1>3, <2>1
<1>6. ASSUME NEW k \in 1 .. b + 1 PROVE p[a + k] = q[k]
  <2>1. a + k \in 1 .. a + Len(q) /\ ~(a + k <= a) /\ (a + k) - a = k
    BY <1>1, <1>2
  <2> QED
    BY <1>3, <2>1
<1>7. \A k \in 1 .. b : p[a + k] = F[k]
  BY <1>1, <1>2, <1>6
<1>8. p[a + b + 1] = d
  <2>1. b + 1 \in 1 .. b + 1 /\ a + (b + 1) = a + b + 1
    BY <1>1
  <2> QED
    BY <1>2, <1>6, <2>1
<1> QED
  BY <1>4, <1>5, <1>7, <1>8 DEF a, b, p, q

\* The calls are flushed, behind chunks that give and ask for none.
LEMMA WholeFlush ==
  ASSUME NEW o \in Seq(Chunks), NEW n, NEW f, NEW F \in Seq(Chunks),
         \A k \in DOMAIN o : ~IsCall(o[k]) /\ ~IsAsked(o[k]),
         \A k \in DOMAIN F : IsCall(F[k]),
         \A k \in DOMAIN F : Listing(F[k].args, {Piece(F[k].index, FALSE)}, n, f),
         \A k, l \in DOMAIN F : k < l => F[k].index < F[l].index,
         {F[k].index : k \in DOMAIN F} = {i \in Indices : \E k \in 1 .. n : f[k] = Piece(i, TRUE)}
  PROVE  WholeOf(o \o Append(F, Done("tool_calls")), n, f)
<1> DEFINE a == Len(o)
           b == Len(F)
           e == a + b + 1
           d == Done("tool_calls")
           p == o \o Append(F, d)
<1>1. a \in Nat /\ b \in Nat /\ e \in Nat /\ DOMAIN o = 1 .. a /\ DOMAIN F = 1 .. b
  OBVIOUS
<1>2. d \in Chunks /\ IsAsked(d) /\ ~IsCall(d)
  BY DEF Chunks, Done, IsAsked, IsCall
<1>3. \A c : IsCall(c) => ~IsAsked(c)
  BY DEF Done, IsAsked, IsCall
<1>4. /\ DOMAIN p = 1 .. e
      /\ \A k \in 1 .. a : p[k] = o[k]
      /\ \A k \in 1 .. b : p[a + k] = F[k]
      /\ p[e] = d
  BY <1>2, FlushPositions
<1> HIDE DEF a, b, d, p
<1>5. 1 .. e = (1 .. a) \cup {a + k : k \in 1 .. b} \cup {e}
  <2>1. ASSUME NEW x \in 1 .. e, x \notin 1 .. a, x # e PROVE \E k \in 1 .. b : x = a + k
    <3>1. x - a \in 1 .. b /\ x = a + (x - a)
      BY <1>1, <2>1
    <3> QED
      BY <3>1
  <2>2. \A k \in 1 .. b : a + k \in 1 .. e
    BY <1>1
  <2>3. 1 .. a \subseteq 1 .. e /\ e \in 1 .. e
    BY <1>1
  <2> QED
    BY <2>1, <2>2, <2>3
<1>6. /\ \A k \in 1 .. a : ~IsCall(p[k]) /\ ~IsAsked(p[k])
      /\ \A k \in 1 .. b : IsCall(p[a + k]) /\ ~IsAsked(p[a + k])
      /\ ~IsCall(p[e]) /\ IsAsked(p[e])
  BY <1>1, <1>2, <1>3, <1>4
<1> HIDE DEF e
<1>7. {x \in DOMAIN p : IsCall(p[x])} = {a + k : k \in 1 .. b}
  BY <1>4, <1>5, <1>6
<1>8. {x \in DOMAIN p : IsAsked(p[x])} = {e}
  BY <1>4, <1>5, <1>6
<1>9. \A k \in 1 .. b : a + k < e
  BY <1>1 DEF e
<1>10. \A k \in 1 .. b : Listing(p[a + k].args, {Piece(p[a + k].index, FALSE)}, n, f)
  BY <1>1, <1>4
<1>11. \A k, l \in 1 .. b : a + k < a + l => p[a + k].index < p[a + l].index
  <2> SUFFICES ASSUME NEW k \in 1 .. b, NEW l \in 1 .. b, a + k < a + l
               PROVE  F[k].index < F[l].index
    BY <1>4
  <2>1. k < l
    BY <1>1
  <2> QED
    BY <1>1, <2>1
<1>12. {p[x].index : x \in {a + k : k \in 1 .. b}} = {F[k].index : k \in DOMAIN F}
  <2>1. {p[x].index : x \in {a + k : k \in 1 .. b}} = {p[a + k].index : k \in 1 .. b}
    OBVIOUS
  <2>2. {p[a + k].index : k \in 1 .. b} = {F[k].index : k \in 1 .. b}
    BY <1>4
  <2> QED
    BY <1>1, <2>1, <2>2
<1>13. WholeOf(p, n, f)
  <2> DEFINE given == {x \in DOMAIN p : IsCall(p[x])}
             asked == {x \in DOMAIN p : IsAsked(p[x])}
  <2>1. given = {a + k : k \in 1 .. b} /\ asked = {e}
    BY <1>7, <1>8
  <2> HIDE DEF given, asked
  <2>2. \A x \in given : \E y \in asked : x < y
    BY <1>9, <2>1
  <2>3. \A x \in given : Listing(p[x].args, {Piece(p[x].index, FALSE)}, n, f)
    BY <1>10, <2>1
  <2>4. \A x, y \in given : x < y => p[x].index < p[y].index
    BY <1>11, <2>1
  <2>5. {p[x].index : x \in given} = {i \in Indices : \E k \in 1 .. n : f[k] = Piece(i, TRUE)}
    BY <1>12, <2>1
  <2> QED
    BY <2>2, <2>3, <2>4, <2>5 DEF WholeOf, given, asked
<1> QED
  BY <1>13 DEF p, d

---------------------------------------------------------------------------
(* A step of the agent route                                               *)

\* A frame that is read next.
LEMMA NextFrame ==
  ASSUME Data, seen < Len(sent)
  PROVE  /\ seen \in Nat /\ seen + 1 \in Nat /\ seen + 1 \in DOMAIN sent /\ sent[seen + 1] \in Frames
         /\ 1 .. seen + 1 = (1 .. seen) \cup {seen + 1} /\ 1 .. seen \subseteq DOMAIN sent
         /\ \A k \in 1 .. seen : k < seen + 1
BY DEF Data

\* What the kind of a frame says of it.
LEMMA FrameKinds ==
  ASSUME NEW f \in Frames
  PROVE  /\ f.kind \in {"text", "usage", "error", "noise", "end", "call", "stop", "calls"}
         /\ f.kind = "call" => f.index \in Indices /\ f.name \in BOOLEAN /\ f = Piece(f.index, f.name)
         /\ \A i, name : f = Piece(i, name) => f.kind = "call" /\ f.index = i /\ f.name = name
BY DEF Frames, Pieces, Finishes, Piece

\* Behind a finish nothing is translated.
LEMMA LateFrame ==
  ASSUME Data, Orderly, Told, AgentReads, finish
  PROVE  sent[seen + 1].kind \in Late /\ Translated(sent[seen + 1], seen + 1) = <<>>
<1> DEFINE f == sent[seen + 1]
<1>1. PICK k \in 1 .. seen : Ends(sent[k])
  BY DEF AgentReads, Told
<1>2. /\ k \in DOMAIN sent /\ seen + 1 \in DOMAIN sent /\ k < seen + 1
  BY NextFrame DEF AgentReads
<1>3. f.kind \in Late
  BY <1>1, <1>2 DEF Orderly
<1> HIDE DEF f
<1>4. Translated(f, seen + 1) = <<>>
  BY <1>3 DEF Translated, Late
<1> QED
  BY <1>3, <1>4 DEF f

LEMMA OrderlyKept ==
  ASSUME Data, Orderly, [Next]_vars
  PROVE  Orderly'
<1>1. CASE \E f \in Frames : Says(f)
  <2>1. PICK f \in Frames : Says(f)
    BY <1>1
  <2>2. /\ \A k \in DOMAIN sent : sent[k].kind # "end" /\ (Ends(sent[k]) => f.kind \in Late)
        /\ sent' = Append(sent, f) /\ sent \in Seq(Frames)
    BY <2>1 DEF Says, Late, Data
  <2>3. /\ DOMAIN sent' = DOMAIN sent \cup {Len(sent) + 1} /\ DOMAIN sent = 1 .. Len(sent)
        /\ Len(sent) \in Nat
        /\ sent'[Len(sent) + 1] = f /\ \A k \in DOMAIN sent : sent'[k] = sent[k]
    BY <2>2
  <2>4. ASSUME NEW j \in DOMAIN sent', NEW k \in DOMAIN sent', j < k
        PROVE  sent'[j].kind # "end" /\ (Ends(sent'[j]) => sent'[k].kind \in Late)
    <3>1. j \in DOMAIN sent
      BY <2>3, <2>4
    <3>2. CASE k \in DOMAIN sent
      BY <2>3, <2>4, <3>1, <3>2 DEF Orderly
    <3>3. CASE k = Len(sent) + 1
      BY <2>2, <2>3, <3>1, <3>3
    <3> QED
      BY <2>3, <3>2, <3>3
  <2> QED
    BY <2>4 DEF Orderly, Ends
<1>2. ASSUME sent' = sent PROVE Orderly'
  BY <1>2 DEF Orderly, Ends
<1> QED
  BY <1>1, <1>2 DEF Next, Gateway, Handler, Stops, Answers, Refuses, AgentReads, AgentEnds,
     ReasonReads, ReasonEnds, Breaks, Charges, ChargeFails, Leaves, vars

\* Every step but a read keeps what has been read.
Rests ==
  /\ UNCHANGED <<route, seen, calls, finish>>
  /\ \A k \in 1 .. seen : sent'[k] = sent[k]

LEMMA OthersRest ==
  ASSUME Data, [Next]_vars
  PROVE  AgentReads \/ ReasonReads \/ Rests
<1>1. CASE \E f \in Frames : Says(f)
  <2>1. PICK f \in Frames : Says(f)
    BY <1>1
  <2>2. sent' = Append(sent, f) /\ sent \in Seq(Frames) /\ UNCHANGED <<route, seen, calls, finish>>
    BY <2>1 DEF Says, parser, Data
  <2>3. \A k \in 1 .. seen : sent'[k] = sent[k]
    BY <2>2 DEF Data
  <2> QED
    BY <2>2, <2>3 DEF Rests
<1>2. CASE \/ \E how \in {"eof", "lost"} : Stops(how)
           \/ Answers \/ Refuses \/ AgentEnds \/ ReasonEnds \/ Breaks
           \/ Charges \/ ChargeFails \/ Leaves \/ UNCHANGED vars
  BY <1>2 DEF Rests, Stops, Answers, Refuses, AgentEnds, ReasonEnds, Breaks, Charges,
              ChargeFails, Leaves, vars, parser
<1> QED
  BY <1>1, <1>2 DEF Next, Gateway, Handler

LEMMA GatheredKept ==
  ASSUME Control, Data, Replied, Orderly, Gathered, Told, [Next]_vars
  PROVE  Gathered'
<1> SUFFICES ASSUME route' = "agent", ~finish'
             PROVE  /\ IsFiniteSet(Named')
                    /\ \A i \in Indices :
                         /\ Listing(calls'[i].args, {Piece(i, FALSE)}, seen', sent')
                         /\ calls'[i].named <=> \E k \in 1 .. seen' : sent'[k] = Piece(i, TRUE)
  BY DEF Gathered, Lists, Listing, Piece
<1>1. CASE AgentReads
  <2> DEFINE m == seen + 1
             f == sent[m]
  <2>1. /\ route = "agent" /\ seen < Len(sent) /\ seen' = m /\ sent' = sent
        /\ finish' = (finish \/ Ends(f))
        /\ calls' = CASE f.kind = "call" -> Absorbed(f, m)
                      [] f.kind = "calls" -> [i \in Indices |-> Absent]
                      [] OTHER -> calls
    BY <1>1 DEF AgentReads
  <2>2. f \in Frames /\ m \in Nat /\ seen \in Nat /\ 1 .. m = (1 .. seen) \cup {m}
    BY <2>1, NextFrame
  <2>3. ~finish /\ ~Ends(f)
    BY <2>1
  <2>4. /\ IsFiniteSet(Named)
        /\ \A i \in Indices : /\ Listing(calls[i].args, {Piece(i, FALSE)}, seen, sent)
                              /\ calls[i].named <=> \E k \in 1 .. seen : sent[k] = Piece(i, TRUE)
    BY <2>1, <2>3 DEF Gathered, Lists, Listing
  <2>5. \A i \in Indices : /\ calls[i].args \in Seq(Nat) /\ calls[i].named \in BOOLEAN
    BY DEF Replied
  <2> HIDE DEF f
  <2>6. ASSUME NEW i \in Indices
        PROVE  /\ f = Piece(i, FALSE) => Listing(Append(calls[i].args, m), {Piece(i, FALSE)}, m, sent)
               /\ f # Piece(i, FALSE) => Listing(calls[i].args, {Piece(i, FALSE)}, m, sent)
    <3>1. Listing(calls[i].args, {Piece(i, FALSE)}, seen, sent) /\ calls[i].args \in Seq(Nat)
      BY <2>4, <2>5
    <3> QED
      BY <2>2, <3>1, ListingGrows DEF f
  <2>7. ASSUME NEW i \in Indices
        PROVE  (\E k \in 1 .. m : sent[k] = Piece(i, TRUE)) <=> calls[i].named \/ f = Piece(i, TRUE)
    BY <2>2, <2>4 DEF f
  <2>8. CASE f.kind = "call"
    <3>1. /\ f.index \in Indices /\ f.name \in BOOLEAN /\ f = Piece(f.index, f.name)
          /\ \A i, name : f = Piece(i, name) => f.index = i /\ f.name = name
      BY <2>2, <2>8, FrameKinds
    <3>2. calls' = [calls EXCEPT ![f.index] =
                     [named |-> calls[f.index].named \/ f.name,
                      args |-> IF f.name THEN calls[f.index].args
                               ELSE Append(calls[f.index].args, m)]]
      BY <2>1, <2>8 DEF Absorbed
    <3>3. \A i \in Indices : i # f.index => calls'[i] = calls[i]
      BY <3>2 DEF Replied
    <3>4. /\ calls'[f.index].named = (calls[f.index].named \/ f.name)
          /\ calls'[f.index].args = IF f.name THEN calls[f.index].args
                                    ELSE Append(calls[f.index].args, m)
      BY <3>1, <3>2 DEF Replied
    <3>5. ASSUME NEW i \in Indices
          PROVE  /\ Listing(calls'[i].args, {Piece(i, FALSE)}, m, sent)
                 /\ calls'[i].named <=> \E k \in 1 .. m : sent[k] = Piece(i, TRUE)
      <4>1. CASE i # f.index
        BY <2>6, <2>7, <3>1, <3>3, <4>1
      <4>2. CASE i = f.index /\ f.name
        <5>1. f = Piece(i, TRUE) /\ f # Piece(i, FALSE)
          BY <3>1, <4>2
        <5> QED
          BY <2>6, <2>7, <3>4, <4>2, <5>1
      <4>3. CASE i = f.index /\ ~f.name
        <5>1. f = Piece(i, FALSE) /\ f # Piece(i, TRUE)
          BY <3>1, <4>3
        <5> QED
          BY <2>5, <2>6, <2>7, <3>4, <4>3, <5>1
      <4> QED
        BY <3>1, <4>1, <4>2, <4>3
    <3>6. IsFiniteSet(Named')
      <4>1. Named' \subseteq Named \cup {f.index}
        BY <3>3 DEF Named
      <4>2. IsFiniteSet(Named \cup {f.index})
        BY <2>4, FS_AddElement
      <4> QED
        BY <4>1, <4>2, FS_Subset
    <3> QED
      BY <2>1, <3>5, <3>6
  <2>9. CASE f.kind # "call"
    <3>1. calls' = calls
      BY <2>1, <2>3, <2>9 DEF Ends
    <3>2. \A i, name : f # Piece(i, name)
      BY <2>2, <2>9, FrameKinds
    <3>3. Named' = Named
      BY <3>1 DEF Named
    <3> QED
      BY <2>1, <2>4, <2>6, <2>7, <3>1, <3>2, <3>3
  <2> QED
    BY <2>8, <2>9
<1>2. CASE Rests
  <2>1. UNCHANGED <<route, seen, calls, finish>> /\ \A k \in 1 .. seen : sent'[k] = sent[k]
    BY <1>2 DEF Rests
  <2>2. /\ IsFiniteSet(Named)
        /\ \A i \in Indices : /\ Listing(calls[i].args, {Piece(i, FALSE)}, seen, sent)
                              /\ calls[i].named <=> \E k \in 1 .. seen : sent[k] = Piece(i, TRUE)
    BY <2>1 DEF Gathered, Lists, Listing
  <2>3. Named' = Named
    BY <2>1 DEF Named
  <2>4. \A S : {k \in 1 .. seen : sent'[k] \in S} = {k \in 1 .. seen : sent[k] \in S}
    BY <2>1
  <2>5. \A i \in Indices : Listing(calls[i].args, {Piece(i, FALSE)}, seen, sent')
    BY <2>2, <2>4 DEF Listing
  <2> QED
    BY <2>1, <2>2, <2>3, <2>5
<1>3. CASE ReasonReads
  BY <1>3 DEF ReasonReads
<1> QED
  BY <1>1, <1>2, <1>3, OthersRest

\* One chunk is written, to a client that is still there.
LEMMA OneWritten ==
  ASSUME out \in Seq(Chunks), NEW c \in Chunks, Written(<<c>>)
  PROVE  /\ out' = IF left = "no" THEN Append(out, c) ELSE out
         /\ out' \in Seq(Chunks) /\ Append(out, c) \in Seq(Chunks)
         /\ DOMAIN Append(out, c) = DOMAIN out \cup {Len(out) + 1}
         /\ Append(out, c)[Len(out) + 1] = c
         /\ \A k \in DOMAIN out : Append(out, c)[k] = out[k]
<1>1. Append(out, c) = out \o <<c>>
  BY AppendIsConcat
<1> QED
  BY <1>1 DEF Written

LEMMA ChunkTypes ==
  /\ \A k \in Nat : [type |-> "content", frame |-> k] \in Chunks
  /\ \A r \in {"stop", "tool_calls", "incomplete"} : Done(r) \in Chunks /\ Done(r).type = "done"
  /\ Chunk("error") \in Chunks /\ Chunk("error").type = "error"
  /\ \A c : IsAsked(c) => c.type = "done"
  /\ \A c : IsCall(c) => c.type = "tool_call"
  /\ ~IsAsked(Done("stop")) /\ ~IsAsked(Done("incomplete"))
BY DEF Chunks, Chunk, Done, IsCall, IsAsked

\* The two chunks of an error are written, to a client that is still there.
LEMMA ErrorWritten ==
  ASSUME out \in Seq(Chunks)
  PROVE  LET c == [type |-> "content", frame |-> 0]
             e == Chunk("error")
         IN /\ c \in Chunks /\ e \in Chunks
            /\ ~IsCall(c) /\ ~IsAsked(c) /\ ~IsCall(e) /\ ~IsAsked(e)
            /\ out \o TerminalError = Append(Append(out, c), e)
            /\ Append(out, c) \in Seq(Chunks) /\ out \o TerminalError \in Seq(Chunks)
            /\ DOMAIN (out \o TerminalError) = DOMAIN out \cup {Len(out) + 1, Len(out) + 2}
            /\ (out \o TerminalError)[Len(out) + 1] = c /\ (out \o TerminalError)[Len(out) + 2] = e
            /\ \A k \in DOMAIN out : (out \o TerminalError)[k] = out[k]
<1> DEFINE c == [type |-> "content", frame |-> 0]
           e == Chunk("error")
<1>1. /\ c \in Chunks /\ e \in Chunks
      /\ ~IsCall(c) /\ ~IsAsked(c) /\ ~IsCall(e) /\ ~IsAsked(e)
  BY ChunkTypes DEF IsCall, IsAsked, Done, Chunk
<1>2. TerminalError = <<c, e>>
  BY DEF TerminalError
<1> HIDE DEF c, e
<1>3. out \o <<c, e>> = Append(Append(out, c), e)
  BY <1>1
<1> QED
  BY <1>1, <1>2, <1>3 DEF c, e

\* What the frame that is read adds to the chunks.
LEMMA AgentWrites ==
  ASSUME Data, Orderly, Told, AgentReads
  PROVE  LET m == seen + 1
             f == sent[m]
         IN \/ /\ f.kind = "text" /\ ~finish
               /\ out' = IF left = "no" THEN Append(out, [type |-> "content", frame |-> m]) ELSE out
            \/ /\ f.kind = "stop" /\ ~finish
               /\ out' = IF left = "no" THEN Append(out, Done("stop")) ELSE out
            \/ /\ f.kind = "calls" /\ ~finish
               /\ out' = IF left = "no" THEN out \o Append(Flushed, Done("tool_calls")) ELSE out
            \/ f.kind \notin {"text", "stop", "calls"} /\ out' = out
<1> DEFINE m == seen + 1
           f == sent[m]
<1>1. f \in Frames /\ m \in Nat /\ Written(Translated(f, m)) /\ out \in Seq(Chunks)
  BY NextFrame DEF AgentReads, Told
<1>2. finish => f.kind \in Late
  BY LateFrame
<1> HIDE DEF f, m
<1>3. f.kind \in {"text", "usage", "error", "noise", "end", "call", "stop", "calls"}
  BY <1>1, FrameKinds
<1>4. CASE f.kind = "text"
  <2>1. Written(<<[type |-> "content", frame |-> m]>>) /\ ~finish
    BY <1>1, <1>2, <1>4 DEF Translated, Late
  <2> QED
    BY <1>1, <1>4, <2>1, OneWritten, ChunkTypes DEF f, m
<1>5. CASE f.kind = "stop"
  <2>1. Written(<<Done("stop")>>) /\ ~finish
    BY <1>1, <1>2, <1>5 DEF Translated, Late
  <2> QED
    BY <1>1, <1>5, <2>1, OneWritten, ChunkTypes DEF f, m
<1>6. CASE f.kind = "calls"
  <2>1. Written(Append(Flushed, Done("tool_calls"))) /\ ~finish
    BY <1>1, <1>2, <1>6 DEF Translated, Late
  <2> QED
    BY <1>6, <2>1 DEF Written, f, m
<1>7. CASE f.kind \notin {"text", "stop", "calls"}
  <2>1. Translated(f, m) = <<>>
    BY <1>3, <1>7 DEF Translated
  <2>2. out \o <<>> = out
    BY <1>1, ConcatEmptySeq
  <2> QED
    BY <1>1, <1>7, <2>1, <2>2 DEF Written, f, m
<1> QED
  BY <1>4, <1>5, <1>6, <1>7

\* The calls of the accumulator are whole when they are flushed.
LEMMA FlushWhole ==
  ASSUME StreamAssumption, Data, Replied, Orderly, Gathered, Told, AgentReads,
         sent[seen + 1].kind = "calls", ~finish
  PROVE  /\ WholeOf(out \o Append(Flushed, Done("tool_calls")), seen + 1, sent)
         /\ out \o Append(Flushed, Done("tool_calls")) \in Seq(Chunks)
         /\ \E k \in DOMAIN (out \o Append(Flushed, Done("tool_calls"))) :
              (out \o Append(Flushed, Done("tool_calls")))[k].type = "done"
         /\ \A k \in DOMAIN (out \o Append(Flushed, Done("tool_calls"))) :
              (out \o Append(Flushed, Done("tool_calls")))[k].type # "error"
<1> DEFINE m == seen + 1
           f == sent[m]
           F == Flushed
           d == Done("tool_calls")
           p == out \o Append(F, d)
<1>1. /\ route = "agent" /\ f \in Frames /\ m \in Nat /\ seen \in Nat
      /\ 1 .. m = (1 .. seen) \cup {m} /\ stage = "draining"
      /\ out \in Seq(Chunks)
      /\ \A k \in DOMAIN out : ~IsCall(out[k]) /\ ~IsAsked(out[k]) /\ out[k].type # "error"
  BY NextFrame DEF AgentReads, Told
<1>2. \A i, name : f # Piece(i, name)
  BY <1>1, FrameKinds
<1>3. /\ IsFiniteSet(Named)
      /\ \A i \in Indices : /\ Listing(calls[i].args, {Piece(i, FALSE)}, seen, sent)
                            /\ calls[i].named <=> \E k \in 1 .. seen : sent[k] = Piece(i, TRUE)
  BY <1>1 DEF Gathered, Lists, Listing
<1>4. /\ F \in Seq(Chunks)
      /\ \A k \in DOMAIN F : IsCall(F[k]) /\ F[k].index \in Indices
      /\ \A k \in DOMAIN F : F[k].args = calls[F[k].index].args
      /\ \A k, l \in DOMAIN F : k < l => F[k].index < F[l].index
      /\ {F[k].index : k \in DOMAIN F} = Named
  BY <1>3, FlushedProps
<1> HIDE DEF F, f
<1>5. ASSUME NEW i \in Indices
      PROVE  /\ Listing(calls[i].args, {Piece(i, FALSE)}, m, sent)
             /\ calls[i].named <=> \E k \in 1 .. m : sent[k] = Piece(i, TRUE)
  <2>1. calls[i].args \in Seq(Nat)
    BY DEF Replied
  <2>2. Listing(calls[i].args, {Piece(i, FALSE)}, seen, sent) /\ sent[m] \notin {Piece(i, FALSE)}
    BY <1>2, <1>3 DEF f
  <2>3. Listing(calls[i].args, {Piece(i, FALSE)}, m, sent)
    BY <1>1, <2>1, <2>2, ListingGrows
  <2> QED
    BY <1>1, <1>2, <1>3, <2>3 DEF f
<1>6. Named = {i \in Indices : \E k \in 1 .. m : sent[k] = Piece(i, TRUE)}
  BY <1>5 DEF Named
<1> HIDE DEF m
<1>7. \A k \in DOMAIN F : Listing(F[k].args, {Piece(F[k].index, FALSE)}, m, sent)
  BY <1>4, <1>5
<1>8. WholeOf(p, m, sent)
  BY <1>1, <1>4, <1>6, <1>7, WholeFlush
<1>9. d \in Chunks /\ d.type = "done"
  BY ChunkTypes
<1> HIDE DEF d
<1>10. /\ p \in Seq(Chunks) /\ DOMAIN p = 1 .. Len(out) + Len(F) + 1
       /\ \A k \in 1 .. Len(out) : p[k] = out[k]
       /\ \A k \in 1 .. Len(F) : p[Len(out) + k] = F[k]
       /\ p[Len(out) + Len(F) + 1] = d
  BY <1>1, <1>4, <1>9, FlushPositions
<1>11. Len(out) \in Nat /\ Len(F) \in Nat /\ DOMAIN out = 1 .. Len(out) /\ DOMAIN F = 1 .. Len(F)
  BY <1>1, <1>4
<1> HIDE DEF p
<1>12. \E k \in DOMAIN p : p[k].type = "done"
  BY <1>9, <1>10, <1>11
<1>13. ASSUME NEW k \in DOMAIN p PROVE p[k].type # "error"
  <2>1. CASE k \in 1 .. Len(out)
    BY <1>1, <1>10, <1>11, <2>1
  <2>2. CASE k = Len(out) + Len(F) + 1
    BY <1>9, <1>10, <2>2
  <2>3. CASE k \notin 1 .. Len(out) /\ k # Len(out) + Len(F) + 1
    <3>0. \A a, b \in Nat : \A x \in 1 .. a + b + 1 :
            x \notin 1 .. a /\ x # a + b + 1 => x - a \in 1 .. b /\ a + (x - a) = x
      OBVIOUS
    <3>1. k - Len(out) \in 1 .. Len(F) /\ Len(out) + (k - Len(out)) = k
      BY <1>10, <1>11, <2>3, <3>0
    <3>2. p[k] = F[k - Len(out)] /\ IsCall(F[k - Len(out)])
      BY <1>4, <1>10, <1>11, <3>1
    <3> QED
      BY <3>2, ChunkTypes
  <2> QED
    BY <2>1, <2>2, <2>3
<1> QED
  BY <1>8, <1>10, <1>12, <1>13 DEF p, F, d, m

---------------------------------------------------------------------------
(* The step keeps what the client is told                                  *)

\* The other steps of the handler write an end, an error, or nothing.
LEMMA OtherWrites ==
  ASSUME Control, Told, [Next]_vars, ~AgentReads
  PROVE  \/ out' = out
         \/ /\ Refuses \/ Breaks
            /\ left = "no" /\ out' = out \o TerminalError /\ stage' = "over"
         \/ /\ AgentEnds
            /\ left = "no" /\ ~finish /\ out' = Append(out, Done("incomplete")) /\ stage' = "over"
<1>1. CASE AgentEnds
  <2>1. CASE finish
    <3>1. out \o <<>> = out
      BY ConcatEmptySeq DEF Told
    <3> QED
      BY <1>1, <2>1, <3>1 DEF AgentEnds, Written
  <2>2. CASE ~finish
    <3>1. Written(<<Done("incomplete")>>)
      BY <1>1, <2>2 DEF AgentEnds
    <3>2. out' = IF left = "no" THEN Append(out, Done("incomplete")) ELSE out
      BY <3>1, OneWritten, ChunkTypes DEF Told
    <3> QED
      BY <1>1, <2>2, <3>2 DEF AgentEnds
  <2> QED
    BY <2>1, <2>2
<1>2. CASE Refuses \/ Breaks
  <2>1. stage' = "over" /\ (Written(TerminalError) \/ out' = out)
    BY <1>2 DEF Refuses, Breaks
  <2> QED
    BY <1>2, <2>1 DEF Written
<1>3. CASE \/ \E f \in Frames : Says(f)
           \/ \E how \in {"eof", "lost"} : Stops(how)
           \/ Answers \/ ReasonReads \/ ReasonEnds
           \/ Charges \/ ChargeFails \/ Leaves \/ UNCHANGED vars
  BY <1>3 DEF Says, Stops, Answers, ReasonReads, ReasonEnds, Charges, ChargeFails, Leaves, vars,
              answer
<1> QED
  BY <1>1, <1>2, <1>3 DEF Next, Gateway, Handler

LEMMA ToldByReads ==
  ASSUME StreamAssumption, Control, Data, Replied, Orderly, Gathered, Told, AgentReads
  PROVE  Told'
<1> DEFINE m == seen + 1
           f == sent[m]
<1>1. /\ route = "agent" /\ route' = "agent" /\ stage = "draining" /\ left' = left
      /\ seen' = m /\ sent' = sent /\ finish' = (finish \/ Ends(f))
      /\ stage' = (IF f.kind = "end" THEN "over" ELSE stage) /\ left # "over"
  BY DEF AgentReads, Sentinel, Told
<1>2. f \in Frames /\ m \in Nat /\ 1 .. m = (1 .. seen) \cup {m} /\ out \in Seq(Chunks)
  BY NextFrame DEF AgentReads, Told
<1>3. finish' <=> \E k \in 1 .. seen' : Ends(sent'[k])
  <2>1. finish <=> \E k \in 1 .. seen : Ends(sent[k])
    BY <1>1 DEF Told
  <2>2. finish' <=> \E k \in 1 .. m : Ends(sent[k])
    BY <1>1, <1>2, <2>1
  <2> QED
    BY <1>1, <2>2
<1>4. Ends(f) <=> f.kind \in {"stop", "calls"}
  BY DEF Ends
<1>5. /\ ~finish => \A k \in DOMAIN out : ~IsCall(out[k]) /\ ~IsAsked(out[k])
      /\ \A k \in DOMAIN out : out[k].type # "error" /\ (out[k].type = "done" => finish)
      /\ finish /\ left = "no" => \E k \in DOMAIN out : out[k].type = "done"
  BY <1>1 DEF Told
<1> HIDE DEF f, m
<1>6. CASE f.kind = "text" /\ ~finish
           /\ out' = IF left = "no" THEN Append(out, [type |-> "content", frame |-> m]) ELSE out
  <2> DEFINE c == [type |-> "content", frame |-> m]
  <2>1. c \in Chunks /\ c.type = "content"
    BY <1>2, ChunkTypes
  <2>2. ~IsCall(c) /\ ~IsAsked(c)
    BY <2>1, ChunkTypes
  <2> HIDE DEF c
  <2>3. /\ Append(out, c) \in Seq(Chunks)
        /\ DOMAIN Append(out, c) = DOMAIN out \cup {Len(out) + 1}
        /\ Append(out, c)[Len(out) + 1] = c
        /\ \A k \in DOMAIN out : Append(out, c)[k] = out[k]
    BY <1>2, <2>1
  <2>4. out' \in Seq(Chunks) /\ \A k \in DOMAIN out' :
          ~IsCall(out'[k]) /\ ~IsAsked(out'[k]) /\ out'[k].type # "error" /\ out'[k].type # "done"
    BY <1>2, <1>5, <1>6, <2>1, <2>2, <2>3 DEF c
  <2>5. ~finish'
    BY <1>1, <1>4, <1>6
  <2> QED
    BY <1>1, <1>3, <2>4, <2>5 DEF Told, Ends, IsCall, IsAsked, Done
<1>7. CASE f.kind = "stop" /\ ~finish /\ out' = IF left = "no" THEN Append(out, Done("stop")) ELSE out
  <2> DEFINE c == Done("stop")
  <2>1. c \in Chunks /\ c.type = "done"
    BY ChunkTypes
  <2> HIDE DEF c
  <2>3. /\ Append(out, c) \in Seq(Chunks)
        /\ DOMAIN Append(out, c) = DOMAIN out \cup {Len(out) + 1}
        /\ Append(out, c)[Len(out) + 1] = c
        /\ \A k \in DOMAIN out : Append(out, c)[k] = out[k]
    BY <1>2, <2>1
  <2>4. /\ out' \in Seq(Chunks) /\ \A k \in DOMAIN out' : out'[k].type # "error"
        /\ left = "no" => \E k \in DOMAIN out' : out'[k].type = "done"
    BY <1>2, <1>5, <1>7, <2>1, <2>3 DEF c
  <2>5. finish'
    BY <1>1, <1>4, <1>7
  <2> QED
    BY <1>1, <1>3, <2>4, <2>5 DEF Told, Ends
<1>8. CASE f.kind = "calls" /\ ~finish
           /\ out' = IF left = "no" THEN out \o Append(Flushed, Done("tool_calls")) ELSE out
  <2>1. /\ out' \in Seq(Chunks) /\ \A k \in DOMAIN out' : out'[k].type # "error"
        /\ left = "no" => \E k \in DOMAIN out' : out'[k].type = "done"
    BY <1>2, <1>5, <1>8, FlushWhole DEF f, m
  <2>2. finish'
    BY <1>1, <1>4, <1>8
  <2> QED
    BY <1>1, <1>3, <2>1, <2>2 DEF Told, Ends
<1>9. CASE f.kind \notin {"text", "stop", "calls"} /\ out' = out
  <2>1. finish' = finish
    BY <1>1, <1>4, <1>9 DEF Control
  <2> QED
    BY <1>1, <1>2, <1>3, <1>5, <1>9, <2>1 DEF Told, Ends, IsCall, IsAsked, Done
<1> QED
  BY <1>6, <1>7, <1>8, <1>9, AgentWrites DEF f, m

\* The stages only go forward, and only a client that is there can leave.
LEMMA OtherStages ==
  ASSUME Control, Told, [Next]_vars, ~AgentReads, ~ReasonReads
  PROVE  /\ left' = "over" => stage' = "over"
         /\ stage' \in {"calling", "draining"} => stage \in {"calling", "draining"}
         /\ left' \in {"no", "over"} => left \in {"no", "over"}
<1>1. CASE Leaves
  BY <1>1 DEF Leaves, Told
<1>2. CASE ~Leaves
  <2>1. left' = left
    BY <1>2 DEF Next, Gateway, Handler, Says, Stops, Answers, Refuses, AgentEnds, ReasonEnds,
                Breaks, Charges, ChargeFails, vars
  <2>2. /\ stage = "over" => stage' = "over"
        /\ stage' \in {"calling", "draining"} => stage \in {"calling", "draining"}
    BY <1>2 DEF Next, Gateway, Handler, Says, Stops, Answers, Refuses, AgentEnds, ReasonEnds,
                Breaks, Charges, ChargeFails, vars, Control, Stages
  <2> QED
    BY <2>1, <2>2 DEF Told
<1> QED
  BY <1>1, <1>2

LEMMA OthersAgent ==
  ASSUME Control, Told, [Next]_vars, ~AgentReads, out' # out
  PROVE  route = "agent"
BY DEF Next, Gateway, Handler, Says, Stops, Answers, Refuses, AgentEnds, ReasonReads, ReasonEnds,
       Breaks, Charges, ChargeFails, Leaves, vars, answer, Control, Routes

\* An agent that comes to its end without a word has told it before.
LEMMA Finishing ==
  ASSUME Control, Told, Charged, [Next]_vars, ~AgentReads, ~ReasonReads, route = "agent",
         stage # "over", stage' = "over", out' = out, left' \in {"no", "over"}
  PROVE  finish /\ left \in {"no", "over"}
<1>1. left \in {"no", "over"}
  BY OtherStages
<1>2. left = "no"
  BY <1>1 DEF Told
<1>3. out \in Seq(Chunks) /\ (\A c \in Chunks : Append(out, c) # out) /\ out \o TerminalError # out
  <2>1. out \in Seq(Chunks)
    BY DEF Told
  <2>2. DOMAIN (out \o TerminalError) # DOMAIN out
    BY <2>1, ErrorWritten
  <2> QED
    BY <2>1, <2>2
<1>4. CASE AgentEnds
  <2> SUFFICES ASSUME ~finish PROVE FALSE
    BY <1>1
  <2>1. Written(<<Done("incomplete")>>)
    BY <1>4 DEF AgentEnds
  <2> QED
    BY <1>2, <1>3, <2>1, OneWritten, ChunkTypes
<1>5. CASE Refuses \/ Breaks
  <2>1. Written(TerminalError)
    BY <1>5 DEF Refuses, Breaks
  <2> QED
    BY <1>2, <1>3, <2>1 DEF Written
<1>6. ~ReasonEnds
  BY DEF ReasonEnds
<1>7. ~Charges /\ ~ChargeFails
  BY DEF Charges, ChargeFails, Charged, ReadWhole
<1> QED
  BY <1>4, <1>5, <1>6, <1>7 DEF Next, Gateway, Handler, Says, Stops, Answers, Leaves, vars

LEMMA ToldKept ==
  ASSUME StreamAssumption, Control, Data, Replied, Orderly, Gathered, Told, [Next]_vars
  PROVE  Told'
<1>1. CASE AgentReads
  BY <1>1, ToldByReads
<1>2. CASE ReasonReads
  <2>1. /\ route = "reason" /\ route' = "reason" /\ out' = out /\ out = <<>>
        /\ UNCHANGED <<stage, left>>
    BY <1>2 DEF ReasonReads, Told, answer
  <2> QED
    BY <2>1 DEF Told, IsCall, IsAsked, Done
<1>3. CASE ~AgentReads /\ ~ReasonReads
  <2>1. /\ UNCHANGED <<route, finish>> /\ seen' = seen /\ \A k \in 1 .. seen : sent'[k] = sent[k]
    BY <1>3, OthersRest DEF Rests
  <2>2. route = "agent" => (finish' <=> \E k \in 1 .. seen' : Ends(sent'[k]))
    BY <2>1 DEF Told
  <2>3. /\ left' = "over" => stage' = "over"
        /\ stage' \in {"calling", "draining"} => stage \in {"calling", "draining"}
        /\ left' \in {"no", "over"} => left \in {"no", "over"}
    BY <1>3, OtherStages
  <2>4. CASE out' = out
    <3>1. /\ out' \in Seq(Chunks) /\ (route' = "reason" => out' = <<>>)
          /\ ~finish' => \A k \in DOMAIN out' : ~IsCall(out'[k]) /\ ~IsAsked(out'[k])
          /\ stage' \in {"calling", "draining"} =>
               \A k \in DOMAIN out' : out'[k].type # "error" /\ (out'[k].type = "done" => finish')
          /\ finish' /\ left' \in {"no", "over"} /\ route' = "agent" =>
               \E k \in DOMAIN out' : out'[k].type = "done"
      BY <2>1, <2>3, <2>4 DEF Told
    <3> QED
      BY <2>1, <2>2, <2>3, <3>1 DEF Told, IsCall, IsAsked, Done, Ends
  <2>5. ASSUME NEW N, out' \in Seq(Chunks), DOMAIN out' = DOMAIN out \cup N,
               \A k \in N : ~IsCall(out'[k]) /\ ~IsAsked(out'[k]),
               \A k \in DOMAIN out : out'[k] = out[k],
               stage' = "over", route = "agent"
        PROVE  Told'
    <3>1. /\ out' \in Seq(Chunks) /\ DOMAIN out' = DOMAIN out \cup N
          /\ \A k \in DOMAIN out : out'[k] = out[k]
      BY <2>5
    <3>2. ~finish' => \A k \in DOMAIN out' : ~IsCall(out'[k]) /\ ~IsAsked(out'[k])
      BY <2>1, <2>5, <3>1 DEF Told
    <3>3. finish' /\ left' \in {"no", "over"} => \E k \in DOMAIN out' : out'[k].type = "done"
      BY <2>1, <2>3, <2>5, <3>1 DEF Told
    <3> QED
      BY <2>1, <2>2, <2>3, <2>5, <3>1, <3>2, <3>3 DEF Told, IsCall, IsAsked, Done, Ends
  <2>6. out' # out => route = "agent"
    BY <1>3, OthersAgent
  <2>7. \/ out' = out
        \/ out' = out \o TerminalError /\ stage' = "over"
        \/ out' = Append(out, Done("incomplete")) /\ stage' = "over"
    BY <1>3, OtherWrites
  <2>8. /\ Done("incomplete") \in Chunks /\ ~IsCall(Done("incomplete")) /\ ~IsAsked(Done("incomplete"))
        /\ out \in Seq(Chunks)
    BY ChunkTypes DEF IsCall, Done, Told
  <2>9. CASE out' = out \o TerminalError /\ stage' = "over" /\ route = "agent"
    <3> DEFINE N == {Len(out) + 1, Len(out) + 2}
    <3>1. /\ out' \in Seq(Chunks) /\ DOMAIN out' = DOMAIN out \cup N
          /\ \A k \in N : ~IsCall(out'[k]) /\ ~IsAsked(out'[k])
          /\ \A k \in DOMAIN out : out'[k] = out[k]
      BY <2>8, <2>9, ErrorWritten
    <3> HIDE DEF N
    <3> QED
      BY <2>5, <2>9, <3>1
  <2>10. CASE out' = Append(out, Done("incomplete")) /\ stage' = "over" /\ route = "agent"
    <3> DEFINE c == Done("incomplete")
               N == {Len(out) + 1}
    <3> HIDE DEF c
    <3>1. /\ out' \in Seq(Chunks) /\ DOMAIN out' = DOMAIN out \cup N
          /\ \A k \in N : ~IsCall(out'[k]) /\ ~IsAsked(out'[k])
          /\ \A k \in DOMAIN out : out'[k] = out[k]
      <4>1. c \in Chunks /\ ~IsCall(c) /\ ~IsAsked(c) /\ out' = Append(out, c)
        BY <2>8, <2>10 DEF c
      <4> QED
        BY <2>8, <4>1
    <3> HIDE DEF N
    <3> QED
      BY <2>5, <2>10, <3>1
  <2> QED
    BY <2>4, <2>6, <2>7, <2>9, <2>10
<1> QED
  BY <1>1, <1>2, <1>3

LEMMA CallsWholeKept ==
  ASSUME StreamAssumption, Control, Data, Replied, Orderly, Gathered, Told, CallsWhole, [Next]_vars
  PROVE  CallsWhole'
<1>0. WholeOf(out, seen, sent) /\ out \in Seq(Chunks)
  BY DEF CallsWhole, WholeOf, Lists, Listing, IsCall, IsAsked, Told
<1> SUFFICES WholeOf(out', seen', sent')
  BY DEF CallsWhole, WholeOf, Lists, Listing, IsCall, IsAsked, Piece, Done
<1>1. CASE AgentReads
  <2> DEFINE m == seen + 1
             f == sent[m]
  <2>1. seen' = m /\ sent' = sent
    BY <1>1 DEF AgentReads
  <2>2. f \in Frames /\ m \in Nat /\ 1 .. m = (1 .. seen) \cup {m}
    BY <1>1, NextFrame DEF AgentReads
  <2>3. (\E k \in DOMAIN out : IsCall(out[k]) \/ IsAsked(out[k])) => finish
    BY DEF Told
  <2>4. finish => f.kind \in Late
    BY <1>1, LateFrame
  <2>5. CASE f.kind # "calls"
    <3>1. (\E k \in DOMAIN out : IsCall(out[k]) \/ IsAsked(out[k])) => SamePieces(seen, sent, m, sent)
      <4> SUFFICES ASSUME f.kind \in Late PROVE SamePieces(seen, sent, m, sent)
        BY <2>3, <2>4
      <4>1. \A i, name : f # Piece(i, name)
        BY <2>2, FrameKinds DEF Late
      <4> QED
        BY <2>2, <4>1 DEF SamePieces
    <3>2. WholeOf(out, m, sent)
      BY <1>0, <3>1, WholeStays
    <3>3. \/ out' = out
          \/ out' = Append(out, [type |-> "content", frame |-> m])
          \/ out' = Append(out, Done("stop"))
      BY <1>1, <2>5, AgentWrites
    <3>4. LET c == [type |-> "content", frame |-> m]
          IN c \in Chunks /\ ~IsCall(c) /\ ~IsAsked(c)
      BY <2>2, ChunkTypes DEF IsCall
    <3>5. Done("stop") \in Chunks /\ ~IsCall(Done("stop")) /\ ~IsAsked(Done("stop"))
      BY ChunkTypes
    <3> QED
      BY <1>0, <2>1, <3>2, <3>3, <3>4, <3>5, WholeAppend
  <2>6. CASE f.kind = "calls"
    <3>1. ~finish /\ out' = IF left = "no" THEN out \o Append(Flushed, Done("tool_calls")) ELSE out
      BY <1>1, <2>6, AgentWrites
    <3>2. WholeOf(out \o Append(Flushed, Done("tool_calls")), m, sent)
      BY <1>1, <2>6, <3>1, FlushWhole
    <3>3. WholeOf(out, m, sent)
      BY <1>0, <2>3, <3>1, WholeStays
    <3> QED
      BY <2>1, <3>1, <3>2, <3>3
  <2> QED
    BY <2>5, <2>6
<1>2. CASE ReasonReads
  <2>1. out' = out /\ out = <<>>
    BY <1>2 DEF ReasonReads, Told, answer
  <2>2. \A n, f : WholeOf(<<>>, n, f)
    BY DEF WholeOf
  <2> QED
    BY <2>1, <2>2
<1>3. CASE ~AgentReads /\ ~ReasonReads
  <2>1. seen' = seen /\ \A k \in 1 .. seen : sent'[k] = sent[k]
    BY <1>3, OthersRest DEF Rests
  <2>2. SamePieces(seen, sent, seen', sent')
    BY <2>1 DEF SamePieces
  <2>3. WholeOf(out, seen', sent')
    BY <1>0, <2>2, WholeStays
  <2>4. out' = out \/ out' = out \o TerminalError \/ out' = Append(out, Done("incomplete"))
    BY <1>3, OtherWrites
  <2>5. Done("incomplete") \in Chunks /\ ~IsCall(Done("incomplete")) /\ ~IsAsked(Done("incomplete"))
    BY ChunkTypes DEF IsCall, Done
  <2>6. CASE out' = out \o TerminalError
    <3> DEFINE c == [type |-> "content", frame |-> 0]
               e == Chunk("error")
    <3>1. /\ c \in Chunks /\ ~IsCall(c) /\ ~IsAsked(c) /\ e \in Chunks /\ ~IsCall(e) /\ ~IsAsked(e)
          /\ out' = Append(Append(out, c), e) /\ Append(out, c) \in Seq(Chunks)
      BY <1>0, <2>6, ErrorWritten
    <3> HIDE DEF c, e
    <3>2. WholeOf(Append(out, c), seen', sent')
      BY <1>0, <2>3, <3>1, WholeAppend
    <3> QED
      BY <3>1, <3>2, WholeAppend
  <2> QED
    BY <1>0, <2>3, <2>4, <2>5, <2>6, WholeAppend
<1> QED
  BY <1>1, <1>2, <1>3

LEMMA EndToldKept ==
  ASSUME StreamAssumption, Control, Data, Replied, Orderly, Gathered, Told, Charged, EndTold, [Next]_vars
  PROVE  EndTold'
<1> SUFFICES ASSUME route' = "agent", stage' = "over", left' \in {"no", "over"}
             PROVE  \/ \E k \in DOMAIN out' : out'[k].type \in {"done", "error"}
                    \/ /\ \E k \in 1 .. seen' : sent'[k].kind = "end"
                       /\ \A k \in 1 .. seen' : ~Ends(sent'[k])
  BY DEF EndTold, Ends
<1>1. CASE AgentReads
  <2>1. Told'
    BY <1>1, ToldByReads
  <2>2. CASE finish'
    BY <2>1, <2>2 DEF Told
  <2>3. CASE ~finish'
    <3>1. \A k \in 1 .. seen' : ~Ends(sent'[k])
      BY <2>1, <2>3 DEF Told, Ends
    <3>2. sent[seen + 1].kind = "end" /\ seen' = seen + 1 /\ sent' = sent
      BY <1>1 DEF AgentReads, Sentinel
    <3>3. seen + 1 \in 1 .. seen'
      BY <1>1, <3>2, NextFrame DEF AgentReads
    <3> QED
      BY <3>1, <3>2, <3>3
  <2> QED
    BY <2>2, <2>3
<1>2. CASE ReasonReads
  BY <1>2 DEF ReasonReads
<1>3. CASE ~AgentReads /\ ~ReasonReads
  <2>1. /\ route = "agent" /\ seen' = seen /\ \A k \in 1 .. seen : sent'[k] = sent[k]
    BY <1>3, OthersRest DEF Rests
  <2>2. CASE out' # out
    <3>1. out' = out \o TerminalError \/ out' = Append(out, Done("incomplete"))
      BY <1>3, <2>2, OtherWrites
    <3>2. CASE out' = out \o TerminalError
      <4>1. Len(out) + 2 \in DOMAIN out' /\ out'[Len(out) + 2] = Chunk("error")
        BY <3>2, ErrorWritten DEF Told
      <4> QED
        BY <4>1, ChunkTypes
    <3>3. CASE out' = Append(out, Done("incomplete"))
      <4> DEFINE c == Done("incomplete")
      <4>1. c \in Chunks /\ c.type = "done"
        BY ChunkTypes
      <4> HIDE DEF c
      <4>2. Len(out) + 1 \in DOMAIN out' /\ out'[Len(out) + 1] = c
        BY <3>3, <4>1 DEF Told, c
      <4> QED
        BY <4>1, <4>2
    <3> QED
      BY <3>1, <3>2, <3>3
  <2>3. CASE out' = out /\ stage = "over"
    <3>1. left \in {"no", "over"}
      BY <1>3, OtherStages
    <3> QED
      BY <2>1, <2>3, <3>1 DEF EndTold
  <2>4. CASE out' = out /\ stage # "over"
    <3>1. finish /\ left \in {"no", "over"}
      BY <1>3, <2>1, <2>4, Finishing
    <3> QED
      BY <2>1, <2>4, <3>1 DEF Told
  <2> QED
    BY <2>2, <2>3, <2>4
<1> QED
  BY <1>1, <1>2, <1>3

AgentInv == Orderly /\ Gathered /\ Told /\ CallsWhole /\ EndTold

LEMMA AgentInit ==
  ASSUME Init
  PROVE  AgentInv
<1>1. /\ sent = <<>> /\ seen = 0 /\ out = <<>> /\ ~finish /\ stage = "calling" /\ left = "no"
      /\ calls = [i \in Indices |-> Absent]
  BY DEF Init
<1>2. DOMAIN sent = {} /\ DOMAIN out = {} /\ 1 .. seen = {}
  BY <1>1
<1>3. Orderly /\ EndTold
  BY <1>1, <1>2 DEF Orderly, EndTold
<1>4. Gathered
  <2>1. \A i \in Indices : calls[i].args = <<>> /\ ~calls[i].named
    BY <1>1 DEF Absent
  <2>2. Named = {}
    BY <2>1 DEF Named
  <2>3. \A S : Lists(<<>>, S)
    BY <1>2 DEF Lists
  <2> QED
    BY <1>2, <2>1, <2>2, <2>3, FS_EmptySet DEF Gathered
<1>5. Told
  <2>1. <<>> \in Seq(Chunks)
    OBVIOUS
  <2> QED
    BY <1>1, <1>2, <2>1 DEF Told
<1>6. CallsWhole
  BY <1>2 DEF CallsWhole
<1> QED
  BY <1>3, <1>4, <1>5, <1>6 DEF AgentInv

\* A chunk that ends the stream is behind all others, but for an error's two behind a done.
LEMMA LastWordStep ==
  ASSUME Control, Data, Orderly, Told, [Next]_vars, NEW k \in DOMAIN out
  PROVE  /\ out[k].type = "error" => out' = out
         /\ out[k].type = "done" => out' \in {out, out \o TerminalError}
<1>1. CASE stage \in {"calling", "draining"}
  <2>1. out[k].type # "error" /\ (out[k].type = "done" => finish)
    BY <1>1 DEF Told
  <2>2. CASE AgentReads
    BY <2>1, <2>2, AgentWrites
  <2>3. CASE ~AgentReads
    BY <2>1, <2>3, OtherWrites
  <2> QED
    BY <2>1, <2>2, <2>3
<1>2. CASE stage \notin {"calling", "draining"}
  <2>1. UNCHANGED out
    BY <1>2 DEF Next, Gateway, Handler, Says, Stops, Answers, Refuses, AgentReads, AgentEnds,
       ReasonReads, ReasonEnds, Breaks, Charges, ChargeFails, Leaves, vars, answer
  <2> QED
    BY <2>1
<1> QED
  BY <1>1, <1>2

---------------------------------------------------------------------------
(* CompletionStream: the theorems                                          *)

\* The inductive invariant holds in every reachable state of both routes.
THEOREM StreamInductive == Spec => [](StreamInv /\ AgentInv)
<1>1. Init => StreamInv /\ AgentInv
  BY InitHolds, AgentInit
<1>2. StreamInv /\ [Next]_vars => StreamInv'
  BY ControlKept, ReadsKept, RepliedKept, ChargedKept DEF StreamInv
<1>3. StreamInv /\ AgentInv /\ [Next]_vars => AgentInv'
  BY OrderlyKept, GatheredKept, ToldKept, CallsWholeKept, EndToldKept, StreamAssumption
  DEF StreamInv, AgentInv
<1> QED
  BY <1>1, <1>2, <1>3, PTL DEF Spec

\* Every reachable state has the declared shape.
THEOREM StreamTypeCorrect == Spec => []TypeOK
<1>1. StreamInv => TypeOK
  BY DEF StreamInv, Control, Data, Replied, TypeOK
<1> QED
  BY StreamInductive, <1>1, PTL

\* The reason route charges and answers only for a stream that was read to its end and
\* was whole, with all of its text (routes/reason.ts:190-244).
THEOREM NothingChargedInPart == Spec => []ChargedWhole
<1>1. StreamInv => ChargedWhole
  <2> SUFFICES ASSUME StreamInv, row \/ reply = "ok" PROVE
        /\ fin = "eof" /\ seen = Len(sent)
        /\ \E k \in DOMAIN sent : Ends(sent[k])
        /\ \E k \in DOMAIN sent : sent[k].kind = "usage" \/ (Ends(sent[k]) /\ sent[k].usage)
        /\ \A k \in DOMAIN sent : sent[k].kind # "error"
        /\ Lists(text, {[kind |-> "text"]})
        /\ reply = "ok" => row
    BY DEF ChargedWhole
  <2>1. ReadWhole /\ (reply = "ok" => row)
    BY DEF StreamInv, Charged
  <2>2. 1 .. seen = DOMAIN sent
    BY <2>1 DEF ReadWhole, StreamInv, Data
  <2> QED
    BY <2>1, <2>2 DEF ReadWhole, Whole, StreamInv, Read, IsUsage
<1> QED
  BY StreamInductive, <1>1, PTL

\* Tool calls reach the client whole and in order, with the finish that asks for them,
\* or not at all (lib/tool-call-accumulator.ts:60-90).
THEOREM CallsComeWhole == Spec => []CallsWhole
BY StreamInductive, PTL DEF AgentInv

\* A client that has stayed to the end has been told how the stream ended, but for a
\* sentinel without a finish (lib/sse-parser.ts:148-157).
THEOREM EndIsTold == Spec => []EndTold
BY StreamInductive, PTL DEF AgentInv

\* An error is the last thing a client is told, and a done is followed by nothing but
\* the two chunks of an error (docs/operations.md:1969-1972).
THEOREM LastWordKept == Spec => LastWord
<1>1. StreamInv /\ AgentInv /\ [Next]_vars =>
        [\A k \in DOMAIN out :
           /\ out[k].type = "error" => out' = out
           /\ out[k].type = "done" => out' \in {out, out \o TerminalError}]_vars
  BY LastWordStep DEF StreamInv, AgentInv
<1> QED
  BY StreamInductive, <1>1, PTL DEF Spec, LastWord

---------------------------------------------------------------------------
(* RealtimeRelay: the control                                              *)

\* Only the upstream is ever dialled.
ClientShape == state["client"] \notin {"connecting", "aborting"}

\* What the clocks of a leg say while the timer is set: without a ping to answer
\* the peer was heard of since the last beat, with one at most an interval before
\* the ping; the last beat saw every leg fresh; a peer is not heard of once gone.
LegClocks(leg) ==
  /\ state[leg] = "open" /\ ping[leg] = 0 => age[leg] <= sinceTick
  /\ ping[leg] > 0 => age[leg] + 1 <= ping[leg] + Interval
  /\ state[leg] = "connecting" => age[leg] <= dial /\ ping[leg] = 0
  /\ age[leg] <= Interval + Timeout + sinceTick
  /\ gone[leg] <= age[leg] + 1

Clocks == timer => \A leg \in Legs : LegClocks(leg)

\* A code is only given once the upstream is past its dial, and a client that was
\* given one, or whose upstream rejected the handshake, is no longer open.
Farewell ==
  /\ code # "none" => state["upstream"] # "connecting" /\ state["client"] # "open"
  /\ rejected # "none" => /\ state["upstream"] \in {"aborting", "closed"}
                          /\ state["client"] # "open"
                          /\ code \in {"none", MapStatus(rejected)}

RelayInv == RelayTypeOK /\ ClientShape /\ TimerWhileUp /\ Clocks /\ Farewell

---------------------------------------------------------------------------
(* A step of the bridge keeps it                                           *)

\* A frame that is forwarded, buffered or dropped moves nothing of the control.
LEMMA FramesKeep ==
  ASSUME RelayInv, UNCHANGED <<state, timer, clocks, code, rejected>>
  PROVE  RelayInv'
BY DEF RelayInv, RelayTypeOK, ClientShape, TimerWhileUp, Clocks, LegClocks, Farewell, clocks, Up

LEMMA DownType ==
  /\ \A s \in States : Down(s) \in States /\ Down(s) # "open"
  /\ Down("open") = "closing" /\ Down("connecting") = "aborting"
  /\ Down("aborting") = "aborting" /\ Down("closing") = "closing" /\ Down("closed") = "closed"
BY DEF Down, States

LEMMA OpensKeeps ==
  ASSUME RelayAssumption, RelayInv, UpstreamOpens
  PROVE  RelayInv'
<1> USE DEF UpstreamOpens
<1>1. RelayTypeOK' BY DEF RelayInv, RelayTypeOK, Legs, States
<1>2. ClientShape' BY DEF RelayInv, RelayTypeOK, ClientShape, Legs
<1>3. TimerWhileUp' BY DEF RelayInv, RelayTypeOK, TimerWhileUp, Up, Legs
<1>4. Clocks'
  <2> SUFFICES ASSUME timer, NEW leg \in Legs PROVE LegClocks(leg)'
    BY DEF Clocks
  <2>1. LegClocks(leg) BY DEF RelayInv, Clocks
  <2>2. CASE leg = "client"
    BY <2>1, <2>2 DEF RelayInv, RelayTypeOK, LegClocks, Legs
  <2>3. CASE leg = "upstream"
    BY <2>1, <2>3 DEF RelayInv, RelayTypeOK, LegClocks, Legs, RelayAssumption
  <2> QED BY <2>2, <2>3 DEF Legs
<1>5. Farewell' BY DEF RelayInv, RelayTypeOK, Farewell, Legs
<1> QED BY <1>1, <1>2, <1>3, <1>4, <1>5 DEF RelayInv

\* Every step that stops the timer: the clocks of the legs no longer matter.
LEMMA StopsKeeps ==
  ASSUME RelayInv, timer' = FALSE, RelayTypeOK', ClientShape', Farewell',
         \E leg \in Legs : ~Up(leg)'
  PROVE  RelayInv'
BY DEF RelayInv, TimerWhileUp, Clocks

LEMMA CloseBothKeeps ==
  ASSUME RelayInv, NEW leg \in Legs, NEW c \in Codes, state[leg] # "connecting", CloseBoth(leg, c),
         UNCHANGED <<clocks, rejected>>
  PROVE  RelayInv'
<1> USE DEF CloseBoth, ClosesClient
<1>1. SafeCode(c) \in {"normal", "internal"} BY DEF SafeCode
<1>2. state' \in [Legs -> States]
  BY DownType DEF RelayInv, RelayTypeOK, Legs, Other, States
<1>3. RelayTypeOK'
  BY <1>1, <1>2 DEF RelayInv, RelayTypeOK, clocks, Codes
<1>4. ClientShape'
  BY DownType DEF RelayInv, RelayTypeOK, ClientShape, Legs, Other, States
<1>5. Farewell'
  <2>1. CASE leg = "client"
    BY <2>1, DownType DEF RelayInv, RelayTypeOK, Farewell, Legs, Other, States
  <2>2. CASE leg = "upstream"
    BY <1>1, <2>2, DownType DEF RelayInv, RelayTypeOK, Farewell, Legs, Other, States, ClientShape
  <2> QED BY <2>1, <2>2 DEF Legs
<1>6. state'[leg] = "closed" BY DEF RelayInv, RelayTypeOK, Legs, Other
<1>7. \E l \in Legs : ~Up(l)' BY <1>6 DEF Up
<1> QED BY <1>3, <1>4, <1>5, <1>7, StopsKeeps

LEMMA TornDownKeeps ==
  ASSUME RelayInv, TornDown
  PROVE  RelayInv'
<1>1. ASSUME NEW leg \in Legs, NEW c \in PeerCodes, Closed(leg, c) PROVE RelayInv'
  BY <1>1, CloseBothKeeps DEF Closed, PeerCodes, Codes
<1>2. ASSUME NEW leg \in Legs, PeerCloses(leg) PROVE RelayInv'
  <2> USE <1>2 DEF PeerCloses
  <2>1. /\ state' \in [Legs -> States] /\ state'[leg] = "closing" /\ state[leg] = "open"
        /\ \A l \in Legs : l # leg => state'[l] = state[l]
    BY DEF RelayInv, RelayTypeOK, States
  <2>2. RelayTypeOK' BY <2>1 DEF RelayInv, RelayTypeOK, clocks
  <2>3. ClientShape' BY <2>1 DEF RelayInv, ClientShape, Legs
  <2>4. TimerWhileUp' BY <2>1 DEF RelayInv, TimerWhileUp, Up
  <2>5. Clocks'
    <3> SUFFICES ASSUME timer, NEW l \in Legs PROVE LegClocks(l)'
      BY DEF Clocks
    <3>1. LegClocks(l) BY DEF RelayInv, Clocks
    <3> QED BY <2>1, <3>1 DEF LegClocks, clocks
  <2>6. Farewell' BY <2>1 DEF RelayInv, Farewell, Legs
  <2> QED BY <2>2, <2>3, <2>4, <2>5, <2>6 DEF RelayInv
<1>3. CASE ClientErrs
  <2> USE <1>3 DEF ClientErrs
  <2>1. RelayTypeOK' BY DEF RelayInv, RelayTypeOK, clocks, States
  <2>2. ClientShape' BY DEF RelayInv, ClientShape, Legs
  <2>3. Farewell' BY DEF RelayInv, Farewell, Legs
  <2>4. state'["client"] = "closing" BY DEF Legs
  <2>5. \E l \in Legs : ~Up(l)' BY <2>4 DEF Up, Legs
  <2> QED BY <2>1, <2>2, <2>3, <2>5, StopsKeeps
<1>4. CASE UpstreamErrs
  <2> USE <1>4 DEF UpstreamErrs, ClosesClient
  <2>1. RelayTypeOK' BY DEF RelayInv, RelayTypeOK, clocks, States, Codes
  <2>2. ClientShape' BY DEF RelayInv, ClientShape, Legs
  <2>3. Farewell' BY DEF RelayInv, Farewell, Legs
  <2>4. state'["upstream"] = "closing" BY DEF Legs
  <2>5. \E l \in Legs : ~Up(l)' BY <2>4 DEF Up, Legs
  <2> QED BY <2>1, <2>2, <2>3, <2>5, StopsKeeps
<1>5. CASE DialFails
  <2> USE <1>5 DEF DialFails
  <2>1. RelayTypeOK' BY DEF RelayInv, RelayTypeOK, clocks, States, Legs
  <2>2. ClientShape' BY DEF RelayInv, RelayTypeOK, ClientShape, Legs
  <2>3. Farewell' BY DEF RelayInv, RelayTypeOK, Farewell, Legs
  <2>4. TimerWhileUp' BY DEF RelayInv, RelayTypeOK, TimerWhileUp, Up, Legs
  <2>5. Clocks'
    <3> SUFFICES ASSUME timer, NEW leg \in Legs PROVE LegClocks(leg)'
      BY DEF Clocks
    <3>1. LegClocks(leg) BY DEF RelayInv, Clocks
    <3> QED BY <3>1 DEF RelayInv, RelayTypeOK, LegClocks, Legs, clocks
  <2> QED BY <2>1, <2>2, <2>3, <2>4, <2>5 DEF RelayInv
<1>6. CASE Aborted
  <2> USE <1>6 DEF Aborted, ClosesClient
  <2>1. state' \in [Legs -> States] BY DownType DEF RelayInv, RelayTypeOK, Legs, States
  <2>2. RelayTypeOK' BY <2>1 DEF RelayInv, RelayTypeOK, clocks, Codes
  <2>3. ClientShape' BY DownType DEF RelayInv, RelayTypeOK, ClientShape, Legs, States
  <2>4. Farewell' BY DownType DEF RelayInv, RelayTypeOK, Farewell, Legs, ClientShape, States
  <2>5. state'["upstream"] = "closed" BY DEF RelayInv, RelayTypeOK, Legs
  <2>6. \E l \in Legs : ~Up(l)' BY <2>5 DEF Up, Legs
  <2> QED BY <2>2, <2>3, <2>4, <2>6, StopsKeeps
<1>7. ASSUME NEW status \in Statuses, HandshakeRejected(status) PROVE RelayInv'
  <2> USE <1>7 DEF HandshakeRejected, ClosesClient
  <2>1. MapStatus(status) \in Codes \ {"none"} BY DEF MapStatus, Codes
  <2>2. state' \in [Legs -> States] BY DownType DEF RelayInv, RelayTypeOK, Legs, States
  <2>3. RelayTypeOK' BY <2>1, <2>2 DEF RelayInv, RelayTypeOK, clocks
  <2>4. ClientShape' BY DownType DEF RelayInv, RelayTypeOK, ClientShape, Legs, States
  <2>5. state'["upstream"] = "aborting" BY DownType DEF Legs
  <2>6. state'["client"] # "open" BY DownType DEF RelayInv, RelayTypeOK, Legs, States, ClientShape
  <2>7. code = "none" BY DEF RelayInv, Farewell
  <2>8. code' \in {"none", MapStatus(status)} BY <2>7
  <2>9. status # "none" BY DEF Statuses
  <2>10. Farewell' BY <2>5, <2>6, <2>8, <2>9 DEF Farewell
  <2>11. \E l \in Legs : ~Up(l)' BY <2>5 DEF Up, Legs
  <2> QED BY <2>3, <2>4, <2>10, <2>11, StopsKeeps
<1> QED BY <1>1, <1>2, <1>3, <1>4, <1>5, <1>6, <1>7 DEF TornDown

\* A beat cuts, or pings; the next unit of time passes before the next one.
LEMMA CutsKeeps ==
  ASSUME RelayAssumption, RelayInv, HeartbeatCuts
  PROVE  RelayInv'
<1>1. state' = [leg \in Legs |-> Down(state[leg])] BY DEF HeartbeatCuts
<1>2. RelayTypeOK'
  <2>1. state' \in [Legs -> States] BY <1>1, DownType DEF RelayInv, RelayTypeOK
  <2>2. sinceTick' = 0 /\ timer' = FALSE /\ UNCHANGED <<age, ping, gone, dial, code, rejected>>
    BY DEF HeartbeatCuts
  <2>3. timer' \in BOOLEAN BY <2>2
  <2>4. sinceTick' \in 0 .. Interval BY <2>2, RelayAssumption DEF RelayAssumption
  <2>5. /\ age' \in [Legs -> Nat] /\ ping' \in [Legs -> Nat] /\ gone' \in [Legs -> Nat]
        /\ dial' \in 0 .. Handshake /\ code' \in Codes /\ rejected' \in Statuses \cup {"none"}
    BY <2>2 DEF RelayInv, RelayTypeOK
  <2> QED BY <2>1, <2>3, <2>4, <2>5 DEF RelayTypeOK
<1> USE DEF HeartbeatCuts
<1>3. ClientShape' BY DownType DEF RelayInv, RelayTypeOK, ClientShape, Legs, States
<1>4. code = "none" /\ rejected = "none" BY DEF RelayInv, TimerWhileUp, TickDue
<1>5. state["client"] \in {"open", "closing", "closed"}
  BY DEF RelayInv, RelayTypeOK, ClientShape, Legs, States
<1>6. Farewell' BY <1>4 DEF Farewell
<1>7. \E l \in Legs : ~Up(l)' BY <1>1, <1>5, DownType DEF Up, Legs
<1> QED BY <1>2, <1>3, <1>6, <1>7, StopsKeeps

LEMMA PingsKeeps ==
  ASSUME RelayAssumption, RelayInv, HeartbeatPings
  PROVE  RelayInv'
<1> USE DEF HeartbeatPings
<1>1. RelayTypeOK' BY DEF RelayInv, RelayTypeOK, RelayAssumption
<1>2. ClientShape' BY DEF RelayInv, ClientShape
<1>3. TimerWhileUp' BY DEF RelayInv, TimerWhileUp, Up
<1>4. Clocks'
  <2> SUFFICES ASSUME timer, NEW leg \in Legs PROVE LegClocks(leg)'
    BY DEF Clocks
  <2>1. LegClocks(leg) BY DEF RelayInv, Clocks
  <2>2. age[leg] <= Interval + Timeout BY DEF Stale, RelayInv, RelayTypeOK, RelayAssumption
  <2>3. sinceTick = Interval BY DEF TickDue
  <2>4. CASE state[leg] = "open" /\ ping[leg] = 0
    BY <2>1, <2>2, <2>3, <2>4 DEF RelayInv, RelayTypeOK, LegClocks, RelayAssumption
  <2>5. CASE ~(state[leg] = "open" /\ ping[leg] = 0)
    BY <2>1, <2>2, <2>3, <2>5 DEF RelayInv, RelayTypeOK, LegClocks, RelayAssumption
  <2> QED BY <2>4, <2>5
<1>5. Farewell' BY DEF RelayInv, Farewell
<1> QED BY <1>1, <1>2, <1>3, <1>4, <1>5 DEF RelayInv

LEMMA PongKeeps ==
  ASSUME RelayAssumption, RelayInv, NEW leg \in Legs, Pong(leg)
  PROVE  RelayInv'
<1> USE DEF Pong
<1>1. RelayTypeOK' BY DEF RelayInv, RelayTypeOK
<1>2. ClientShape' BY DEF RelayInv, ClientShape
<1>3. TimerWhileUp' BY DEF RelayInv, TimerWhileUp, Up
<1>4. Clocks'
  <2> SUFFICES ASSUME timer, NEW l \in Legs PROVE LegClocks(l)'
    BY DEF Clocks
  <2>1. LegClocks(l) BY DEF RelayInv, Clocks
  <2> QED BY <2>1 DEF RelayInv, RelayTypeOK, LegClocks, RelayAssumption
<1>5. Farewell' BY DEF RelayInv, Farewell
<1> QED BY <1>1, <1>2, <1>3, <1>4, <1>5 DEF RelayInv

LEMMA VanishesKeeps ==
  ASSUME RelayAssumption, RelayInv, NEW leg \in Legs, Vanishes(leg)
  PROVE  RelayInv'
<1> USE DEF Vanishes
<1>1. RelayTypeOK' BY DEF RelayInv, RelayTypeOK
<1>2. ClientShape' BY DEF RelayInv, ClientShape
<1>3. TimerWhileUp' BY DEF RelayInv, TimerWhileUp, Up
<1>4. Clocks'
  <2> SUFFICES ASSUME timer, NEW l \in Legs PROVE LegClocks(l)'
    BY DEF Clocks
  <2>1. LegClocks(l) BY DEF RelayInv, Clocks
  <2> QED BY <2>1 DEF RelayInv, RelayTypeOK, LegClocks, RelayAssumption
<1>5. Farewell' BY DEF RelayInv, Farewell
<1> QED BY <1>1, <1>2, <1>3, <1>4, <1>5 DEF RelayInv

LEMMA PassesKeeps ==
  ASSUME RelayAssumption, RelayInv, TimePasses
  PROVE  RelayInv'
<1> USE DEF TimePasses
<1>1. RelayTypeOK'
  <2>1. CASE timer BY <2>1 DEF RelayInv, RelayTypeOK, Runs, RelayAssumption
  <2>2. CASE ~timer BY <2>2 DEF RelayInv, RelayTypeOK, RelayAssumption
  <2> QED BY <2>1, <2>2
<1>2. ClientShape' BY DEF RelayInv, ClientShape
<1>3. TimerWhileUp' BY DEF RelayInv, TimerWhileUp, Up
<1>4. Clocks'
  <2> SUFFICES ASSUME timer, NEW leg \in Legs PROVE LegClocks(leg)'
    BY DEF Clocks
  <2>1. LegClocks(leg) BY DEF RelayInv, Clocks
  <2>2. /\ age'[leg] = age[leg] + 1 /\ ping'[leg] = Runs(ping[leg])
        /\ gone'[leg] = Runs(gone[leg]) /\ sinceTick' = sinceTick + 1
    BY DEF RelayInv
  <2>3. state["client"] # "connecting" BY DEF RelayInv, ClientShape
  <2>4. state[leg] = "connecting" => dial' = dial + 1
    BY <2>3 DEF Legs
  <2> QED BY <2>1, <2>2, <2>4 DEF RelayInv, RelayTypeOK, LegClocks, Runs, RelayAssumption
<1>5. Farewell' BY DEF RelayInv, Farewell
<1> QED BY <1>1, <1>2, <1>3, <1>4, <1>5 DEF RelayInv

\* The invariant the theorems follow from.
THEOREM RelayInductive == RelaySpec => []RelayInv
<1>1. ASSUME RelayInit PROVE RelayInv
  <2> USE <1>1 DEF RelayInit
  <2>1. RelayTypeOK BY RelayAssumption DEF RelayTypeOK, RelayAssumption, Legs, States, Codes
  <2>2. ClientShape BY DEF ClientShape, Legs
  <2>3. TimerWhileUp BY DEF TimerWhileUp, Up, Legs
  <2>4. Clocks BY RelayAssumption DEF Clocks, LegClocks, Legs, RelayAssumption
  <2>5. Farewell BY DEF Farewell
  <2> QED BY <2>1, <2>2, <2>3, <2>4, <2>5 DEF RelayInv
<1>2. ASSUME RelayInv, [RelayNext]_relayVars PROVE RelayInv'
  <2> USE <1>2
  <2>1. CASE UpstreamOpens BY <2>1, OpensKeeps, RelayAssumption
  <2>2. ASSUME NEW kind \in Kinds, ClientFrame(kind) PROVE RelayInv'
    BY <2>2, FramesKeep DEF ClientFrame
  <2>3. ASSUME NEW refused \in BOOLEAN, UpstreamAnswers(refused) PROVE RelayInv'
    BY <2>3, FramesKeep DEF UpstreamAnswers
  <2>4. CASE TornDown BY <2>4, TornDownKeeps
  <2>5. CASE Timed
    BY <2>5, CutsKeeps, PingsKeeps, PassesKeeps, PongKeeps, VanishesKeeps, RelayAssumption
    DEF Timed
  <2>6. CASE UNCHANGED relayVars BY <2>6, FramesKeep DEF relayVars, clocks
  <2> QED BY <2>1, <2>2, <2>3, <2>4, <2>5, <2>6 DEF RelayNext, Relayed
<1> QED BY <1>1, <1>2, PTL DEF RelaySpec

---------------------------------------------------------------------------
(* RealtimeRelay: the frames                                               *)

\* A sequence with the relay's own update in front.
LEMMA BehindUpdate ==
  ASSUME NEW s \in Seq(Nat)
  PROVE  /\ <<0>> \o s \in Seq(Nat) /\ <<0>> \o s # <<>>
         /\ Len(<<0>> \o s) = Len(s) + 1
         /\ (<<0>> \o s)[1] = 0
         /\ \A k \in 1 .. Len(s) : (<<0>> \o s)[k + 1] = s[k]
         /\ Tail(<<0>> \o s) = s
<1>1. <<0>> \in Seq(Nat) /\ Len(<<0>>) = 1 /\ <<0>>[1] = 0
  OBVIOUS
<1>2. /\ <<0>> \o s \in Seq(Nat) /\ Len(<<0>> \o s) = Len(s) + 1
      /\ \A i \in 1 .. Len(s) + 1 : (<<0>> \o s)[i] = IF i <= 1 THEN <<0>>[i] ELSE s[i - 1]
  BY <1>1, ConcatProperties
<1>3. (<<0>> \o s)[1] = 0
  BY <1>1, <1>2
<1>4. \A k \in 1 .. Len(s) : (<<0>> \o s)[k + 1] = s[k]
  BY <1>2
<1>5. <<0>> \o s # <<>>
  BY <1>2
<1> DEFINE t == <<0>> \o s
<1>6. t \in Seq(Nat) /\ t # <<>> /\ Len(t) = Len(s) + 1
  BY <1>2, <1>5
<1> HIDE DEF t
<1>7. /\ Tail(t) \in Seq(Nat) /\ Len(Tail(t)) = Len(s)
      /\ \A i \in 1 .. Len(s) : Tail(t)[i] = t[i + 1]
  BY <1>6, HeadTailProperties
<1>8. Tail(t) = s
  BY <1>4, <1>7, SeqEqual DEF t
<1> QED
  BY <1>2, <1>3, <1>4, <1>5, <1>8 DEF t

LEMMA TailAppend ==
  ASSUME NEW s \in Seq(Nat), s # <<>>, NEW x \in Nat
  PROVE  Tail(Append(s, x)) = Append(Tail(s), x)
<1> DEFINE a == Append(s, x)
           t == Tail(s)
<1>1. /\ a \in Seq(Nat) /\ a # <<>> /\ Len(a) = Len(s) + 1
      /\ \A i \in 1 .. Len(s) : a[i] = s[i]
      /\ a[Len(s) + 1] = x
  BY AppendProperties
<1>2. /\ t \in Seq(Nat) /\ Len(t) = Len(s) - 1
      /\ \A i \in 1 .. Len(t) : t[i] = s[i + 1]
  BY HeadTailProperties
<1>3. Len(s) \in Nat \ {0}
  OBVIOUS
<1> HIDE DEF a, t
<1>4. /\ Tail(a) \in Seq(Nat) /\ Len(Tail(a)) = Len(s)
      /\ \A i \in 1 .. Len(s) : Tail(a)[i] = a[i + 1]
  BY <1>1, <1>3, HeadTailProperties
<1>5. /\ Append(t, x) \in Seq(Nat) /\ Len(Append(t, x)) = Len(s)
      /\ \A i \in 1 .. Len(s) - 1 : Append(t, x)[i] = t[i]
      /\ Append(t, x)[Len(s)] = x
  <2>1. Len(t) + 1 = Len(s)
    BY <1>2, <1>3
  <2> QED
    BY <1>2, <2>1, AppendProperties
<1>6. \A i \in 1 .. Len(s) : Tail(a)[i] = Append(t, x)[i]
  <2> SUFFICES ASSUME NEW i \in 1 .. Len(s) PROVE Tail(a)[i] = Append(t, x)[i]
    OBVIOUS
  <2>1. CASE i = Len(s)
    BY <1>1, <1>3, <1>4, <1>5, <2>1
  <2>2. CASE i # Len(s)
    <3>1. i \in 1 .. Len(s) - 1 /\ i + 1 \in 1 .. Len(s)
      BY <1>3, <2>2
    <3> QED
      BY <1>1, <1>2, <1>3, <1>4, <1>5, <3>1
  <2> QED
    BY <2>1, <2>2
<1>7. Tail(a) = Append(t, x)
  BY <1>4, <1>5, <1>6, SeqEqual
<1> QED
  BY <1>7 DEF a, t

\* The answers but the first, when one more is given, and when a frame more is sent.
LEMMA SubSeqGrows ==
  ASSUME NEW s \in Seq(Nat), NEW n \in 1 .. Len(s) - 1
  PROVE  SubSeq(s, 2, n + 1) = Append(SubSeq(s, 2, n), s[n + 1])
<1>0. Len(s) \in Nat /\ n + 1 \in 1 .. Len(s)
  OBVIOUS
<1>1. \A i \in 2 .. n + 1 : s[i] \in Nat
  BY <1>0, ElementOfSeq
<1> DEFINE a == SubSeq(s, 2, n + 1)
           b == SubSeq(s, 2, n)
<1>2. a \in Seq(Nat) /\ Len(a) = n /\ \A i \in 1 .. n : a[i] = s[i + 1]
  <2>1. /\ a \in Seq(Nat) /\ Len(a) = IF 2 <= n + 1 THEN n + 1 - 2 + 1 ELSE 0
        /\ \A i \in 1 .. n + 1 - 2 + 1 : a[i] = s[2 + i - 1]
    BY <1>1, SubSeqProperties
  <2>2. n + 1 - 2 + 1 = n /\ (2 <= n + 1) /\ \A i \in 1 .. n : 2 + i - 1 = i + 1
    OBVIOUS
  <2> QED
    BY <2>1, <2>2
<1>3. b \in Seq(Nat) /\ Len(b) = n - 1 /\ \A i \in 1 .. n - 1 : b[i] = s[i + 1]
  <2>1. /\ b \in Seq(Nat) /\ Len(b) = IF 2 <= n THEN n - 2 + 1 ELSE 0
        /\ \A i \in 1 .. n - 2 + 1 : b[i] = s[2 + i - 1]
    BY <1>1, SubSeqProperties
  <2>2. /\ n - 2 + 1 = n - 1 /\ (IF 2 <= n THEN n - 1 ELSE 0) = n - 1
        /\ \A i \in 1 .. n - 1 : 2 + i - 1 = i + 1
    OBVIOUS
  <2> QED
    BY <2>1, <2>2
<1> HIDE DEF a, b
<1> DEFINE x == s[n + 1]
<1>4. x \in Nat
  BY <1>0, ElementOfSeq
<1> HIDE DEF x
<1>5. /\ Append(b, x) \in Seq(Nat) /\ Len(Append(b, x)) = n
      /\ \A i \in 1 .. n - 1 : Append(b, x)[i] = b[i]
      /\ Append(b, x)[n] = x
  <2>1. Len(b) + 1 = n
    BY <1>3
  <2> QED
    BY <1>3, <1>4, <2>1, AppendProperties
<1>6. \A i \in 1 .. Len(a) : a[i] = Append(b, x)[i]
  <2> SUFFICES ASSUME NEW i \in 1 .. n PROVE a[i] = Append(b, x)[i]
    BY <1>2
  <2>1. CASE i = n
    BY <1>2, <1>5, <2>1 DEF x
  <2>2. CASE i # n
    <3>1. i \in 1 .. n - 1
      BY <2>2
    <3> QED
      BY <1>2, <1>3, <1>5, <3>1
  <2> QED
    BY <2>1, <2>2
<1>7. a = Append(b, x)
  BY <1>2, <1>5, <1>6, SeqEqual
<1> QED
  BY <1>7 DEF a, b, x

LEMMA SubSeqKept ==
  ASSUME NEW s \in Seq(Nat), NEW x \in Nat, NEW n \in 0 .. Len(s)
  PROVE  SubSeq(Append(s, x), 2, n) = SubSeq(s, 2, n)
<1>1. \A i \in 2 .. n : s[i] \in Nat /\ Append(s, x)[i] = s[i]
  BY ElementOfSeq, AppendProperties
<1>2. /\ SubSeq(s, 2, n) \in Seq(Nat)
      /\ Len(SubSeq(s, 2, n)) = IF 2 <= n THEN n - 2 + 1 ELSE 0
      /\ \A i \in 1 .. n - 2 + 1 : SubSeq(s, 2, n)[i] = s[2 + i - 1]
  BY <1>1, SubSeqProperties
<1>3. /\ SubSeq(Append(s, x), 2, n) \in Seq(Nat)
      /\ Len(SubSeq(Append(s, x), 2, n)) = IF 2 <= n THEN n - 2 + 1 ELSE 0
      /\ \A i \in 1 .. n - 2 + 1 : SubSeq(Append(s, x), 2, n)[i] = Append(s, x)[2 + i - 1]
  BY <1>1, SubSeqProperties
<1>4. \A i \in 1 .. Len(SubSeq(s, 2, n)) : SubSeq(Append(s, x), 2, n)[i] = SubSeq(s, 2, n)[i]
  BY <1>1, <1>2, <1>3
<1> QED
  BY <1>2, <1>3, <1>4, SeqEqual

LEMMA AppendBehind ==
  ASSUME NEW s \in Seq(Nat), NEW x \in Nat
  PROVE  Append(<<0>> \o s, x) = <<0>> \o Append(s, x)
<1>1. Append(<<0>> \o s, x) = (<<0>> \o s) \o <<x>> /\ Append(s, x) = s \o <<x>>
  BY BehindUpdate, AppendIsConcat
<1>2. <<0>> \in Seq(Nat) /\ <<x>> \in Seq(Nat)
  OBVIOUS
<1> QED
  BY <1>1, <1>2, ConcatAssociative

\* The well-formed frames of the client, of the first n.
Good == {i \in DOMAIN heard : WellFormed(i)}

LEMMA GoodType ==
  ASSUME heard \in Seq(Kinds)
  PROVE  Good \in SUBSET Nat /\ IsFiniteSet(Good) /\ Said \in Seq(Nat)
<1>1. DOMAIN heard = 1 .. Len(heard) /\ Len(heard) \in Nat
  OBVIOUS
<1>2. IsFiniteSet(1 .. Len(heard))
  BY <1>1, FS_Interval
<1>3. Good \in SUBSET Nat /\ Good \subseteq 1 .. Len(heard)
  BY <1>1 DEF Good
<1>4. IsFiniteSet(Good)
  BY <1>2, <1>3, FS_Subset
<1> QED
  BY <1>3, <1>4, InOrderProps DEF Said, Good

\* What the client has said, when one more of its frames arrives.
LEMMA SaidGrows ==
  ASSUME heard \in Seq(Kinds), NEW kind \in Kinds, heard' = Append(heard, kind)
  PROVE  /\ kind = "malformed" => Said' = Said
         /\ kind # "malformed" => Said' = Append(Said, Len(heard) + 1)
<1>1. /\ DOMAIN heard = 1 .. Len(heard) /\ Len(heard) \in Nat
      /\ DOMAIN heard' = 1 .. Len(heard) + 1
      /\ \A i \in 1 .. Len(heard) : heard'[i] = heard[i]
      /\ heard'[Len(heard) + 1] = kind
  OBVIOUS
<1> DEFINE m == Len(heard) + 1
<1>2. /\ kind = "malformed" => Good' = Good
      /\ kind # "malformed" => Good' = Good \cup {m}
  BY <1>1 DEF Good, WellFormed
<1>3. Good \in SUBSET Nat /\ IsFiniteSet(Good) /\ m \in Nat /\ \A k \in Good : k < m
  BY <1>1, GoodType DEF Good
<1>4. Said = InOrder(Good) /\ Said' = InOrder(Good')
  BY DEF Said, Good
<1> HIDE DEF m
<1>5. InOrder(Good \cup {m}) = Append(InOrder(Good), m)
  BY <1>3, InOrderAppend
<1> QED
  BY <1>2, <1>4, <1>5 DEF m

\* The frames have their types, and what is buffered, forwarded and answered is in step.
FramesType ==
  /\ heard \in Seq(Kinds)
  /\ opened \in BOOLEAN
  /\ got \in Seq(Nat)
  /\ answered \in 0 .. Len(got)
  /\ echo \in BOOLEAN

\* Until the upstream opens everything the client sends waits in the buffer.
Buffered ==
  ~opened => /\ state["upstream"] \in {"connecting", "aborting", "closed"}
             /\ pending = [i \in 1 .. Len(heard) |-> i]
             /\ got = <<>> /\ shown = <<>>

\* From then on the upstream was sent the relay's update and the client's frames, all
\* of them as long as it is open.
Forwarded ==
  opened => /\ state["upstream"] \in {"open", "closing", "closed"}
            /\ got # <<>>
            /\ \A k \in DOMAIN got : got[k] = 0 <=> k = 1
            /\ state["upstream"] = "open" => got = <<0>> \o Said

\* The flag is up until the first answer, and the client is shown all the others.
Shown ==
  opened /\ ~Rejects /\ state["client"] = "open" =>
    /\ echo <=> answered = 0
    /\ shown = SubSeq(got, 2, answered)

FramesInv == FramesType /\ Buffered /\ Forwarded /\ Shown

LEMMA FramesInit ==
  ASSUME RelayInit
  PROVE  FramesInv /\ Said = <<>>
<1>1. FramesType
  <2>1. <<>> \in Seq(Kinds) /\ <<>> \in Seq(Nat) /\ 0 \in 0 .. Len(<<>>)
    OBVIOUS
  <2> QED
    BY <2>1 DEF RelayInit, FramesType
<1>2. state["upstream"] = "connecting" /\ heard = <<>> /\ pending = <<>>
  BY DEF RelayInit, Legs
<1>3. Buffered /\ Forwarded /\ Shown
  BY <1>2 DEF RelayInit, Buffered, Forwarded, Shown
<1>4. Good = {}
  BY <1>2 DEF Good
<1>5. Said \in Seq(Nat) /\ Len(Said) = 0
  BY <1>4, FS_EmptySet, InOrderProps DEF Said, Good
<1>6. Said = <<>>
  <2>1. <<>> \in Seq(Nat) /\ Len(<<>>) = 0
    OBVIOUS
  <2> QED
    BY <1>5, <2>1, SeqEqual
<1> QED
  BY <1>1, <1>3, <1>6 DEF FramesInv

\* A frame of the client.
LEMMA FrameForwarded ==
  ASSUME FramesInv, NEW kind \in Kinds, ClientFrame(kind)
  PROVE  FramesInv'
<1> DEFINE m == Len(heard) + 1
<1>1. /\ heard \in Seq(Kinds) /\ heard' = Append(heard, kind) /\ m \in Nat /\ m # 0
      /\ UNCHANGED <<state, opened, answered, echo, shown>>
      /\ got \in Seq(Nat)
  BY DEF ClientFrame, FramesInv, FramesType
<1>2. got' = IF opened /\ kind # "malformed" /\ state["upstream"] = "open"
             THEN Append(got, m) ELSE got
  BY DEF ClientFrame
<1>3. CASE got' = got
  <2>1. FramesType'
    BY <1>1, <1>3 DEF FramesInv, FramesType
  <2>2. Buffered'
    <3> SUFFICES ASSUME ~opened PROVE pending' = [i \in 1 .. Len(heard') |-> i]
      BY <1>1, <1>3 DEF FramesInv, Buffered
    <3>1. pending = [i \in 1 .. Len(heard) |-> i] /\ pending' = Append(pending, m)
      BY DEF ClientFrame, FramesInv, Buffered
    <3>2. Len(heard) \in Nat /\ Len(heard') = m
      BY <1>1
    <3> QED
      BY <3>1, <3>2
  <2>3. Forwarded'
    <3>1. opened /\ state["upstream"] = "open" => kind = "malformed"
      <4>1. Append(got, m) # got
        BY <1>1
      <4> QED
        BY <1>2, <1>3, <4>1
    <3>2. kind = "malformed" => Said' = Said
      BY <1>1, SaidGrows
    <3> QED
      BY <1>1, <1>3, <3>1, <3>2 DEF FramesInv, Forwarded
  <2>4. Shown'
    BY <1>1, <1>3 DEF FramesInv, Shown
  <2> QED
    BY <2>1, <2>2, <2>3, <2>4 DEF FramesInv
<1>4. CASE got' = Append(got, m) /\ opened /\ kind # "malformed" /\ state["upstream"] = "open"
  <2>1. FramesType'
    <3>1. Len(got') = Len(got) + 1 /\ got' \in Seq(Nat) /\ Len(got) \in Nat
      BY <1>1, <1>4
    <3> QED
      BY <1>1, <3>1 DEF FramesInv, FramesType
  <2>2. Buffered'
    BY <1>1, <1>4 DEF Buffered
  <2>3. Forwarded'
    <3>1. /\ got # <<>> /\ got = <<0>> \o Said
          /\ \A k \in DOMAIN got : got[k] = 0 <=> k = 1
      BY <1>4 DEF FramesInv, Forwarded
    <3>2. got' # <<>>
      BY <1>1, <1>4
    <3>3. \A k \in DOMAIN got' : got'[k] = 0 <=> k = 1
      <4>1. /\ DOMAIN got' = DOMAIN got \cup {Len(got) + 1}
            /\ \A k \in DOMAIN got : got'[k] = got[k]
            /\ got'[Len(got) + 1] = m /\ Len(got) + 1 # 1
        BY <1>1, <1>4, <3>1
      <4> QED
        BY <1>1, <3>1, <4>1
    <3>4. Said' = Append(Said, m) /\ Said \in Seq(Nat)
      BY <1>1, <1>4, SaidGrows, GoodType
    <3>5. Append(<<0>> \o Said, m) = <<0>> \o Append(Said, m)
      BY <1>1, <3>4, AppendBehind
    <3> QED
      BY <1>1, <1>4, <3>1, <3>2, <3>3, <3>4, <3>5 DEF Forwarded, FramesInv
  <2>4. Shown'
    BY <1>1, <1>4, SubSeqKept DEF FramesInv, FramesType, Shown
  <2> QED
    BY <2>1, <2>2, <2>3, <2>4 DEF FramesInv
<1> QED
  BY <1>2, <1>3, <1>4

\* The upstream opens: the buffer is forwarded.
LEMMA BufferFlushed ==
  ASSUME FramesInv, UpstreamOpens
  PROVE  Kept(pending) = Said /\ ~opened
<1>1. ~opened
  BY DEF UpstreamOpens, FramesInv, Forwarded
<1>2. pending = [i \in 1 .. Len(heard) |-> i] /\ heard \in Seq(Kinds)
  BY <1>1 DEF FramesInv, Buffered, FramesType
<1>3. DOMAIN pending = DOMAIN heard /\ \A i \in DOMAIN heard : pending[i] = i
  BY <1>2
<1>4. {k \in DOMAIN pending : WellFormed(pending[k])} = Good
  BY <1>3 DEF Good
<1>5. /\ Good \in SUBSET Nat /\ IsFiniteSet(Good) /\ Said \in Seq(Nat)
      /\ Said = InOrder(Good) /\ Members(Said) = Good
  BY <1>2, GoodType, InOrderProps DEF Said, Good
<1>6. \A k \in DOMAIN Said : Said[k] \in DOMAIN heard
  BY <1>5 DEF Members, Good
<1>7. Kept(pending) = [k \in DOMAIN Said |-> Said[k]]
  BY <1>3, <1>4, <1>5, <1>6 DEF Kept
<1>8. [k \in DOMAIN Said |-> Said[k]] = Said
  BY <1>5
<1> QED
  BY <1>1, <1>7, <1>8

LEMMA OpenForwards ==
  ASSUME FramesInv, UpstreamOpens, state \in [Legs -> States]
  PROVE  FramesInv'
<1>1. /\ Kept(pending) = Said /\ ~opened /\ got' = <<0>> \o Said
      /\ got = <<>> /\ shown = <<>> /\ answered = 0
      /\ heard \in Seq(Kinds)
  BY BufferFlushed DEF UpstreamOpens, FramesInv, Buffered, FramesType
<1>2. /\ opened' = TRUE /\ echo' = TRUE /\ UNCHANGED <<heard, answered, shown>>
      /\ state'["upstream"] = "open" /\ state'["client"] = state["client"]
  BY DEF UpstreamOpens, Legs
<1>3. Said \in Seq(Nat) /\ Said' = Said /\ Members(Said) = Good
  <2>1. Good \in SUBSET Nat /\ IsFiniteSet(Good) /\ Said \in Seq(Nat) /\ Said = InOrder(Good)
    BY <1>1, GoodType DEF Said, Good
  <2>2. Members(Said) = Good
    BY <2>1, InOrderProps
  <2>3. Said' = Said
    BY <1>2 DEF Said, WellFormed
  <2> QED
    BY <2>1, <2>2, <2>3
<1>4. \A k \in DOMAIN Said : Said[k] # 0
  <2>1. 0 \notin DOMAIN heard
    BY <1>1
  <2>2. 0 \notin Members(Said)
    BY <1>3, <2>1 DEF Good
  <2> QED
    BY <2>2 DEF Members
<1>5. /\ got' \in Seq(Nat) /\ got' # <<>> /\ Len(got') = Len(Said) + 1
      /\ got'[1] = 0 /\ \A k \in 1 .. Len(Said) : got'[k + 1] = Said[k]
  BY <1>1, <1>3, BehindUpdate
<1>6. FramesType'
  BY <1>1, <1>2, <1>3, <1>5 DEF FramesType
<1>7. Buffered'
  BY <1>2 DEF Buffered
<1>8. \A k \in DOMAIN got' : got'[k] = 0 <=> k = 1
  <2> SUFFICES ASSUME NEW k \in DOMAIN got', k # 1 PROVE got'[k] # 0
    BY <1>5
  <2>0. DOMAIN got' = 1 .. Len(Said) + 1 /\ Len(Said) \in Nat
    BY <1>3, <1>5
  <2>1. k - 1 \in 1 .. Len(Said) /\ (k - 1) + 1 = k
    BY <2>0
  <2>2. k - 1 \in DOMAIN Said
    BY <1>3, <2>1
  <2> QED
    BY <1>4, <1>5, <2>1, <2>2
<1>9. Forwarded'
  BY <1>1, <1>2, <1>3, <1>5, <1>8 DEF Forwarded
<1>10. Shown'
  <2>1. SubSeq(got', 2, 0) = <<>>
    BY SubSeqEmpty
  <2> QED
    BY <1>1, <1>2, <2>1 DEF Shown
<1> QED
  BY <1>6, <1>7, <1>9, <1>10 DEF FramesInv

\* The upstream answers a frame.
LEMMA AnswerShown ==
  ASSUME FramesInv, NEW refused \in BOOLEAN, UpstreamAnswers(refused)
  PROVE  FramesInv'
<1> DEFINE n == answered + 1
<1>1. /\ heard \in Seq(Kinds) /\ got \in Seq(Nat) /\ answered \in Nat /\ Len(got) \in Nat
      /\ n \in 1 .. Len(got) /\ answered' = n
      /\ UNCHANGED <<state, heard, opened, pending, got>>
  BY DEF UpstreamAnswers, FramesInv, FramesType
<1>2. opened /\ state["upstream"] = "open" /\ (got[n] = 0 <=> n = 1)
  <2>1. got # <<>>
    BY <1>1
  <2> QED
    BY <1>1, <2>1 DEF UpstreamAnswers, FramesInv, FramesType, Buffered, Forwarded
<1>3. echo' \in BOOLEAN
  BY DEF UpstreamAnswers, FramesInv, FramesType
<1>4. FramesType' /\ Buffered' /\ Forwarded'
  <2>1. Said' = Said
    BY <1>1 DEF Said, WellFormed
  <2> QED
    BY <1>1, <1>2, <1>3, <2>1 DEF FramesInv, FramesType, Buffered, Forwarded
<1>5. Shown'
  <2> SUFFICES ASSUME ~Rejects, state["client"] = "open"
               PROVE  ~echo' /\ shown' = SubSeq(got, 2, n)
    BY <1>1, <1>2 DEF Shown
  <2>1. (echo <=> answered = 0) /\ shown = SubSeq(got, 2, answered)
    BY <1>2 DEF FramesInv, Shown
  <2>2. IF echo /\ Asks(got[n]) THEN ~echo' /\ shown' = shown
        ELSE shown' = Append(shown, got[n]) /\ echo' = echo
    BY DEF UpstreamAnswers
  <2>3. CASE answered = 0
    <3>1. got[n] = 0 /\ echo
      BY <1>2, <2>1, <2>3
    <3>2. SubSeq(got, 2, 0) = <<>> /\ SubSeq(got, 2, 1) = <<>>
      BY SubSeqEmpty
    <3> QED
      BY <2>1, <2>2, <2>3, <3>1, <3>2 DEF Asks
  <2>4. CASE answered # 0
    <3>1. answered \in 1 .. Len(got) - 1
      BY <1>1, <2>4
    <3>2. SubSeq(got, 2, n) = Append(SubSeq(got, 2, answered), got[n])
      BY <1>1, <3>1, SubSeqGrows
    <3> QED
      BY <2>1, <2>2, <2>4, <3>2
  <2> QED
    BY <2>3, <2>4
<1> QED
  BY <1>4, <1>5 DEF FramesInv

\* A leg that goes down stays down, and the frames are left alone.
Sinks ==
  /\ UNCHANGED frames
  /\ state'["client"] = "open" => state["client"] = "open"
  /\ \/ state'["upstream"] = state["upstream"]
     \/ state["upstream"] = "connecting" /\ state'["upstream"] = "aborting"
     \/ state["upstream"] = "open" /\ state'["upstream"] = "closing"
     \/ state["upstream"] # "connecting" /\ state'["upstream"] = "closed"

LEMMA LegsDown ==
  ASSUME TornDown \/ Timed \/ UNCHANGED relayVars, state \in [Legs -> States]
  PROVE  Sinks
<1>0. /\ state["client"] \in States /\ state["upstream"] \in States
      /\ "client" \in Legs /\ "upstream" \in Legs
  BY DEF Legs
<1>1. ASSUME NEW leg \in Legs, NEW c, CloseBoth(leg, c), state[leg] \notin {"connecting"},
             UNCHANGED frames
      PROVE  Sinks
  <2>1. CASE leg = "client"
    <3>1. state'["client"] = "closed" /\ state'["upstream"] = Down(state["upstream"])
      BY <1>0, <1>1, <2>1 DEF CloseBoth, Other
    <3> QED
      BY <1>0, <1>1, <3>1, DownType DEF Sinks, States
  <2>2. CASE leg = "upstream"
    <3>1. state'["upstream"] = "closed" /\ state'["client"] = Down(state["client"])
      BY <1>0, <1>1, <2>2 DEF CloseBoth, Other
    <3> QED
      BY <1>0, <1>1, <2>2, <3>1, DownType DEF Sinks, States
  <2> QED
    BY <2>1, <2>2 DEF Legs
<1>2. CASE \E leg \in Legs, c \in PeerCodes : Closed(leg, c)
  BY <1>1, <1>2 DEF Closed
<1>3. CASE \E leg \in Legs : PeerCloses(leg)
  <2>1. PICK leg \in Legs : PeerCloses(leg)
    BY <1>3
  <2>2. state[leg] = "open" /\ state' = [state EXCEPT ![leg] = "closing"] /\ UNCHANGED frames
    BY <2>1 DEF PeerCloses
  <2> QED
    BY <1>0, <2>2 DEF Legs, Sinks
<1>4. CASE ClientErrs \/ UpstreamErrs
  BY <1>0, <1>4 DEF ClientErrs, UpstreamErrs, Sinks
<1>5. CASE DialFails
  BY <1>0, <1>5 DEF DialFails, Sinks
<1>6. CASE Aborted
  BY <1>0, <1>6, DownType DEF Aborted, Sinks
<1>7. CASE (\E status \in Statuses : HandshakeRejected(status)) \/ HeartbeatCuts
  <2>1. /\ state'["client"] = Down(state["client"]) /\ state'["upstream"] = Down(state["upstream"])
        /\ UNCHANGED frames
    BY <1>0, <1>7 DEF HandshakeRejected, HeartbeatCuts
  <2> QED
    BY <1>0, <2>1, DownType DEF Sinks, States
<1>8. CASE \/ HeartbeatPings \/ TimePasses \/ UNCHANGED relayVars
           \/ \E leg \in Legs : Pong(leg) \/ Vanishes(leg)
  BY <1>8 DEF HeartbeatPings, TimePasses, Pong, Vanishes, relayVars, frames, Sinks
<1> QED
  BY <1>2, <1>3, <1>4, <1>5, <1>6, <1>7, <1>8 DEF TornDown, Timed

LEMMA SinksKeeps ==
  ASSUME FramesInv, Sinks
  PROVE  FramesInv'
<1>1. Said' = Said /\ UNCHANGED <<heard, opened, pending, got, answered, echo, shown>>
  BY DEF Sinks, frames, Said, WellFormed
<1> QED
  BY <1>1 DEF Sinks, FramesInv, FramesType, Buffered, Forwarded, Shown

LEMMA FramesKept ==
  ASSUME FramesInv, state \in [Legs -> States], [RelayNext]_relayVars
  PROVE  FramesInv'
BY FrameForwarded, OpenForwards, AnswerShown, LegsDown, SinksKeeps DEF RelayNext, Relayed

\* Each step of the bridge is a step of the channel, or none.
LEMMA StepsOfChannel ==
  ASSUME FramesInv, state \in [Legs -> States], [RelayNext]_relayVars
  PROVE  [Channel!Next]_<<Line, Said, IF got = <<>> THEN got ELSE Tail(got)>>
<1> DEFINE given == IF got = <<>> THEN got ELSE Tail(got)
<1>1. CASE UpstreamOpens
  <2>1. /\ Kept(pending) = Said /\ ~opened /\ got' = <<0>> \o Said /\ UNCHANGED heard
        /\ opened' /\ state'["upstream"] = "open"
    BY <1>1, BufferFlushed DEF UpstreamOpens, Legs
  <2>2. Line = "dialling" /\ Line' = "up"
    BY <1>1, <2>1 DEF UpstreamOpens, Line, Up
  <2>3. Said \in Seq(Nat) /\ Said' = Said
    BY <2>1, GoodType DEF FramesInv, FramesType, Said, WellFormed
  <2>4. given' = Said
    BY <2>1, <2>3, BehindUpdate
  <2> QED
    BY <2>2, <2>3, <2>4 DEF Channel!Next, Channel!Connect
<1>2. ASSUME NEW kind \in Kinds, ClientFrame(kind)
      PROVE  [Channel!Next]_<<Line, Said, given>>
  <2> DEFINE m == Len(heard) + 1
  <2>1. /\ heard \in Seq(Kinds) /\ heard' = Append(heard, kind) /\ m \in 1 .. MaxHeard
        /\ UNCHANGED <<state, opened>> /\ got \in Seq(Nat)
        /\ got' = IF opened /\ kind # "malformed" /\ state["upstream"] = "open"
                  THEN Append(got, m) ELSE got
    BY <1>2, RelayAssumption DEF ClientFrame, FramesInv, FramesType, RelayAssumption
  <2>2. Line' = Line /\ (Line = "up" <=> opened /\ state["upstream"] = "open")
    BY <2>1 DEF Line, Up
  <2>3. CASE kind = "malformed"
    <3>1. Said' = Said /\ given' = given
      BY <2>1, <2>3, SaidGrows
    <3> QED
      BY <2>2, <3>1
  <2>4. CASE kind # "malformed"
    <3>1. Said' = Append(Said, m)
      BY <2>1, <2>4, SaidGrows
    <3>2. given' = IF Line = "up" THEN Append(given, m) ELSE given
      <4>1. CASE Line = "up"
        <5>1. got # <<>> /\ got' = Append(got, m) /\ m \in Nat
          BY <2>1, <2>2, <2>4, <4>1 DEF FramesInv, Forwarded
        <5>2. got' # <<>>
          BY <2>1, <5>1
        <5> QED
          BY <2>1, <4>1, <5>1, <5>2, TailAppend
      <4>2. CASE Line # "up"
        BY <2>1, <2>2, <4>2
      <4> QED
        BY <4>1, <4>2
    <3>3. Channel!Say(m)
      BY <2>2, <3>1, <3>2 DEF Channel!Say
    <3> QED
      BY <2>1, <3>3 DEF Channel!Next
  <2> QED
    BY <2>3, <2>4
<1>3. ASSUME NEW refused \in BOOLEAN, UpstreamAnswers(refused)
      PROVE  [Channel!Next]_<<Line, Said, given>>
  BY <1>3 DEF UpstreamAnswers, Line, Up, Said, WellFormed
<1>4. CASE TornDown \/ Timed \/ UNCHANGED relayVars
  <2>1. Sinks
    BY <1>4, LegsDown
  <2>2. UNCHANGED <<heard, opened, got>> /\ Said' = Said /\ given' = given
    BY <2>1 DEF Sinks, frames, Said, WellFormed
  <2>3. Line' = Line \/ Line' = "down"
    BY <2>1, <2>2 DEF Sinks, Line, Up
  <2> QED
    BY <2>2, <2>3 DEF Channel!Next, Channel!Hang
<1> QED
  BY <1>1, <1>2, <1>3, <1>4 DEF RelayNext, Relayed

---------------------------------------------------------------------------
(* RealtimeRelay: the theorems                                             *)

\* The control of the bridge keeps its types: the states of the legs, the clocks
\* of the heartbeat within their bounds, the codes.
THEOREM RelayTypeCorrect == RelaySpec => []RelayTypeOK
BY RelayInductive, PTL DEF RelayInv

\* The heartbeat is gone once a leg is closed, or the relay has closed the client or
\* seen the dial refused, and runs while both legs can be used (routes/realtime.ts:587).
THEOREM TimerKept == RelaySpec => []TimerWhileUp
BY RelayInductive, PTL DEF RelayInv

\* A peer that vanishes is noticed within two intervals and the timeout.
THEOREM DeadSeen == RelaySpec => []DeadNoticed
<1>1. ASSUME RelayInv PROVE DeadNoticed
  <2> SUFFICES ASSUME timer, NEW leg \in Legs
               PROVE gone[leg] <= 2 * Interval + Timeout + 1
    BY DEF DeadNoticed
  <2> LegClocks(leg) BY <1>1 DEF RelayInv, Clocks
  <2> QED BY <1>1, RelayAssumption DEF RelayInv, RelayTypeOK, LegClocks, RelayAssumption
<1> QED BY <1>1, RelayInductive, PTL

\* The client of a rejected handshake is given the code of the status.
THEOREM RejectionCode == RelaySpec => []RejectionKept
<1>1. ASSUME RelayInv PROVE RejectionKept BY <1>1 DEF RelayInv, Farewell, RejectionKept
<1> QED BY <1>1, RelayInductive, PTL

\* A session is only cut when a peer has left a ping unanswered for longer than
\* the timeout, or has begun to close.
THEOREM NoFalseCut == RelaySpec => HeartbeatJust
<1>1. ASSUME RelayInv, HeartbeatCuts
      PROVE \E leg \in Legs : ping[leg] > Timeout + 1 \/ state[leg] = "closing"
  <2> USE <1>1
  <2>1. timer /\ sinceTick = Interval /\ state["upstream"] # "aborting"
    BY DEF HeartbeatCuts, TickDue
  <2>2. PICK leg \in Legs : age[leg] > Interval + Timeout BY DEF HeartbeatCuts, Stale
  <2>3. LegClocks(leg) BY <2>1 DEF RelayInv, Clocks
  <2>4. state[leg] \in {"connecting", "open", "closing"}
    BY <2>1 DEF RelayInv, RelayTypeOK, ClientShape, TimerWhileUp, Legs, States
  <2>5. state[leg] # "connecting"
    BY <2>2, <2>3, RelayAssumption DEF RelayInv, RelayTypeOK, LegClocks, RelayAssumption
  <2>6. ping[leg] # 0 \/ state[leg] = "closing"
    BY <2>1, <2>2, <2>3, <2>4, <2>5, RelayAssumption
    DEF RelayInv, RelayTypeOK, LegClocks, RelayAssumption
  <2>7. ping[leg] > Timeout + 1 \/ state[leg] = "closing"
    BY <2>2, <2>3, <2>6, RelayAssumption DEF RelayInv, RelayTypeOK, LegClocks, RelayAssumption
  <2> QED BY <2>7
<1> QED BY <1>1, RelayInductive, PTL DEF HeartbeatJust

\* The frames are kept in step, besides the control.
THEOREM RelayFrames == RelaySpec => [](RelayInv /\ FramesInv)
<1>1. RelayInit => FramesInv
  BY FramesInit
<1>2. RelayInv /\ FramesInv /\ [RelayNext]_relayVars => FramesInv'
  BY FramesKept DEF RelayInv, RelayTypeOK
<1> QED
  BY RelayInductive, <1>1, <1>2, PTL DEF RelaySpec

\* The bridge implements the channel: the frames of the client arrive behind the
\* relay's own update, in order, none lost or repeated across the opening of the
\* upstream (routes/realtime.ts:409-465).
THEOREM ImplementsChannel == RelaySpec => FramesInOrder
<1>1. RelayInit => Channel!Init
  <2> SUFFICES ASSUME RelayInit PROVE Channel!Init
    OBVIOUS
  <2>1. Said = <<>>
    BY FramesInit
  <2>2. ~opened /\ state["upstream"] = "connecting" /\ got = <<>>
    BY DEF RelayInit, Legs
  <2> QED
    BY <2>1, <2>2 DEF Channel!Init, Line, Up
<1>2. RelayInv /\ FramesInv /\ [RelayNext]_relayVars =>
        [Channel!Next]_<<Line, Said, IF got = <<>> THEN got ELSE Tail(got)>>
  BY StepsOfChannel DEF RelayInv, RelayTypeOK
<1> QED
  BY RelayFrames, <1>1, <1>2, PTL DEF RelaySpec, FramesInOrder, Channel!Spec

\* The client is shown the answers to its own frames, in order, and not the answer to
\* the relay's update, while the upstream refuses none (routes/realtime.ts:467-499).
THEOREM OwnAnswersShown == RelaySpec => []AnswersOwn
<1>1. FramesInv => AnswersOwn
  <2> SUFFICES ASSUME FramesInv, ~Rejects, state["client"] = "open"
               PROVE  /\ \A k \in DOMAIN got : got[k] = 0 <=> k = 1
                      /\ shown = SubSeq(got, 2, answered)
    BY DEF AnswersOwn
  <2>1. CASE opened
    BY <2>1 DEF FramesInv, Forwarded, Shown
  <2>2. CASE ~opened
    <3>1. got = <<>> /\ shown = <<>> /\ answered = 0
      BY <2>2 DEF FramesInv, FramesType, Buffered
    <3>2. SubSeq(got, 2, 0) = <<>>
      BY SubSeqEmpty
    <3> QED
      BY <3>1, <3>2
  <2> QED
    BY <2>1, <2>2 DEF FramesInv, FramesType
<1> QED
  BY RelayFrames, <1>1, PTL
====

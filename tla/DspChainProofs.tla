---------------------------- MODULE DspChainProofs ----------------------------
(***************************************************************************)
(* DspChain for any number of processors and input streams: between        *)
(* operations the samples take one path through the enabled blocks, and at *)
(* no moment do two running readers share a stream.                        *)
(***************************************************************************)
EXTENDS DspChain, WellFoundedInduction, TLAPS

-----------------------------------------------------------------------------
(***************************************************************************)
(* Wiring, for positions p of the blocks, enabled blocks S and chain input *)
(* i.                                                                      *)
(***************************************************************************)

\* Stream s comes from the block of S nearest before b, or is the chain's input.
Feeds(p, i, S, b, s) ==
  \/ s = i /\ \A d \in S : ~ p[d] < p[b]
  \/ s \in S /\ p[s] < p[b] /\ \A d \in S : p[d] < p[b] => p[d] <= p[s]

\* Stream s comes from the last block of S, or is the chain's input.
Ends(p, i, S, s) ==
  \/ s = i /\ S = {}
  \/ s \in S /\ \A d \in S : p[d] <= p[s]

\* The blocks of R read what the blocks S feed them, and o is the output.
Wired(p, i, S, R, inp, o) ==
  /\ \A b \in R : Feeds(p, i, S, b, inp[b])
  /\ Ends(p, i, S, o)

\* Positions that order the blocks of S.
Orders(p, S) ==
  /\ S \subseteq Blocks /\ \A b \in S : p[b] \in Int
  /\ \A b, c \in S : p[b] = p[c] => b = c

\* Where the blocks are in the list.
Pos == [b \in Blocks |-> Index(b)]

-----------------------------------------------------------------------------
(***************************************************************************)
(* The inductive invariant.                                                *)
(***************************************************************************)

\* No block is in the list twice, only members are enabled, and an operation
\* works on a member.
ListInv ==
  /\ \A i, j \in 1 .. Len(links) : links[i] = links[j] => i = j
  /\ states \subseteq Members
  /\ pc = "idle" <=> arg = NoBlock
  /\ pc = "stop" => arg \in states
  /\ pc \in {"splice", "connect", "start", "bypass", "remove"} => arg \in Members \ states
  /\ removing => pc \in {"stop", "bypass", "remove"}

\* The blocks that run are the enabled ones of a running chain.
RunInv == started = IF running THEN states ELSE {}

\* What is wired up at each step of an operation: the block that is being
\* enabled feeds its successor before it is fed, and the one that was disabled
\* is still in the path until it is bypassed.
WireInv ==
  /\ tail = out
  /\ pc \in {"idle", "splice", "stop", "remove"} => Wired(Pos, in, states, states, input, out)
  /\ pc = "connect" => Wired(Pos, in, states \cup {arg}, states, input, out)
  /\ pc \in {"start", "bypass"} =>
       Wired(Pos, in, states \cup {arg}, states \cup {arg}, input, out)

IInv == TypeOK /\ ListInv /\ RunInv /\ WireInv

-----------------------------------------------------------------------------
(***************************************************************************)
(* Splicing a block in and out.                                            *)
(***************************************************************************)

\* The block of S nearest after a.
Nearest(p, S, a, n) == n \in S /\ p[a] < p[n] /\ \A c \in S : p[a] < p[c] => p[n] <= p[c]

\* The successor of a new block is pointed at it.
LEMMA SpliceBetween ==
  ASSUME NEW p, NEW i, NEW S, NEW a \in Blocks \ S, NEW n, NEW o, NEW inp \in [Blocks -> Streams],
         i \notin Blocks, Orders(p, S \cup {a}),
         Wired(p, i, S, S, inp, o), Nearest(p, S, a, n)
  PROVE  Wired(p, i, S \cup {a}, S, [inp EXCEPT ![n] = a], o)
<1> USE DEF Orders, Nearest
<1>1. ASSUME NEW b \in S, b # n PROVE Feeds(p, i, S \cup {a}, b, inp[b])
  BY <1>1 DEF Wired, Feeds
<1>2. Feeds(p, i, S \cup {a}, n, a)
  BY DEF Feeds
<1>3. Ends(p, i, S \cup {a}, o)
  BY DEF Wired, Ends
<1> QED
  BY <1>1, <1>2, <1>3 DEF Wired

\* A new block at the end becomes the output.
LEMMA SpliceLast ==
  ASSUME NEW p, NEW i, NEW S, NEW a \in Blocks \ S, NEW o, NEW inp,
         Orders(p, S \cup {a}), Wired(p, i, S, S, inp, o), \A c \in S : ~ p[a] < p[c]
  PROVE  Wired(p, i, S \cup {a}, S, inp, a)
  BY DEF Orders, Wired, Feeds, Ends

\* The new block is fed.
LEMMA ConnectNew ==
  ASSUME NEW p, NEW i, NEW S, NEW a \in Blocks \ S, NEW o, NEW s, NEW inp \in [Blocks -> Streams],
         Orders(p, S \cup {a}), Wired(p, i, S \cup {a}, S, inp, o), Feeds(p, i, S, a, s)
  PROVE  Wired(p, i, S \cup {a}, S \cup {a}, [inp EXCEPT ![a] = s], o)
<1>1. Feeds(p, i, S \cup {a}, a, s)
  BY DEF Orders, Feeds
<1> QED
  BY <1>1 DEF Orders, Wired

\* The successor of a disabled block is pointed past it.
LEMMA BypassBetween ==
  ASSUME NEW p, NEW i, NEW S, NEW a \in Blocks \ S, NEW n, NEW o, NEW s,
         NEW inp \in [Blocks -> Streams],
         i \notin Blocks, Orders(p, S \cup {a}),
         Wired(p, i, S \cup {a}, S \cup {a}, inp, o), Nearest(p, S, a, n), Feeds(p, i, S, a, s)
  PROVE  Wired(p, i, S, S, [inp EXCEPT ![n] = s], o)
<1> USE DEF Orders, Nearest
<1>1. ASSUME NEW b \in S, b # n PROVE Feeds(p, i, S, b, inp[b])
  BY <1>1 DEF Wired, Feeds
<1>2. Feeds(p, i, S, n, s)
  BY DEF Feeds
<1>3. Ends(p, i, S, o)
  BY DEF Wired, Ends
<1> QED
  BY <1>1, <1>2, <1>3 DEF Wired

\* When the last block is disabled the output moves to what fed it.
LEMMA BypassLast ==
  ASSUME NEW p, NEW i, NEW S, NEW a \in Blocks \ S, NEW o, NEW s, NEW inp,
         i \notin Blocks, Orders(p, S \cup {a}),
         Wired(p, i, S \cup {a}, S \cup {a}, inp, o), \A c \in S : ~ p[a] < p[c],
         Feeds(p, i, S, a, s)
  PROVE  Wired(p, i, S, S, inp, s)
<1> USE DEF Orders
<1>1. ASSUME NEW b \in S PROVE Feeds(p, i, S, b, inp[b])
  BY <1>1 DEF Wired, Feeds
<1>2. Ends(p, i, S, s)
  BY DEF Feeds, Ends
<1> QED
  BY <1>1, <1>2 DEF Wired

\* The chain is switched to another input.
LEMMA SwitchInput ==
  ASSUME NEW p, NEW i, NEW S \in SUBSET Blocks, NEW o, NEW j, NEW inp \in [Blocks -> Streams],
         NEW new, new = [b \in Blocks |-> IF b \in S /\ (\A d \in S : ~ p[d] < p[b]) THEN j
                                                                               ELSE inp[b]],
         Orders(p, S), Wired(p, i, S, S, inp, o), S # {}
  PROVE  Wired(p, j, S, S, new, o)
<1>1. ASSUME NEW b \in S PROVE Feeds(p, j, S, b, new[b])
  BY DEF Orders, Wired, Feeds
<1> QED
  BY <1>1 DEF Wired, Ends

\* Only the order of the blocks matters.
LEMMA SameOrder ==
  ASSUME NEW p, NEW q, NEW i, NEW S, NEW o, NEW inp,
         Orders(p, S), Orders(q, S), \A b, c \in S : p[b] < p[c] <=> q[b] < q[c],
         Wired(p, i, S, S, inp, o)
  PROVE  Wired(q, i, S, S, inp, o)
<1> USE DEF Orders
<1>1. \A b, c \in S : p[b] <= p[c] <=> q[b] <= q[c]
  OBVIOUS
<1> QED
  BY <1>1 DEF Wired, Feeds, Ends

\* What is wired has one reader per stream.
LEMMA WiredOnce ==
  ASSUME NEW p, NEW i, NEW S, NEW R \in SUBSET S, NEW o, NEW inp,
         i \notin Blocks, Orders(p, S), Wired(p, i, S, R, inp, o)
  PROVE  \A b \in R : inp[b] # o /\ \A c \in R : inp[b] = inp[c] => b = c
<1> USE DEF Orders
<1>1. ASSUME NEW b \in R PROVE inp[b] # o
  BY DEF Wired, Feeds, Ends
<1>2. ASSUME NEW b \in R, NEW c \in R, inp[b] = inp[c], p[b] < p[c] PROVE FALSE
  BY <1>2 DEF Wired, Feeds
<1>3. ASSUME NEW b \in R, NEW c \in R, inp[b] = inp[c] PROVE b = c
  BY <1>2, <1>3
<1> QED
  BY <1>1, <1>3

\* A block has one predecessor.
LEMMA FeedsOne ==
  ASSUME NEW p, NEW i, NEW S, NEW b, NEW s, NEW t, i \notin Blocks, Orders(p, S),
         p[b] \in Int, Feeds(p, i, S, b, s), Feeds(p, i, S, b, t)
  PROVE  s = t
  BY DEF Orders, Feeds

-----------------------------------------------------------------------------
(***************************************************************************)
(* The list, and the nearest enabled blocks on either side of a member.    *)
(***************************************************************************)

\* Members have positions, and no two share one.
LEMMA IndexFacts ==
  ASSUME NEW b \in Members
  PROVE  Index(b) \in 1 .. Len(links) /\ links[Index(b)] = b
  BY DEF Members, Index

LEMMA IndexOf ==
  ASSUME ListInv, NEW i \in 1 .. Len(links)
  PROVE  links[i] \in Members /\ Index(links[i]) = i
<1>1. links[i] \in Members
  BY DEF Members
<1> QED
  BY <1>1, IndexFacts DEF ListInv

LEMMA MembersOrdered ==
  ASSUME TypeOK
  PROVE  /\ Members \subseteq Blocks /\ Orders(Pos, Members)
         /\ \A b \in Members : Pos[b] = Index(b) /\ Pos[b] \in Nat
<1>1. Members \subseteq Blocks
  BY DEF TypeOK, Members
<1>2. \A b \in Members : Pos[b] = Index(b) /\ Pos[b] \in Nat
  BY <1>1, IndexFacts DEF Pos, TypeOK
<1>3. \A b, c \in Members : Pos[b] = Pos[c] => b = c
  BY <1>2, IndexFacts
<1> QED
  BY <1>1, <1>2, <1>3 DEF Orders

\* A set of numbers has a least one; a bounded one has a greatest.
LEMMA LeastOf ==
  ASSUME NEW T \in SUBSET Nat, T # {}
  PROVE  \E x \in T : \A y \in T : x <= y
<1>1. \E x \in T : \A y \in T : ~ (<<y, x>> \in OpToRel(<, Nat))
  BY NatLessThanWellFounded, WFMin
<1>2. PICK x \in T : \A y \in T : ~ (<<y, x>> \in OpToRel(<, Nat))
  BY <1>1
<1>3. ASSUME NEW y \in T PROVE x <= y
  <2>1. ~ (y < x)
    BY <1>2 DEF OpToRel
  <2> QED
    BY <2>1
<1> QED
  BY <1>3

LEMMA GreatestOf ==
  ASSUME NEW T \in SUBSET Nat, T # {}, NEW m \in Nat, \A x \in T : x <= m
  PROVE  \E x \in T : \A y \in T : y <= x
<1> DEFINE U == {m - x : x \in T}
<1>1. U \in SUBSET Nat /\ U # {}
  <2>1. ASSUME NEW x \in T PROVE m - x \in Nat
    OBVIOUS
  <2> QED
    BY <2>1
<1>2. PICK u \in U : \A v \in U : u <= v
  BY <1>1, LeastOf
<1>3. PICK x \in T : u = m - x
  BY <1>2
<1>4. ASSUME NEW y \in T PROVE y <= x
  <2>1. m - y \in U
    OBVIOUS
  <2>2. m - x <= m - y
    BY <1>2, <1>3, <2>1
  <2> QED
    BY <2>2
<1> QED
  BY <1>3, <1>4

\* blockAfter() finds the nearest enabled block, if there is one.
LEMMA AfterFacts ==
  ASSUME TypeOK, ListInv, NEW b \in Members
  PROVE  \/ BlockAfter(b) = NoBlock /\ \A c \in states : ~ Pos[b] < Pos[c]
         \/ BlockAfter(b) # NoBlock /\ Nearest(Pos, states, b, BlockAfter(b))
<1>1. /\ states \subseteq Members /\ Members \subseteq Blocks
      /\ \A c \in Members : Pos[c] = Index(c) /\ Pos[c] \in Nat
  BY MembersOrdered DEF ListInv
<1>2. \A c \in states : c \in Later(b) <=> Pos[b] < Pos[c]
  BY <1>1 DEF Later
<1>3. Later(b) \subseteq states
  BY DEF Later
<1>4. CASE Later(b) = {}
  BY <1>1, <1>2, <1>4 DEF BlockAfter
<1>5. CASE Later(b) # {}
  <2> DEFINE T == {Index(c) : c \in Later(b)}
  <2>1. T \in SUBSET Nat /\ T # {}
    BY <1>1, <1>3, <1>5
  <2>2. PICK x \in T : \A y \in T : x <= y
    BY <2>1, LeastOf
  <2>3. \E c \in Later(b) : \A d \in Later(b) : Index(c) <= Index(d)
    BY <2>2
  <2>4. BlockAfter(b) \in Later(b) /\ \A d \in Later(b) : Index(BlockAfter(b)) <= Index(d)
    BY <1>5, <2>3 DEF BlockAfter
  <2>5. BlockAfter(b) # NoBlock
    BY <1>1, <1>3, <2>4, ChainAssumption
  <2>6. Nearest(Pos, states, b, BlockAfter(b))
    BY <1>1, <1>2, <1>3, <2>4 DEF Nearest
  <2> QED
    BY <2>5, <2>6
<1> QED
  BY <1>4, <1>5

\* blockBefore() finds what feeds a block.
LEMMA BeforeFacts ==
  ASSUME TypeOK, ListInv, NEW b \in Members
  PROVE  Feeds(Pos, in, states, b, Upstream(b)) /\ Upstream(b) \in Streams
<1>1. /\ states \subseteq Members /\ Members \subseteq Blocks
      /\ \A c \in Members : Pos[c] = Index(c) /\ Pos[c] \in Nat
  BY MembersOrdered DEF ListInv
<1>2. \A c \in states : c \in Earlier(b) <=> Pos[c] < Pos[b]
  BY <1>1 DEF Earlier
<1>3. Earlier(b) \subseteq states
  BY DEF Earlier
<1>4. CASE Earlier(b) = {}
  BY <1>1, <1>2, <1>4 DEF BlockBefore, Upstream, Feeds, Streams, TypeOK
<1>5. CASE Earlier(b) # {}
  <2> DEFINE T == {Index(c) : c \in Earlier(b)}
  <2>1. T \in SUBSET Nat /\ T # {} /\ \A x \in T : x <= Index(b)
    BY <1>1, <1>3, <1>5 DEF Earlier
  <2>2. PICK x \in T : \A y \in T : y <= x
    BY <1>1, <2>1, GreatestOf
  <2>3. \E c \in Earlier(b) : \A d \in Earlier(b) : Index(d) <= Index(c)
    BY <2>2
  <2>4. BlockBefore(b) \in Earlier(b) /\ \A d \in Earlier(b) : Index(d) <= Index(BlockBefore(b))
    BY <1>5, <2>3 DEF BlockBefore
  <2>5. Upstream(b) = BlockBefore(b) /\ BlockBefore(b) \in Blocks
    BY <1>1, <1>3, <2>4, ChainAssumption DEF Upstream
  <2>6. Feeds(Pos, in, states, b, BlockBefore(b))
    BY <1>1, <1>2, <1>3, <2>4 DEF Feeds
  <2> QED
    BY <2>5, <2>6 DEF Streams
<1> QED
  BY <1>4, <1>5

\* The operations that leave the list alone leave the positions alone.
LEMMA ListKept ==
  ASSUME UNCHANGED links
  PROVE  Members' = Members /\ Pos' = Pos
  BY DEF Members, Pos, Index

LEMMA ChosenIndex ==
  ASSUME NEW s \in Seq(Blocks), \A i, j \in 1 .. Len(s) : s[i] = s[j] => i = j,
         NEW k \in 1 .. Len(s)
  PROVE  (CHOOSE i \in 1 .. Len(s) : s[i] = s[k]) = k
  OBVIOUS

\* addBlock() appends.
LEMMA AddFacts ==
  ASSUME TypeOK, ListInv, NEW b \in Blocks, AddBlock(b)
  PROVE  /\ links' \in Seq(Blocks) /\ Members' = Members \cup {b}
         /\ \A i, j \in 1 .. Len(links') : links'[i] = links'[j] => i = j
         /\ \A c \in Members : Pos'[c] = Pos[c]
<1>1. /\ links \in Seq(Blocks) /\ links' = Append(links, b) /\ b \notin Members
  BY DEF AddBlock, TypeOK
<1>2. /\ links' \in Seq(Blocks) /\ Len(links') = Len(links) + 1
      /\ \A i \in 1 .. Len(links) : links'[i] = links[i]
      /\ links'[Len(links) + 1] = b
  BY <1>1
<1>3. Members' = Members \cup {b}
  BY <1>1, <1>2 DEF Members
<1>4. \A i, j \in 1 .. Len(links') : links'[i] = links'[j] => i = j
  BY <1>1, <1>2 DEF Members, ListInv
<1>5. ASSUME NEW c \in Members PROVE Pos'[c] = Pos[c]
  <2>1. Index(c) \in 1 .. Len(links) /\ links[Index(c)] = c /\ c \in Blocks
    BY IndexFacts, MembersOrdered
  <2>2. Index(c) \in 1 .. Len(links') /\ links'[Index(c)] = c
    BY <1>1, <1>2, <2>1
  <2>3. (CHOOSE i \in 1 .. Len(links') : links'[i] = links'[Index(c)]) = Index(c)
    BY <1>2, <1>4, <2>2, ChosenIndex
  <2> QED
    BY <2>1, <2>2, <2>3 DEF Pos, Index
<1> QED
  BY <1>2, <1>3, <1>4, <1>5

\* What erase() leaves.
LEMMA JoinFacts ==
  ASSUME NEW a \in Seq(Blocks), NEW b \in Seq(Blocks)
  PROVE  /\ a \o b \in Seq(Blocks) /\ Len(a \o b) = Len(a) + Len(b)
         /\ \A i \in 1 .. Len(a) : (a \o b)[i] = a[i]
         /\ \A i \in 1 .. Len(b) : (a \o b)[Len(a) + i] = b[i]
  OBVIOUS

LEMMA PartFacts ==
  ASSUME NEW s \in Seq(Blocks), NEW k \in 1 .. Len(s)
  PROVE  /\ SubSeq(s, 1, k - 1) \in Seq(Blocks) /\ Len(SubSeq(s, 1, k - 1)) = k - 1
         /\ \A i \in 1 .. k - 1 : SubSeq(s, 1, k - 1)[i] = s[i]
         /\ SubSeq(s, k + 1, Len(s)) \in Seq(Blocks) /\ Len(SubSeq(s, k + 1, Len(s))) = Len(s) - k
         /\ \A i \in 1 .. Len(s) - k : SubSeq(s, k + 1, Len(s))[i] = s[k + i]
  OBVIOUS

LEMMA EraseFacts ==
  ASSUME NEW s \in Seq(Blocks), NEW k \in 1 .. Len(s)
  PROVE  LET e == SubSeq(s, 1, k - 1) \o SubSeq(s, k + 1, Len(s))
         IN  /\ e \in Seq(Blocks) /\ Len(e) = Len(s) - 1
             /\ \A i \in 1 .. Len(s) - 1 : e[i] = IF i < k THEN s[i] ELSE s[i + 1]
<1> DEFINE a == SubSeq(s, 1, k - 1)
           b == SubSeq(s, k + 1, Len(s))
           e == a \o b
           n == Len(s)
<1>1. n \in Nat /\ k \in 1 .. n
  OBVIOUS
<1>2. /\ a \in Seq(Blocks) /\ Len(a) = k - 1 /\ (\A i \in 1 .. k - 1 : a[i] = s[i])
      /\ b \in Seq(Blocks) /\ Len(b) = n - k /\ (\A i \in 1 .. n - k : b[i] = s[k + i])
  BY PartFacts
<1> HIDE DEF a, b, n
<1>3. /\ e \in Seq(Blocks) /\ Len(e) = Len(a) + Len(b)
      /\ \A i \in 1 .. Len(a) : e[i] = a[i]
      /\ \A i \in 1 .. Len(b) : e[Len(a) + i] = b[i]
  BY <1>2, JoinFacts
<1> HIDE DEF e
<1>4. /\ Len(e) = n - 1 /\ (\A i \in 1 .. k - 1 : e[i] = s[i])
      /\ (\A i \in 1 .. n - k : e[k - 1 + i] = s[k + i])
  <2>1. Len(e) = n - 1
    BY <1>1, <1>2, <1>3
  <2>2. \A i \in 1 .. k - 1 : e[i] = s[i]
    BY <1>1, <1>2, <1>3
  <2>3. ASSUME NEW i \in 1 .. n - k PROVE e[k - 1 + i] = s[k + i]
    <3>1. i \in 1 .. Len(b) /\ b[i] = s[k + i]
      BY <1>2
    <3>2. e[Len(a) + i] = b[i]
      BY <1>3, <3>1
    <3> QED
      BY <1>2, <3>1, <3>2
  <2> QED
    BY <2>1, <2>2, <2>3
<1>5. ASSUME NEW i \in 1 .. n - 1 PROVE e[i] = IF i < k THEN s[i] ELSE s[i + 1]
  <2>1. CASE i < k
    BY <1>1, <1>4, <2>1
  <2>2. CASE i >= k
    <3> DEFINE j == i - k + 1
    <3>1. j \in 1 .. n - k /\ k + j = i + 1 /\ k - 1 + j = i
      BY <1>1, <2>2
    <3> HIDE DEF j
    <3>2. e[k - 1 + j] = s[k + j]
      BY <1>4, <3>1
    <3> QED
      BY <2>2, <3>1, <3>2
  <2> QED
    BY <1>1, <2>1, <2>2
<1> QED
  BY <1>3, <1>4, <1>5 DEF a, b, e, n

\* removeBlock() closes the gap.
LEMMA RemoveFacts ==
  ASSUME TypeOK, ListInv, Remove
  PROVE  /\ links' \in Seq(Blocks) /\ Members' = Members \ {arg}
         /\ \A i, j \in 1 .. Len(links') : links'[i] = links'[j] => i = j
         /\ \A c \in Members' : Pos'[c] = IF Pos[c] < Pos[arg] THEN Pos[c] ELSE Pos[c] - 1
<1> DEFINE k == Index(arg)
           n == Len(links)
<1>1. /\ links \in Seq(Blocks) /\ arg \in Members /\ k \in 1 .. n /\ links[k] = arg /\ n \in Nat
      /\ \A i, j \in 1 .. n : links[i] = links[j] => i = j
      /\ links' = SubSeq(links, 1, k - 1) \o SubSeq(links, k + 1, n)
  BY IndexFacts DEF Remove, TypeOK, ListInv
<1> HIDE DEF k
<1>2. /\ links' \in Seq(Blocks) /\ Len(links') = n - 1
      /\ \A i \in 1 .. n - 1 : links'[i] = IF i < k THEN links[i] ELSE links[i + 1]
  BY <1>1, EraseFacts
<1>3. \A i \in 1 .. n : links[i] \in Members
  BY DEF Members
<1> HIDE DEF n
<1>4. \A i, j \in 1 .. n - 1 : links'[i] = links'[j] => i = j
  BY <1>1, <1>2
<1>5. ASSUME NEW c \in Members, c # arg
      PROVE  /\ c \in Members' /\ c \in Blocks
             /\ Index(c)' = IF Index(c) < k THEN Index(c) ELSE Index(c) - 1
  <2> DEFINE j == Index(c)
             m == IF j < k THEN j ELSE j - 1
  <2>1. j \in 1 .. n /\ links[j] = c /\ j # k /\ c \in Blocks
    BY <1>1, <1>5, IndexFacts, MembersOrdered DEF n
  <2> HIDE DEF j
  <2>2. m \in 1 .. n - 1 /\ links'[m] = c
    <3>1. CASE j < k
      BY <1>1, <1>2, <2>1, <3>1
    <3>2. CASE j > k
      <4>1. m = j - 1 /\ m \in 1 .. n - 1 /\ ~ m < k /\ m + 1 = j
        BY <1>1, <2>1, <3>2
      <4> HIDE DEF m
      <4> QED
        BY <1>2, <2>1, <4>1
    <3> QED
      BY <1>1, <2>1, <3>1, <3>2
  <2>3. (CHOOSE i \in 1 .. Len(links') : links'[i] = links'[m]) = m
    BY <1>2, <1>4, <2>2, ChosenIndex
  <2>4. Index(c)' = m
    BY <2>2, <2>3 DEF Index
  <2>5. c \in Members'
    BY <1>2, <2>2 DEF Members
  <2> QED
    BY <2>1, <2>4, <2>5 DEF j
<1>6. ASSUME NEW i \in 1 .. n - 1 PROVE links'[i] \in Members \ {arg}
  <2>1. CASE i < k
    BY <1>1, <1>2, <1>3, <2>1
  <2>2. CASE i >= k
    <3>1. n \in Nat /\ k \in 1 .. n
      BY <1>1
    <3>2. i + 1 \in 1 .. n /\ i + 1 # k /\ ~ i < k
      BY <2>2, <3>1
    <3>3. links'[i] = links[i + 1]
      BY <1>2, <3>2
    <3> QED
      BY <1>1, <1>3, <3>2, <3>3
  <2>3. k \in Nat /\ i \in Nat
    BY <1>1
  <2> QED
    BY <2>1, <2>2, <2>3
<1>7. Members' = Members \ {arg}
  BY <1>2, <1>5, <1>6 DEF Members
<1>8. \A c \in Members' : Pos'[c] = IF Pos[c] < Pos[arg] THEN Pos[c] ELSE Pos[c] - 1
  BY <1>1, <1>5, <1>7, MembersOrdered DEF Pos, k
<1> QED
  BY <1>2, <1>4, <1>7, <1>8

-----------------------------------------------------------------------------
(***************************************************************************)
(* The invariant is inductive.                                             *)
(***************************************************************************)

LEMMA InitIInv == Init => IInv
<1> SUFFICES ASSUME Init PROVE IInv
  OBVIOUS
<1>1. TypeOK
  <2>1. running \in BOOLEAN /\ removing \in BOOLEAN
    BY DEF Init
  <2> QED
    BY <2>1 DEF Init, TypeOK, Streams, Pcs
<1>2. ListInv
  <2>1. ~ removing
    BY DEF Init
  <2> QED
    BY <2>1 DEF Init, ListInv, Members
<1>3. RunInv
  <2>1. ~ running /\ started = {}
    BY DEF Init
  <2> QED
    BY <2>1 DEF RunInv
<1>4. WireInv
  BY DEF Init, WireInv, Wired, Ends
<1> QED
  BY <1>1, <1>2, <1>3, <1>4 DEF IInv

\* The chain's input is not a block, and the members and the block of the
\* operation are ordered by their positions.
LEMMA ChainFacts ==
  ASSUME TypeOK, ListInv
  PROVE  /\ in \notin Blocks /\ Members \subseteq Blocks /\ Orders(Pos, states)
         /\ arg \in Members => arg \in Blocks /\ Orders(Pos, states \cup {arg})
<1>1. in \notin Blocks
  BY ChainAssumption DEF TypeOK
<1> QED
  BY <1>1, MembersOrdered DEF Orders, ListInv

\* The steps that rewire the chain keep its streams streams.
LEMMA FeedTypeOK ==
  ASSUME TypeOK, ListInv, NEW b \in Members, NEW s \in Streams, Feed(b, s)
  PROVE  input' \in [Blocks -> Streams] /\ out' \in Streams /\ tail' \in Streams
  BY DEF Feed, TypeOK

LEMMA TypeOKNext ==
  ASSUME IInv, [Next]_vars
  PROVE  TypeOK'
<1> USE DEF IInv
<1>1. CASE \E b \in Blocks : AddBlock(b)
  <2>1. PICK b \in Blocks : AddBlock(b)
    BY <1>1
  <2>2. links' \in Seq(Blocks)
    BY <2>1, AddFacts
  <2> QED
    BY <2>1, <2>2 DEF AddBlock, TypeOK, Streams
<1>2. CASE \E b \in Blocks : EnableBlock(b) \/ DisableBlock(b)
  BY <1>2 DEF EnableBlock, DisableBlock, TypeOK, Streams, Pcs
<1>3. CASE \E b \in Blocks : RemoveBlock(b)
  <2>1. removing' \in BOOLEAN
    BY <1>3 DEF RemoveBlock
  <2> QED
    BY <1>3, <2>1 DEF RemoveBlock, TypeOK, Streams, Pcs
<1>4. CASE \E s \in Inputs : SetInput(s)
  BY <1>4 DEF SetInput, TypeOK, Streams
<1>5. CASE Splice
  <2>1. arg \in Members /\ arg \in Streams /\ Feed(arg, arg)
    BY <1>5, MembersOrdered DEF Splice, ListInv, Streams
  <2>2. input' \in [Blocks -> Streams] /\ out' \in Streams /\ tail' \in Streams
    BY <2>1, FeedTypeOK
  <2> QED
    BY <1>5, <2>2 DEF Splice, TypeOK, Streams, Pcs
<1>6. CASE Connect
  <2>1. Upstream(arg) \in Streams
    BY <1>6, BeforeFacts DEF Connect, ListInv
  <2> QED
    BY <1>6, <2>1 DEF Connect, TypeOK, Streams, Pcs
<1>7. CASE StartNew
  <2>1. arg \in Blocks
    BY <1>7, MembersOrdered DEF StartNew, ListInv
  <2>2. started' \subseteq Blocks
    BY <1>7, <2>1 DEF StartNew, TypeOK
  <2>3. running' \in BOOLEAN
    BY <1>7 DEF StartNew, TypeOK
  <2> QED
    BY <1>7, <2>1, <2>2, <2>3 DEF StartNew, TypeOK, Streams, Pcs
<1>8. CASE StopOld
  BY <1>8 DEF StopOld, TypeOK, Streams, Pcs
<1>9. CASE Bypass
  <2>1. arg \in Members /\ Upstream(arg) \in Streams
    BY <1>9, BeforeFacts DEF Bypass, ListInv
  <2>2. input' \in [Blocks -> Streams] /\ out' \in Streams /\ tail' \in Streams
    BY <1>9, <2>1, FeedTypeOK DEF Bypass
  <2>3. pc' \in Pcs /\ arg' \in Blocks \cup {NoBlock}
    BY <1>9 DEF Bypass, TypeOK, Pcs
  <2>4. removing' \in BOOLEAN
    BY <1>9 DEF Bypass, TypeOK
  <2> QED
    BY <1>9, <2>2, <2>3, <2>4 DEF Bypass, TypeOK, Streams
<1>10. CASE Remove
  <2>1. links' \in Seq(Blocks)
    BY <1>10, RemoveFacts
  <2>2. removing' \in BOOLEAN
    BY <1>10 DEF Remove
  <2> QED
    BY <1>10, <2>1, <2>2 DEF Remove, TypeOK, Streams, Pcs
<1>11. CASE Start \/ Stop
  <2>1. running' \in BOOLEAN
    BY <1>11 DEF Start, Stop
  <2>2. started' \subseteq Blocks
    BY <1>11 DEF Start, Stop, TypeOK
  <2> QED
    BY <1>11, <2>1, <2>2 DEF Start, Stop, TypeOK, Streams
<1>12. CASE UNCHANGED vars
  BY <1>12 DEF vars, TypeOK, Streams
<1> QED
  BY <1>1, <1>2, <1>3, <1>4, <1>5, <1>6, <1>7, <1>8, <1>9, <1>10, <1>11, <1>12 DEF Next

LEMMA ListInvNext ==
  ASSUME IInv, [Next]_vars
  PROVE  ListInv'
<1> USE DEF IInv
<1>1. NoBlock \notin Blocks /\ Members \subseteq Blocks
  BY ChainAssumption, MembersOrdered
<1>2. CASE \E b \in Blocks : AddBlock(b)
  <2>1. PICK b \in Blocks : AddBlock(b)
    BY <1>2
  <2>2. /\ Members' = Members \cup {b}
        /\ \A i, j \in 1 .. Len(links') : links'[i] = links'[j] => i = j
    BY <2>1, AddFacts
  <2>3. removing' => pc' \in {"stop", "bypass", "remove"}
    BY <2>1 DEF AddBlock, ListInv
  <2> QED
    BY <2>1, <2>2, <2>3 DEF AddBlock, ListInv
<1>3. CASE \E b \in Blocks : EnableBlock(b) \/ DisableBlock(b)
  <2>1. UNCHANGED <<links, states>> /\ Members' = Members
    BY <1>3, ListKept DEF EnableBlock, DisableBlock
  <2>2. ~ removing'
    BY <1>3 DEF EnableBlock, DisableBlock, ListInv
  <2> QED
    BY <1>1, <1>3, <2>1, <2>2 DEF EnableBlock, DisableBlock, ListInv
<1>4. CASE \E b \in Blocks : RemoveBlock(b)
  <2>1. UNCHANGED <<links, states>> /\ Members' = Members
    BY <1>4, ListKept DEF RemoveBlock
  <2>2. pc' \in {"stop", "remove"}
    BY <1>4 DEF RemoveBlock
  <2> QED
    BY <1>1, <1>4, <2>1, <2>2 DEF RemoveBlock, ListInv
<1>5. CASE \E s \in Inputs : SetInput(s)
  BY <1>5, ListKept DEF SetInput, ListInv
<1>6. CASE Splice \/ Connect
  <2>1. UNCHANGED <<links, states, arg>> /\ Members' = Members
    BY <1>6, ListKept DEF Splice, Connect
  <2>2. ~ removing'
    BY <1>6 DEF Splice, Connect, ListInv
  <2> QED
    BY <1>1, <1>6, <2>1, <2>2 DEF Splice, Connect, ListInv
<1>7. CASE StartNew
  <2>1. UNCHANGED links /\ Members' = Members
    BY <1>7, ListKept DEF StartNew
  <2>2. ~ removing'
    BY <1>7 DEF StartNew, ListInv
  <2> QED
    BY <1>1, <1>7, <2>1, <2>2 DEF StartNew, ListInv
<1>8. CASE StopOld
  <2>1. UNCHANGED links /\ Members' = Members
    BY <1>8, ListKept DEF StopOld
  <2> QED
    BY <1>1, <1>8, <2>1 DEF StopOld, ListInv
<1>9. CASE Bypass
  <2>1. UNCHANGED <<links, states>> /\ Members' = Members
    BY <1>9, ListKept DEF Bypass
  <2>2. removing' => pc' \in {"stop", "bypass", "remove"}
    BY <1>9 DEF Bypass
  <2>3. \/ pc' = "idle" /\ arg' = NoBlock
        \/ pc' = "remove" /\ arg' = arg
    BY <1>9 DEF Bypass
  <2> QED
    BY <1>1, <1>9, <2>1, <2>2, <2>3 DEF Bypass, ListInv
<1>10. CASE Remove
  <2>1. /\ Members' = Members \ {arg}
        /\ \A i, j \in 1 .. Len(links') : links'[i] = links'[j] => i = j
    BY <1>10, RemoveFacts
  <2>2. ~ removing'
    BY <1>10 DEF Remove
  <2> QED
    BY <1>10, <2>1, <2>2 DEF Remove, ListInv
<1>11. CASE Start \/ Stop
  BY <1>11, ListKept DEF Start, Stop, ListInv
<1>12. CASE UNCHANGED vars
  BY <1>12, ListKept DEF vars, ListInv
<1> QED
  BY <1>2, <1>3, <1>4, <1>5, <1>6, <1>7, <1>8, <1>9, <1>10, <1>11, <1>12 DEF Next

LEMMA RunInvNext ==
  ASSUME IInv, [Next]_vars
  PROVE  RunInv'
<1> USE DEF IInv
<1>1. CASE StartNew
  BY <1>1 DEF StartNew, RunInv
<1>2. CASE StopOld
  BY <1>2 DEF StopOld, RunInv
<1>3. CASE Start
  BY <1>3 DEF Start, RunInv
<1>4. CASE Stop
  BY <1>4 DEF Stop, RunInv
<1>5. ASSUME UNCHANGED <<running, states, started>> PROVE RunInv'
  BY <1>5 DEF RunInv
<1>6. CASE \E b \in Blocks : AddBlock(b) \/ EnableBlock(b) \/ DisableBlock(b) \/ RemoveBlock(b)
  BY <1>5, <1>6 DEF AddBlock, EnableBlock, DisableBlock, RemoveBlock
<1>7. CASE (\E s \in Inputs : SetInput(s)) \/ Splice \/ Connect \/ Bypass \/ Remove
  BY <1>5, <1>7 DEF SetInput, Splice, Connect, Bypass, Remove
<1>8. CASE UNCHANGED vars
  BY <1>5, <1>8 DEF vars
<1> QED
  BY <1>1, <1>2, <1>3, <1>4, <1>6, <1>7, <1>8 DEF Next

LEMMA WireInvNext ==
  ASSUME IInv, [Next]_vars
  PROVE  WireInv'
<1> USE DEF IInv
<1>1. /\ in \notin Blocks /\ states \subseteq Members /\ Members \subseteq Blocks
      /\ input \in [Blocks -> Streams] /\ Orders(Pos, states)
      /\ arg \in Members => arg \in Blocks /\ Orders(Pos, states \cup {arg})
  BY ChainFacts DEF ListInv, TypeOK
<1>2. CASE \E b \in Blocks : AddBlock(b)
  <2>1. PICK b \in Blocks : AddBlock(b)
    BY <1>2
  <2>2. \A c \in states : Pos'[c] = Pos[c]
    BY <1>1, <2>1, AddFacts
  <2>3. Orders(Pos', states)
    BY <1>1, <2>2 DEF Orders
  <2>4. Wired(Pos, in, states, states, input, out) /\ pc = "idle" /\ tail = out
    BY <2>1 DEF AddBlock, WireInv
  <2>5. Wired(Pos', in, states, states, input, out)
    BY <1>1, <2>2, <2>3, <2>4, SameOrder
  <2> QED
    BY <2>1, <2>4, <2>5 DEF AddBlock, WireInv
<1>3. CASE \E b \in Blocks : EnableBlock(b) \/ DisableBlock(b) \/ RemoveBlock(b)
  <2>1. /\ UNCHANGED <<states, in, out, input, tail>> /\ Pos' = Pos
        /\ pc = "idle" /\ pc' \in {"splice", "stop", "remove"}
    BY <1>3, ListKept DEF EnableBlock, DisableBlock, RemoveBlock
  <2> QED
    BY <2>1 DEF WireInv
<1>4. CASE \E s \in Inputs : SetInput(s)
  <2>1. PICK s \in Inputs : SetInput(s)
    BY <1>4
  <2>2. Pos' = Pos /\ Wired(Pos, in, states, states, input, out) /\ tail = out /\ pc = "idle"
    BY <2>1, ListKept DEF SetInput, WireInv
  <2>3. CASE states = {}
    <3>1. /\ out' = s /\ tail' = s /\ in' = s /\ UNCHANGED <<states, pc>>
      BY <2>1, <2>3 DEF SetInput
    <3> QED
      BY <2>2, <2>3, <3>1 DEF WireInv, Wired, Ends
  <2>4. CASE states # {}
    <3>1. \A b \in states : Earlier(b) = {} <=> \A d \in states : ~ Pos[d] < Pos[b]
      BY <1>1, MembersOrdered DEF Earlier
    <3>2. /\ in' = s /\ UNCHANGED <<states, pc, out, tail>>
          /\ input' = [b \in Blocks |-> IF b \in states /\ Earlier(b) = {} THEN s ELSE input[b]]
      BY <2>1, <2>4 DEF SetInput
    <3>3. input' = [b \in Blocks |-> IF b \in states /\ (\A d \in states : ~ Pos[d] < Pos[b])
                                     THEN s ELSE input[b]]
      BY <3>1, <3>2
    <3>4. states \in SUBSET Blocks
      BY <1>1
    <3>5. Wired(Pos, s, states, states, input', out)
      BY <1>1, <2>2, <2>4, <3>3, <3>4, SwitchInput
    <3> QED
      BY <2>2, <3>2, <3>5 DEF WireInv
  <2> QED
    BY <2>3, <2>4
<1>5. CASE Splice
  <2>1. /\ arg \in Members /\ arg \in Blocks \ states
        /\ Pos' = Pos /\ Wired(Pos, in, states, states, input, out) /\ tail = out
        /\ UNCHANGED <<states, in, arg>> /\ pc' = "connect" /\ Feed(arg, arg)
    BY <1>1, <1>5, ListKept DEF Splice, WireInv, ListInv
  <2>2. Wired(Pos, in, states \cup {arg}, states, input', out') /\ tail' = out'
    <3>1. CASE BlockAfter(arg) = NoBlock
      <4>1. out' = arg /\ tail' = arg /\ input' = input
        BY <2>1, <3>1 DEF Feed
      <4>2. \A c \in states : ~ Pos[arg] < Pos[c]
        BY <2>1, <3>1, AfterFacts
      <4> QED
        BY <1>1, <2>1, <4>1, <4>2, SpliceLast
    <3>2. CASE BlockAfter(arg) # NoBlock
      <4>1. /\ out' = out /\ tail' = tail
            /\ input' = [input EXCEPT ![BlockAfter(arg)] = arg]
        BY <2>1, <3>2 DEF Feed
      <4>2. Nearest(Pos, states, arg, BlockAfter(arg))
        BY <2>1, <3>2, AfterFacts
      <4> QED
        BY <1>1, <2>1, <4>1, <4>2, SpliceBetween
    <3> QED
      BY <3>1, <3>2
  <2> QED
    BY <2>1, <2>2 DEF WireInv
<1>6. CASE Connect
  <2>1. /\ arg \in Members /\ arg \in Blocks \ states
        /\ Pos' = Pos /\ Wired(Pos, in, states \cup {arg}, states, input, out) /\ tail = out
        /\ UNCHANGED <<states, in, out, tail, arg>> /\ pc' = "start"
        /\ input' = [input EXCEPT ![arg] = Upstream(arg)]
    BY <1>1, <1>6, ListKept DEF Connect, WireInv, ListInv
  <2>2. Feeds(Pos, in, states, arg, Upstream(arg))
    BY <2>1, BeforeFacts
  <2>3. Wired(Pos, in, states \cup {arg}, states \cup {arg}, input', out)
    BY <1>1, <2>1, <2>2, ConnectNew
  <2> QED
    BY <2>1, <2>3 DEF WireInv
<1>7. CASE StartNew
  <2>1. /\ Pos' = Pos /\ tail = out
        /\ Wired(Pos, in, states \cup {arg}, states \cup {arg}, input, out)
        /\ UNCHANGED <<in, out, input, tail>> /\ states' = states \cup {arg} /\ pc' = "idle"
    BY <1>7, ListKept DEF StartNew, WireInv
  <2> QED
    BY <2>1 DEF WireInv
<1>8. CASE StopOld
  <2>1. /\ Pos' = Pos /\ tail = out /\ arg \in states
        /\ Wired(Pos, in, states, states, input, out)
        /\ UNCHANGED <<in, out, input, tail, arg>> /\ states' = states \ {arg} /\ pc' = "bypass"
    BY <1>8, ListKept DEF StopOld, WireInv, ListInv
  <2>2. states' \cup {arg'} = states
    BY <2>1
  <2> QED
    BY <2>1, <2>2 DEF WireInv
<1>9. CASE Bypass
  <2>1. /\ arg \in Members /\ arg \in Blocks \ states
        /\ Pos' = Pos /\ tail = out
        /\ Wired(Pos, in, states \cup {arg}, states \cup {arg}, input, out)
        /\ UNCHANGED <<states, in>> /\ Feed(arg, Upstream(arg))
    BY <1>1, <1>9, ListKept DEF Bypass, WireInv, ListInv
  <2>2. pc' \in {"idle", "remove"}
    BY <1>9 DEF Bypass
  <2>3. Feeds(Pos, in, states, arg, Upstream(arg))
    BY <2>1, BeforeFacts
  <2>4. Wired(Pos, in, states, states, input', out') /\ tail' = out'
    <3>1. CASE BlockAfter(arg) = NoBlock
      <4>1. out' = Upstream(arg) /\ tail' = Upstream(arg) /\ input' = input
        BY <2>1, <3>1 DEF Feed
      <4>2. \A c \in states : ~ Pos[arg] < Pos[c]
        BY <2>1, <3>1, AfterFacts
      <4> QED
        BY <1>1, <2>1, <2>3, <4>1, <4>2, BypassLast
    <3>2. CASE BlockAfter(arg) # NoBlock
      <4>1. /\ out' = out /\ tail' = tail
            /\ input' = [input EXCEPT ![BlockAfter(arg)] = Upstream(arg)]
        BY <2>1, <3>2 DEF Feed
      <4>2. Nearest(Pos, states, arg, BlockAfter(arg))
        BY <2>1, <3>2, AfterFacts
      <4> QED
        BY <1>1, <2>1, <2>3, <4>1, <4>2, BypassBetween
    <3> QED
      BY <3>1, <3>2
  <2> QED
    BY <2>1, <2>2, <2>4 DEF WireInv
<1>10. CASE Remove
  <2>1. /\ arg \in Members \ states /\ tail = out
        /\ Wired(Pos, in, states, states, input, out)
        /\ UNCHANGED <<states, in, out, input, tail>> /\ pc' = "idle"
    BY <1>10 DEF Remove, WireInv, ListInv
  <2>2. \A c \in states : Pos'[c] = IF Pos[c] < Pos[arg] THEN Pos[c] ELSE Pos[c] - 1
    BY <1>1, <1>10, <2>1, RemoveFacts
  <2>3. \A b, c \in states \cup {arg} : Pos[b] \in Int /\ (Pos[b] = Pos[c] => b = c)
    BY <1>1, <2>1 DEF Orders
  <2>4. Orders(Pos', states) /\ \A b, c \in states : Pos[b] < Pos[c] <=> Pos'[b] < Pos'[c]
    BY <1>1, <2>1, <2>2, <2>3 DEF Orders
  <2>5. Wired(Pos', in, states, states, input, out)
    BY <1>1, <2>1, <2>4, SameOrder
  <2> QED
    BY <2>1, <2>5 DEF WireInv
<1>11. CASE Start \/ Stop
  <2>1. UNCHANGED <<states, in, out, input, tail, pc, arg>> /\ Pos' = Pos
    BY <1>11, ListKept DEF Start, Stop
  <2> QED
    BY <2>1 DEF WireInv
<1>12. CASE UNCHANGED vars
  <2>1. UNCHANGED <<states, in, out, input, tail, pc, arg>> /\ Pos' = Pos
    BY <1>12, ListKept DEF vars
  <2> QED
    BY <2>1 DEF WireInv
<1> QED
  BY <1>2, <1>3, <1>4, <1>5, <1>6, <1>7, <1>8, <1>9, <1>10, <1>11, <1>12 DEF Next

-----------------------------------------------------------------------------
(***************************************************************************)
(* The theorems.                                                           *)
(***************************************************************************)

\* The list, the workers and the wiring agree at every step of every
\* operation of dsp::chain.
THEOREM ChainInvariant == Spec => []IInv
<1>1. Init => IInv
  BY InitIInv
<1>2. IInv /\ [Next]_vars => IInv'
  BY TypeOKNext, ListInvNext, RunInvNext, WireInvNext DEF IInv
<1> QED
  BY <1>1, <1>2, PTL DEF Spec

\* The fields of dsp::chain keep their types.
THEOREM ChainTypeOK == Spec => []TypeOK
<1>1. IInv => TypeOK
  BY DEF IInv
<1> QED
  BY <1>1, ChainInvariant, PTL

\* Between the operations of dsp::chain the samples flow from the chain's input
\* through the enabled blocks in list order to the downstream reader, for any
\* number of blocks and any sequence of addBlock(), removeBlock(),
\* enableBlock(), disableBlock() and setInput().
THEOREM SamplesTakeOnePath == Spec => []OnePath
<1>1. IInv => OnePath
  <2> SUFFICES ASSUME IInv, pc = "idle"
               PROVE  /\ \A b \in states : input[b] = Upstream(b)
                      /\ tail = out
                      /\ out = IF states = {} THEN in ELSE CHOOSE b \in states : Later(b) = {}
    BY DEF OnePath
  <2>1. /\ in \notin Blocks /\ states \subseteq Members /\ Members \subseteq Blocks
        /\ Orders(Pos, states) /\ \A b \in Members : Pos[b] = Index(b) /\ Pos[b] \in Nat
    BY ChainFacts, MembersOrdered DEF IInv, ListInv
  <2>2. Wired(Pos, in, states, states, input, out) /\ tail = out
    BY DEF IInv, WireInv
  <2>3. ASSUME NEW b \in states PROVE input[b] = Upstream(b)
    <3>1. Feeds(Pos, in, states, b, input[b]) /\ Feeds(Pos, in, states, b, Upstream(b))
      BY <2>1, <2>2, BeforeFacts DEF IInv, Wired
    <3>2. Pos[b] \in Int
      BY <2>1
    <3> QED
      BY <2>1, <3>1, <3>2, FeedsOne
  <2>4. CASE states = {}
    BY <2>2, <2>3, <2>4 DEF Wired, Ends
  <2>5. CASE states # {}
    <3>1. out \in states /\ \A d \in states : Pos[d] <= Pos[out]
      BY <2>2, <2>5 DEF Wired, Ends
    <3>2. \A b \in states : Later(b) = {} <=> \A d \in states : ~ Pos[b] < Pos[d]
      BY <2>1 DEF Later
    <3>3. Later(out) = {}
      BY <2>1, <3>1, <3>2
    <3>4. ASSUME NEW b \in states, Later(b) = {} PROVE b = out
      BY <2>1, <3>1, <3>2, <3>4 DEF Orders
    <3> QED
      BY <2>2, <2>3, <2>5, <3>1, <3>3, <3>4
  <2> QED
    BY <2>4, <2>5
<1> QED
  BY <1>1, ChainInvariant, PTL

\* At no step of an operation of dsp::chain do two running readers share a
\* dsp::stream, which has room for one.
THEOREM StreamsHaveOneReader == Spec => []OneReader
<1>1. IInv => OneReader
  <2> SUFFICES ASSUME IInv PROVE OneReader
    OBVIOUS
  <2>1. /\ in \notin Blocks /\ Orders(Pos, states)
        /\ arg \in Members => Orders(Pos, states \cup {arg})
    BY ChainFacts DEF IInv
  <2>2. started \subseteq states
    BY DEF IInv, RunInv
  <2>3. tail = out
    BY DEF IInv, WireInv
  <2>4. \A b \in states : input[b] # out /\ \A c \in states : input[b] = input[c] => b = c
    <3>1. CASE pc \in {"idle", "splice", "stop", "remove"}
      <4>1. Wired(Pos, in, states, states, input, out) /\ states \in SUBSET states
        BY <3>1 DEF IInv, WireInv
      <4> QED
        BY <2>1, <4>1, WiredOnce
    <3>2. CASE pc \in {"connect", "start", "bypass"}
      <4>1. arg \in Members
        BY <3>2 DEF IInv, ListInv
      <4>2. Wired(Pos, in, states \cup {arg}, states, input, out)
        BY <3>2 DEF IInv, WireInv, Wired
      <4>3. states \in SUBSET (states \cup {arg})
        OBVIOUS
      <4> QED
        BY <2>1, <4>1, <4>2, <4>3, WiredOnce
    <3> QED
      BY <3>1, <3>2 DEF IInv, TypeOK, Pcs
  <2> QED
    BY <2>2, <2>3, <2>4 DEF OneReader
<1> QED
  BY <1>1, ChainInvariant, PTL

\* After removeBlock() nothing reads the block's output and its worker does not
\* run, so the caller may free it.
THEOREM RemovedBlocksAreFree == Spec => []RemovedIsFree
<1>1. IInv => RemovedIsFree
  <2> SUFFICES ASSUME IInv, pc = "idle", NEW b \in Blocks \ Members
               PROVE  b \notin started /\ b # tail /\ b # out /\ \A c \in states : input[c] # b
    BY DEF RemovedIsFree
  <2>1. in \notin Blocks /\ states \subseteq Members
    BY ChainFacts DEF IInv, ListInv
  <2>2. started \subseteq states
    BY DEF IInv, RunInv
  <2>3. Wired(Pos, in, states, states, input, out) /\ tail = out
    BY DEF IInv, WireInv
  <2> QED
    BY <2>1, <2>2, <2>3 DEF Wired, Feeds, Ends
<1> QED
  BY <1>1, ChainInvariant, PTL

=============================================================================

--------------------------- MODULE ServersProofs ---------------------------
(***************************************************************************)
(* Proofs about the configured servers of Servers, for every set of names, *)
(* addresses and tokens and every length of the list: the lists are always *)
(* typed, what a slot finds by name is in the list, and between two slots  *)
(* the next start would restore what the window has.  The first part is    *)
(* about the operators on lists, the second about what a save has still to *)
(* write.                                                                  *)
(***************************************************************************)
EXTENDS Servers, TLAPS, FiniteSetTheorems, SequenceTheorems

(* What is to be written, in whatever order.                                *)
Writes(t) == {t[i] : i \in DOMAIN t}

NamesApart(nodes) == \A k, l \in DOMAIN nodes : nodes[k].name = nodes[l].name => k = l

(* An index finds the entry of every name, and none for the other names.    *)
IndexOf(ix, nodes) ==
    \A n \in Names :
        IF \E k \in DOMAIN nodes : nodes[k].name = n
        THEN ix[n] \in DOMAIN nodes /\ nodes[ix[n]].name = n
        ELSE ix[n] = None

(* A slot's writes are of the list: the tokens of listed servers, and none  *)
(* is deleted that a listed server has.                                     *)
Writing(nodes, t) ==
    /\ \A x \in Writes(t) : x.does = "set" =>
          \E k \in DOMAIN nodes : /\ nodes[k].name = x.name /\ nodes[k].token = x.token
                                  /\ x.token # Blank
    /\ \A x \in Writes(t) : x.does = "forget" =>
          \A k \in DOMAIN nodes : nodes[k].name # x.name

(* They are all the tokens that the list needs, and the commit comes first. *)
WritesAll(nodes, t) ==
    \A k \in DOMAIN nodes :
        nodes[k].token # Blank => Do("set", nodes[k].name, nodes[k].token) \in Writes(t)
Commits(t) == t # <<>> /\ Head(t).does = "commit"
----------------------------------------------------------------------------
(* The places of a set of positions count it from 1, in order.              *)
LEMMA PlaceFacts ==
    ASSUME NEW n \in Nat, NEW S \in SUBSET (1..n)
    PROVE  /\ IsFiniteSet(S) /\ Cardinality(S) \in Nat /\ Cardinality(S) <= n
           /\ \A k \in S : Place(S, k) \in 1..Cardinality(S)
           /\ \A k, l \in S : k < l => Place(S, k) < Place(S, l)
           /\ \A k, l \in S : Place(S, k) = Place(S, l) => k = l
           /\ \A j \in 1..Cardinality(S) : \E k \in S : Place(S, k) = j
  <1> DEFINE upto(k) == {l \in S : l <= k}
             c == Cardinality(S)
             f == [k \in S |-> Place(S, k)]
  <1>1. IsFiniteSet(1..n) /\ Cardinality(1..n) = n
    <2>1. 1 \in Int /\ n \in Int
      OBVIOUS
    <2> QED
      BY <2>1, FS_Interval
  <1>2. IsFiniteSet(S) /\ c \in Nat /\ c <= n
    BY <1>1, FS_Subset, FS_CardinalityType
  <1>3. \A k \in S : IsFiniteSet(upto(k)) /\ Cardinality(upto(k)) \in Nat /\ Cardinality(upto(k)) <= c
    <2> TAKE k \in S
    <2>1. upto(k) \in SUBSET S
      OBVIOUS
    <2> QED
      BY <2>1, <1>2, FS_Subset, FS_CardinalityType
  <1>4. \A k \in S : Place(S, k) = Cardinality(upto(k))
    BY DEF Place
  <1>5. \A k \in S : Place(S, k) \in 1..c
    <2> TAKE k \in S
    <2>1. upto(k) # {}
      OBVIOUS
    <2>2. Cardinality(upto(k)) # 0
      BY <2>1, <1>3, FS_EmptySet
    <2> QED
      BY <2>2, <1>2, <1>3, <1>4
  <1>6. \A k, l \in S : k < l => Place(S, k) < Place(S, l)
    <2> SUFFICES ASSUME NEW k \in S, NEW l \in S, k < l
                 PROVE  Place(S, k) < Place(S, l)
      OBVIOUS
    <2>0. l <= l /\ ~(l <= k) /\ \A x \in S : x <= k => x <= l
      OBVIOUS
    <2>1. upto(k) \in SUBSET upto(l) /\ l \in upto(l) /\ l \notin upto(k)
      BY <2>0, Zenon
    <2>2. upto(k) # upto(l)
      BY <2>1
    <2> DEFINE a == upto(k)
               b == upto(l)
    <2>3. IsFiniteSet(b) /\ Cardinality(a) \in Nat /\ Cardinality(b) \in Nat
      BY <1>3
    <2>4. a \in SUBSET b /\ a # b
      BY <2>1, <2>2
    <2> HIDE DEF a, b
    <2>5. Cardinality(a) <= Cardinality(b) /\ Cardinality(b) # Cardinality(a)
      BY <2>3, <2>4, FS_Subset
    <2>6. Cardinality(a) < Cardinality(b)
      BY <2>3, <2>5
    <2> QED
      BY <2>6, <1>4 DEF a, b
  <1>7. \A k, l \in S : Place(S, k) = Place(S, l) => k = l
    <2> SUFFICES ASSUME NEW k \in S, NEW l \in S, Place(S, k) = Place(S, l)
                 PROVE  k = l
      OBVIOUS
    <2>1. Place(S, k) \in Nat
      BY <1>2, <1>5
    <2>2. ~(k < l) /\ ~(l < k)
      BY <1>6, <2>1
    <2> QED
      BY <2>2
  <1>8. \A j \in 1..c : \E k \in S : Place(S, k) = j
    <2>1. f \in Injection(S, 1..c)
      BY <1>5, <1>7 DEF Injection, IsInjective
    <2>2. IsFiniteSet(1..c) /\ Cardinality(1..c) = c
      <3>1. 1 \in Int /\ c \in Int
        BY <1>2
      <3> QED
        BY <3>1, <1>2, FS_Interval
    <2> DEFINE T == 1..c
    <2> HIDE DEF c, T, f
    <2>3. f \in Surjection(S, T)
      BY <2>1, <2>2, FS_Injection DEF c, T
    <2> QED
      BY <2>3 DEF Surjection, f, T
  <1> QED
    BY <1>2, <1>5, <1>6, <1>7, <1>8

(* A list comprehension has the chosen entries and no other.                *)
LEMMA OnlyFacts ==
    ASSUME NEW D, NEW seq \in Seq(D), NEW S \in SUBSET DOMAIN seq
    PROVE  LET new == Only(seq, S)
           IN  /\ new \in Seq(D) /\ Len(new) <= Len(seq) /\ DOMAIN new = 1..Len(new)
               /\ \A k \in S : Place(S, k) \in DOMAIN new /\ new[Place(S, k)] = seq[k]
               /\ \A k, l \in S : Place(S, k) = Place(S, l) => k = l
               /\ \A j \in DOMAIN new : \E k \in S : Place(S, k) = j /\ new[j] = seq[k]
  <1> DEFINE new == Only(seq, S)
             c == Cardinality(S)
  <1>1. Len(seq) \in Nat /\ DOMAIN seq = 1..Len(seq) /\ \A k \in DOMAIN seq : seq[k] \in D
    BY LenProperties, ElementOfSeq
  <1>2. S \in SUBSET (1..Len(seq))
    BY <1>1
  <1>3. /\ c \in Nat /\ c <= Len(seq)
        /\ \A k \in S : Place(S, k) \in 1..c
        /\ \A k, l \in S : Place(S, k) = Place(S, l) => k = l
        /\ \A j \in 1..c : \E k \in S : Place(S, k) = j
    BY <1>1, <1>2, PlaceFacts
  <1>4. new = [j \in 1..c |-> seq[CHOOSE k \in S : Place(S, k) = j]]
    BY DEF Only
  <1> HIDE DEF new, c
  <1>5. \A j \in 1..c : \E k \in S : Place(S, k) = j /\ new[j] = seq[k]
    BY <1>3, <1>4
  <1>6. \A k \in S : new[Place(S, k)] = seq[k]
    BY <1>3, <1>5
  <1>7. new \in [1..c -> D]
    BY <1>1, <1>2, <1>4, <1>5
  <1>8. new \in Seq(D)
    BY <1>3, <1>7, SeqDef
  <1>9. DOMAIN new = 1..c /\ DOMAIN new = 1..Len(new) /\ Len(new) \in Nat
    BY <1>4, <1>8, LenProperties
  <1>10. Len(new) = c
    BY <1>3, <1>9
  <1> QED
    BY <1>3, <1>5, <1>6, <1>8, <1>9, <1>10 DEF new

(* The greatest position exists.                                            *)
LEMMA Max0Facts ==
    ASSUME NEW n \in Nat, NEW S \in SUBSET (1..n), S # {}
    PROVE  Max0(S) \in S /\ \A l \in S : l <= Max0(S)
  <1>1. /\ IsFiniteSet(S) /\ Cardinality(S) \in Nat
        /\ \A k \in S : Place(S, k) \in 1..Cardinality(S)
        /\ \A k, l \in S : k < l => Place(S, k) < Place(S, l)
        /\ \A j \in 1..Cardinality(S) : \E k \in S : Place(S, k) = j
    BY PlaceFacts
  <1>2. Cardinality(S) # 0
    BY <1>1, FS_EmptySet
  <1>3. PICK m \in S : Place(S, m) = Cardinality(S)
    BY <1>1, <1>2
  <1>4. \A l \in S : l <= m
    <2> TAKE l \in S
    <2>1. ~(m < l)
      BY <1>1, <1>3
    <2> QED
      BY <2>1
  <1> QED
    BY <1>4 DEF Max0

LEMMA NodesType ==
    ASSUME NEW nodes \in Seq(Node)
    PROVE  /\ Len(nodes) \in Nat /\ DOMAIN nodes = 1..Len(nodes)
           /\ \A k \in DOMAIN nodes :
                 /\ nodes[k] \in Node /\ nodes[k].name \in Names
                 /\ nodes[k].host \in Hosts /\ nodes[k].token \in Tokens \cup {Blank}
  <1>1. Len(nodes) \in Nat /\ DOMAIN nodes = 1..Len(nodes) /\ \A k \in DOMAIN nodes : nodes[k] \in Node
    BY LenProperties, ElementOfSeq
  <1> QED
    BY <1>1 DEF Node

(* build_cfg_index finds every server, the last of a name.                  *)
LEMMA IndexFacts ==
    ASSUME NEW nodes \in Seq(Node), Len(nodes) <= MaxHosts
    PROVE  build_cfg_index(nodes) \in [Names -> Reference] /\ IndexOf(build_cfg_index(nodes), nodes)
  <1> DEFINE ix == build_cfg_index(nodes)
             of(n) == {k \in DOMAIN nodes : nodes[k].name = n}
  <1>1. Len(nodes) \in Nat /\ DOMAIN nodes = 1..Len(nodes)
    BY NodesType
  <1>2. ix = [n \in Names |-> Max0(of(n))]
    BY DEF build_cfg_index
  <1>3. ASSUME NEW n \in Names, of(n) # {}
        PROVE  Max0(of(n)) \in of(n)
    <2>1. of(n) \in SUBSET (1..Len(nodes))
      BY <1>1
    <2> QED
      BY <2>1, <1>1, <1>3, Max0Facts
  <1>4. ASSUME NEW n \in Names, of(n) = {}
        PROVE  Max0(of(n)) = 0
    BY <1>4 DEF Max0
  <1>5. \A n \in Names : ix[n] = Max0(of(n))
    BY <1>2
  <1> HIDE DEF ix
  <1>6. ASSUME NEW n \in Names
        PROVE  IF \E k \in DOMAIN nodes : nodes[k].name = n
               THEN ix[n] \in DOMAIN nodes /\ nodes[ix[n]].name = n
               ELSE ix[n] = 0
    <2>1. CASE of(n) # {}
      BY <2>1, <1>3, <1>5
    <2>2. CASE of(n) = {}
      BY <2>2, <1>4, <1>5
    <2> QED
      BY <2>1, <2>2
  <1>7. \A n \in Names : ix[n] \in Reference
    <2> TAKE n \in Names
    <2>1. ix[n] = 0 \/ ix[n] \in 1..Len(nodes)
      BY <1>1, <1>6
    <2> QED
      BY <2>1, <1>1, ServersAssumption DEF Reference
  <1>8. ix \in [Names -> Reference]
    BY <1>7, <1>2
  <1>9. IndexOf(ix, nodes)
    BY <1>6 DEF IndexOf, None
  <1> QED
    BY <1>8, <1>9 DEF ix
----------------------------------------------------------------------------
LEMMA DoType ==
    /\ Do("commit", "none", Blank) \in Write
    /\ \A n \in Names, t \in Tokens \cup {Blank} :
          Do("set", n, t) \in Write /\ Do("forget", n, t) \in Write
  BY DEF Do, Write, Blank

(* The tokens that are known, of every server.                              *)
LEMMA SaveTokensFacts ==
    ASSUME NEW nodes \in Seq(Node)
    PROVE  /\ SaveTokens(nodes) \in Seq(Write)
           /\ Writing(nodes, SaveTokens(nodes)) /\ WritesAll(nodes, SaveTokens(nodes))
  <1> DEFINE S == {k \in DOMAIN nodes : nodes[k].token # Blank}
             known == Only(nodes, S)
             sets == SaveTokens(nodes)
  <1>1. \A k \in DOMAIN nodes : nodes[k].name \in Names /\ nodes[k].token \in Tokens \cup {Blank}
    BY NodesType
  <1>2. S \in SUBSET DOMAIN nodes /\ \A k \in S : nodes[k].token # Blank
    OBVIOUS
  <1>3. \A k \in DOMAIN nodes : nodes[k].token # Blank => k \in S
    OBVIOUS
  <1>4. sets = [j \in DOMAIN known |-> Do("set", known[j].name, known[j].token)]
    BY DEF SaveTokens
  <1> HIDE DEF S
  <1>5. /\ known \in Seq(Node) /\ DOMAIN known = 1..Len(known)
        /\ \A k \in S : Place(S, k) \in DOMAIN known /\ known[Place(S, k)] = nodes[k]
        /\ \A j \in DOMAIN known : \E k \in S : known[j] = nodes[k]
    BY <1>2, OnlyFacts
  <1> HIDE DEF known, sets
  <1>6. \A j \in DOMAIN sets : \E k \in S : sets[j] = Do("set", nodes[k].name, nodes[k].token)
    BY <1>4, <1>5
  <1>7. \A k \in S : Do("set", nodes[k].name, nodes[k].token) \in Writes(sets)
    BY <1>4, <1>5 DEF Writes
  <1>8. sets \in Seq(Write)
    <2>1. Len(known) \in Nat
      BY <1>5, LenProperties
    <2>2. \A j \in DOMAIN sets : sets[j] \in Write
      BY <1>1, <1>2, <1>6, DoType
    <2>3. sets \in [1..Len(known) -> Write]
      BY <1>4, <1>5, <2>2
    <2> QED
      BY <2>1, <2>3, SeqDef
  <1>9. Writing(nodes, sets)
    BY <1>2, <1>6 DEF Writing, Writes, Do
  <1>10. WritesAll(nodes, sets)
    BY <1>3, <1>7 DEF WritesAll
  <1> QED
    BY <1>8, <1>9, <1>10 DEF sets

(* One sequence of writes after another.                                    *)
LEMMA ConcatFacts ==
    ASSUME NEW s \in Seq(Write), NEW r \in Seq(Write)
    PROVE  /\ s \o r \in Seq(Write) /\ Writes(s \o r) = Writes(s) \cup Writes(r)
           /\ s # <<>> => s \o r # <<>> /\ Head(s \o r) = Head(s)
  <1> DEFINE t == s \o r
  <1>1. /\ Len(s) \in Nat /\ DOMAIN s = 1..Len(s)
        /\ Len(r) \in Nat /\ DOMAIN r = 1..Len(r)
    BY LenProperties
  <1>2. /\ t \in Seq(Write) /\ Len(t) = Len(s) + Len(r)
        /\ \A i \in 1..(Len(s) + Len(r)) : t[i] = IF i <= Len(s) THEN s[i] ELSE r[i - Len(s)]
    BY ConcatProperties
  <1> HIDE DEF t
  <1>3. DOMAIN t = 1..(Len(s) + Len(r))
    BY <1>2, LenProperties
  <1>4. ASSUME NEW i \in DOMAIN t
        PROVE  \/ i \in DOMAIN s /\ t[i] = s[i]
               \/ i - Len(s) \in DOMAIN r /\ t[i] = r[i - Len(s)]
    BY <1>1, <1>2, <1>3
  <1>5. \A i \in DOMAIN s : i \in DOMAIN t /\ t[i] = s[i]
    BY <1>1, <1>2, <1>3
  <1>6. ASSUME NEW i \in DOMAIN r
        PROVE  \E j \in DOMAIN t : t[j] = r[i]
    <2>1. i + Len(s) \in DOMAIN t /\ (i + Len(s)) - Len(s) = i /\ ~ (i + Len(s) <= Len(s))
      BY <1>1, <1>3
    <2>2. t[i + Len(s)] = r[i]
      BY <2>1, <1>2, <1>3
    <2> QED
      BY <2>1, <2>2
  <1>7. Writes(t) = Writes(s) \cup Writes(r)
    BY <1>4, <1>5, <1>6 DEF Writes
  <1>8. ASSUME s # <<>>
        PROVE  t # <<>> /\ Head(t) = Head(s)
    <2>1. Len(s) # 0
      BY <1>8, EmptySeq
    <2>2. 1 \in DOMAIN s
      BY <1>1, <2>1
    <2>3. t[1] = s[1] /\ Len(t) # 0
      BY <1>1, <1>2, <1>5, <2>1, <2>2
    <2>4. t # <<>>
      BY <2>3, EmptySeq
    <2> QED
      BY <1>2, <1>8, <2>3, <2>4, HeadTailProperties
  <1> QED
    BY <1>2, <1>7, <1>8 DEF t

(* save_config commits first, then writes the tokens that are known.        *)
LEMMA SaveFacts ==
    ASSUME NEW nodes \in Seq(Node)
    PROVE  /\ Save(nodes) \in Seq(Write) /\ Commits(Save(nodes))
           /\ Writing(nodes, Save(nodes)) /\ WritesAll(nodes, Save(nodes))
  <1> DEFINE c == Do("commit", "none", Blank)
             first == <<c>>
  <1>1. /\ first \in Seq(Write) /\ first # <<>> /\ Head(first) = c
        /\ Writes(first) = {c} /\ c.does = "commit"
    <2>1. c \in Write /\ c.does = "commit"
      BY DoType DEF Do
    <2> QED
      BY <2>1 DEF Writes
  <1>2. /\ SaveTokens(nodes) \in Seq(Write)
        /\ Writing(nodes, SaveTokens(nodes)) /\ WritesAll(nodes, SaveTokens(nodes))
    BY SaveTokensFacts
  <1>3. Save(nodes) = first \o SaveTokens(nodes)
    BY DEF Save
  <1> HIDE DEF c, first
  <1>4. /\ Save(nodes) \in Seq(Write) /\ Commits(Save(nodes))
        /\ Writes(Save(nodes)) = {c} \cup Writes(SaveTokens(nodes))
    BY <1>1, <1>2, <1>3, ConcatFacts DEF Commits
  <1> QED
    BY <1>1, <1>2, <1>4 DEF Writing, WritesAll

(* import_config writes the tokens first, for what it has committed.        *)
LEMMA ImportFacts ==
    ASSUME NEW nodes \in Seq(Node)
    PROVE  LET t == SaveTokens(nodes) \o Save(nodes)
           IN  t \in Seq(Write) /\ Writing(nodes, t) /\ WritesAll(nodes, t)
  <1>1. /\ SaveTokens(nodes) \in Seq(Write) /\ Writing(nodes, SaveTokens(nodes))
        /\ Save(nodes) \in Seq(Write) /\ Writing(nodes, Save(nodes)) /\ WritesAll(nodes, Save(nodes))
    BY SaveTokensFacts, SaveFacts
  <1> QED
    BY <1>1, ConcatFacts DEF Writing, WritesAll

(* delete_node_tokens after it deletes the tokens of servers that are gone. *)
LEMMA WithoutFacts ==
    ASSUME NEW nodes \in Seq(Node), NEW removed \in Seq(Node),
           \A k \in DOMAIN nodes, l \in DOMAIN removed : nodes[k].name # removed[l].name
    PROVE  /\ Without(nodes, removed) \in Seq(Write) /\ Commits(Without(nodes, removed))
           /\ Writing(nodes, Without(nodes, removed))
           /\ WritesAll(nodes, Without(nodes, removed))
  <1> DEFINE f == Forget(removed)
  <1>1. /\ Save(nodes) \in Seq(Write) /\ Commits(Save(nodes))
        /\ Writing(nodes, Save(nodes)) /\ WritesAll(nodes, Save(nodes))
    BY SaveFacts
  <1>2. /\ f \in Seq(Write) /\ DOMAIN f = DOMAIN removed
        /\ \A i \in DOMAIN f : f[i].does = "forget" /\ f[i].name = removed[i].name
    <2>1. /\ Len(removed) \in Nat /\ DOMAIN removed = 1..Len(removed)
          /\ \A k \in DOMAIN removed : removed[k].name \in Names
      BY NodesType
    <2>2. f = [k \in DOMAIN removed |-> Do("forget", removed[k].name, Blank)]
      BY DEF Forget
    <2> HIDE DEF f
    <2>3. \A k \in DOMAIN f : f[k] \in Write /\ f[k].does = "forget" /\ f[k].name = removed[k].name
      BY <2>1, <2>2, DoType DEF Do
    <2>4. f \in [1..Len(removed) -> Write]
      BY <2>1, <2>2, <2>3
    <2> QED
      BY <2>1, <2>2, <2>3, <2>4, SeqDef
  <1>3. Without(nodes, removed) = Save(nodes) \o f
    BY DEF Without
  <1> HIDE DEF f
  <1>4. \A x \in Writes(f) : x.does = "forget" /\ \A k \in DOMAIN nodes : nodes[k].name # x.name
    BY <1>2 DEF Writes
  <1>5. /\ Without(nodes, removed) \in Seq(Write) /\ Commits(Without(nodes, removed))
        /\ Writes(Without(nodes, removed)) = Writes(Save(nodes)) \cup Writes(f)
    BY <1>1, <1>2, <1>3, ConcatFacts DEF Commits
  <1> QED
    BY <1>1, <1>4, <1>5 DEF Writing, WritesAll

(* One write after the other.                                               *)
LEMMA TailFacts ==
    ASSUME NEW t \in Seq(Write), t # <<>>, NEW nodes, Writing(nodes, t)
    PROVE  /\ Head(t) \in Write /\ Head(t) \in Writes(t)
           /\ Tail(t) \in Seq(Write) /\ Writing(nodes, Tail(t))
           /\ Writes(t) \subseteq Writes(Tail(t)) \cup {Head(t)}
  <1> DEFINE r == Tail(t)
  <1>1. /\ Len(t) \in Nat \ {0} /\ DOMAIN t = 1..Len(t)
        /\ Head(t) \in Write /\ r \in Seq(Write) /\ Len(r) = Len(t) - 1
        /\ \A i \in 1..Len(r) : r[i] = t[i + 1]
    BY HeadTailProperties, LenProperties, EmptySeq
  <1>2. DOMAIN r = 1..Len(r)
    BY <1>1, LenProperties
  <1>3. Head(t) = t[1] /\ 1 \in DOMAIN t
    BY <1>1
  <1> HIDE DEF r
  <1>4. \A i \in DOMAIN r : i + 1 \in DOMAIN t /\ r[i] = t[i + 1]
    BY <1>1, <1>2
  <1>5. ASSUME NEW i \in DOMAIN t, i # 1
        PROVE  i - 1 \in DOMAIN r /\ r[i - 1] = t[i]
    <2>1. i - 1 \in DOMAIN r /\ (i - 1) + 1 = i
      BY <1>1, <1>2, <1>5
    <2> QED
      BY <2>1, <1>4
  <1>6. Writes(r) \subseteq Writes(t)
    BY <1>4 DEF Writes
  <1>7. Writes(t) \subseteq Writes(r) \cup {Head(t)}
    BY <1>3, <1>5 DEF Writes
  <1>8. Head(t) \in Writes(t)
    BY <1>3 DEF Writes
  <1>9. Writing(nodes, r)
    BY <1>6 DEF Writing
  <1> QED
    BY <1>1, <1>7, <1>8, <1>9 DEF r
----------------------------------------------------------------------------
(* What holds in every state, that the program runs or not.                 *)
Down == ~up => /\ list = <<>> /\ index = NoIndex /\ pane = NoIndex
               /\ dialog = NoDialog /\ joining = None /\ todo = <<>>

Listed == /\ NamesApart(list) /\ NamesApart(db)
          /\ \A k \in DOMAIN db : db[k].token = Blank

Refers == dialog.at \subseteq DOMAIN list /\ joining \in DOMAIN list \cup {None, Gone}

Finds == IndexOf(index, list) /\ IndexOf(pane, list)

(* The store is behind the list by what the slot has yet to write; and when *)
(* a save has raised, nobody is there to write it.                          *)
Lags == todo = <<>> /\ raised > 0
Behind ==
    /\ Writing(list, todo)
    /\ up => db = Rows(list) \/ Commits(todo) \/ Lags
    /\ \A k \in DOMAIN list :
          list[k].token # Blank =>
             \/ Do("set", list[k].name, list[k].token) \in Writes(todo)
             \/ list[k].name \in unsaved
             \/ Found(list[k].name) = list[k].token
             \/ Lags

IInv == TypeOK /\ Down /\ Listed /\ Refers /\ Finds /\ Behind
----------------------------------------------------------------------------
(* The rows of a list, and the list that is loaded from the rows.           *)
LEMMA RowsFacts ==
    ASSUME NEW nodes \in Seq(Node)
    PROVE  /\ Rows(nodes) \in Seq(Node) /\ DOMAIN Rows(nodes) = DOMAIN nodes
           /\ Len(Rows(nodes)) = Len(nodes)
           /\ \A k \in DOMAIN nodes : Rows(nodes)[k].name = nodes[k].name /\ Rows(nodes)[k].token = Blank
  <1> DEFINE r == Rows(nodes)
  <1>1. Len(nodes) \in Nat /\ DOMAIN nodes = 1..Len(nodes) /\ \A k \in DOMAIN nodes : nodes[k] \in Node
    BY NodesType
  <1>2. r = [k \in DOMAIN nodes |-> [nodes[k] EXCEPT !.token = Blank]]
    BY DEF Rows
  <1> HIDE DEF r
  <1>3. \A k \in DOMAIN nodes : r[k] \in Node /\ r[k].name = nodes[k].name /\ r[k].token = Blank
    BY <1>1, <1>2 DEF Node
  <1>4. r \in [1..Len(nodes) -> Node]
    BY <1>1, <1>2, <1>3
  <1>5. r \in Seq(Node)
    BY <1>1, <1>4, SeqDef
  <1>6. DOMAIN r = DOMAIN nodes /\ DOMAIN r = 1..Len(r) /\ Len(r) \in Nat
    BY <1>2, <1>5, LenProperties
  <1>7. Len(r) = Len(nodes)
    BY <1>1, <1>6
  <1> QED
    BY <1>3, <1>5, <1>6, <1>7 DEF r

LEMMA LoadedFacts ==
    ASSUME TypeOK, NEW readable
    PROVE  LET l == Loaded(readable)
           IN  /\ l \in Seq(Node) /\ DOMAIN l = DOMAIN db /\ Len(l) = Len(db)
               /\ \A k \in DOMAIN db :
                     /\ l[k].name = db[k].name
                     /\ l[k].token = FoundIf(db[k].name, readable)
               /\ (\A k \in DOMAIN db : db[k].token = Blank) => Rows(l) = db
  <1> DEFINE l == Loaded(readable)
             tk(k) == FoundIf(db[k].name, readable)
  <1>1. /\ Len(db) \in Nat /\ DOMAIN db = 1..Len(db)
        /\ \A k \in DOMAIN db : db[k] \in Node /\ db[k].name \in Names
    BY NodesType DEF TypeOK
  <1>2. l = [k \in DOMAIN db |-> [db[k] EXCEPT !.token = tk(k)]]
    BY DEF Loaded
  <1>3. \A n \in Names : Found(n) \in Tokens \cup {Blank}
    BY DEF TypeOK, Found
  <1>4. \A k \in DOMAIN db : tk(k) \in Tokens \cup {Blank}
    BY <1>1, <1>3 DEF FoundIf
  <1> HIDE DEF l, tk
  <1>5. \A k \in DOMAIN db : l[k] \in Node /\ l[k].name = db[k].name /\ l[k].token = tk(k)
    BY <1>1, <1>2, <1>4 DEF Node
  <1>6. l \in [1..Len(db) -> Node]
    BY <1>1, <1>2, <1>5
  <1>7. l \in Seq(Node)
    BY <1>1, <1>6, SeqDef
  <1>8. DOMAIN l = DOMAIN db /\ DOMAIN l = 1..Len(l) /\ Len(l) \in Nat
    BY <1>2, <1>7, LenProperties
  <1>9. Len(l) = Len(db)
    BY <1>1, <1>8
  <1>10. ASSUME \A k \in DOMAIN db : db[k].token = Blank
         PROVE  Rows(l) = db
    <2>1. \A k \in DOMAIN db : [l[k] EXCEPT !.token = Blank] = db[k]
      BY <1>1, <1>2, <1>10 DEF Node
    <2>2. Rows(l) \in Seq(Node) /\ DOMAIN Rows(l) = DOMAIN l /\ Len(Rows(l)) = Len(l)
      BY <1>7, RowsFacts
    <2>3. \A k \in DOMAIN l : Rows(l)[k] = [l[k] EXCEPT !.token = Blank]
      BY DEF Rows
    <2> DEFINE r == Rows(l)
    <2> HIDE DEF r
    <2>4. \A k \in 1..Len(r) : r[k] = db[k]
      BY <2>1, <2>2, <2>3, <1>1, <1>8, <1>9 DEF r
    <2> QED
      BY <2>2, <2>4, <1>9, SeqEqual DEF r, TypeOK
  <1> QED
    BY <1>5, <1>7, <1>8, <1>9, <1>10 DEF l, tk

(* Tokens that are moved to the new service name are found as before.       *)
LEMMA MovedFacts ==
    ASSUME TypeOK, NEW moved, ring' = MovedTokens(moved), legacy' = legacy
    PROVE  /\ ring' \in [Names -> Tokens \cup {Blank}]
           /\ \A n \in Names : Found(n)' = Found(n) /\ (ring[n] # Blank => ring'[n] # Blank)
           /\ [n \in Names |-> Found(n)]' = [n \in Names |-> Found(n)]
  <1>1. ring' \in [Names -> Tokens \cup {Blank}]
    BY DEF TypeOK, MovedTokens, Found
  <1>2. \A n \in Names : Found(n)' = Found(n) /\ (ring[n] # Blank => ring'[n] # Blank)
    BY DEF MovedTokens, Found
  <1> QED
    BY <1>1, <1>2

(* import_config yields servers of the store and of the bundle, nothing     *)
(* else.                                                                    *)
LEMMA MergedType ==
    ASSUME TypeOK, NEW bundle \in Seq(Node), NEW readable
    PROVE  Merged(bundle, readable) \in Seq(Node)
  <1> DEFINE all == Loaded(readable) \o bundle
             of(k) == {l \in DOMAIN all : all[l].host = all[k].host}
             firsts == {k \in DOMAIN all : \A l \in of(k) : k <= l}
             lasts == [k \in DOMAIN all |-> all[Max0(of(k))]]
  <1>1. Loaded(readable) \in Seq(Node)
    BY LoadedFacts
  <1>2. all \in Seq(Node)
    BY <1>1, ConcatProperties
  <1>3. Merged(bundle, readable) = Only(lasts, firsts)
    BY DEF Merged
  <1> HIDE DEF all
  <1>4. Len(all) \in Nat /\ DOMAIN all = 1..Len(all) /\ \A k \in DOMAIN all : all[k] \in Node
    BY <1>2, NodesType
  <1>5. ASSUME NEW k \in DOMAIN all
        PROVE  Max0(of(k)) \in DOMAIN all
    <2>1. k \in of(k) /\ of(k) \in SUBSET (1..Len(all))
      BY <1>4
    <2>2. Max0(of(k)) \in of(k)
      BY <2>1, <1>4, Max0Facts
    <2> QED
      BY <2>2
  <1>6. lasts \in [1..Len(all) -> Node]
    BY <1>4, <1>5
  <1>7. lasts \in Seq(Node) /\ DOMAIN lasts = DOMAIN all
    BY <1>4, <1>6, SeqDef
  <1>8. firsts \in SUBSET DOMAIN lasts
    BY <1>7
  <1> HIDE DEF lasts, firsts
  <1> QED
    BY <1>3, <1>7, <1>8, OnlyFacts
----------------------------------------------------------------------------
LEMMA InitInv == Init => IInv
  <1> SUFFICES ASSUME Init PROVE IInv
    OBVIOUS
  <1>1. /\ list = <<>> /\ db = <<>> /\ todo = <<>> /\ up = FALSE /\ unsaved = {} /\ raised = 0
        /\ index = NoIndex /\ pane = NoIndex /\ dialog = NoDialog /\ joining = None
        /\ ring = [n \in Names |-> Blank] /\ legacy \in [Names -> Tokens \cup {Blank}]
    BY DEF Init
  <1>2. <<>> \in Seq(Node) /\ <<>> \in Seq(Write) /\ Len(<<>>) = 0
    BY EmptySeq
  <1>3. DOMAIN list = {} /\ DOMAIN db = {} /\ DOMAIN todo = {}
    BY <1>1
  <1>4. Reference = 0..(MaxHosts + 1) /\ MaxHosts \in Nat /\ None = 0
    BY ServersAssumption DEF Reference, None
  <1>5. TypeOK
    <2>1. NoIndex \in [Names -> Reference] /\ joining \in Reference
      BY <1>1, <1>4 DEF NoIndex
    <2>2. dialog \in Dialog
      BY <1>1 DEF NoDialog, Dialog
    <2>3. Len(list) <= MaxHosts /\ Len(db) <= MaxHosts
      BY <1>1, <1>2, <1>4
    <2> QED
      BY <1>1, <1>2, <2>1, <2>2, <2>3 DEF TypeOK
  <1>6. Down
    BY <1>1 DEF Down
  <1>7. Listed
    BY <1>3 DEF Listed, NamesApart
  <1>8. Refers
    BY <1>1 DEF Refers, NoDialog
  <1>9. Finds
    BY <1>1, <1>3 DEF Finds, IndexOf, NoIndex
  <1>10. Behind
    BY <1>1, <1>3 DEF Behind, Writing, Writes
  <1> QED
    BY <1>5, <1>6, <1>7, <1>8, <1>9, <1>10 DEF IInv

(* A slot that ends by storing the new list keeps the invariant, whatever   *)
(* the list: nothing that held of the old one is needed.                    *)
LEMMA Changed ==
    ASSUME IInv, up,
           list' \in Seq(Node), Len(list') <= MaxHosts, NamesApart(list'),
           index' \in [Names -> Reference], IndexOf(index', list'),
           pane' = build_cfg_index(list'),
           dialog' \in Dialog, dialog'.at \subseteq DOMAIN list',
           joining' \in DOMAIN list' \cup {None, Gone},
           todo' \in Seq(Write), Writing(list', todo'), WritesAll(list', todo'),
           \/ Commits(todo') /\ UNCHANGED <<db, raised>>
           \/ db' = Rows(list') /\ raised' = 0,
           ring' \in [Names -> Tokens \cup {Blank}],
           unsaved' \subseteq unsaved,
           UNCHANGED <<legacy, up>>
    PROVE  IInv'
  <1>1. pane' \in [Names -> Reference] /\ IndexOf(pane', list')
    <2> DEFINE p == list'
    <2> HIDE DEF p
    <2>1. p \in Seq(Node) /\ Len(p) <= MaxHosts
      BY DEF p
    <2>2. build_cfg_index(p) \in [Names -> Reference] /\ IndexOf(build_cfg_index(p), p)
      BY <2>1, IndexFacts
    <2> QED
      BY <2>2 DEF p
  <1>2. Len(list') \in Nat /\ DOMAIN list' = 1..Len(list')
    <2> DEFINE p == list'
    <2> HIDE DEF p
    <2>1. p \in Seq(Node)
      BY DEF p
    <2>2. Len(p) \in Nat /\ DOMAIN p = 1..Len(p)
      BY <2>1, NodesType
    <2> QED
      BY <2>2 DEF p
  <1>3. joining' \in Reference
    BY <1>2, ServersAssumption DEF Reference, None, Gone
  <1>4. /\ db' \in Seq(Node) /\ Len(db') <= MaxHosts /\ NamesApart(db')
        /\ \A k \in DOMAIN db' : db'[k].token = Blank
    <2>1. CASE db' = db
      BY <2>1 DEF IInv, TypeOK, Listed
    <2>2. CASE db' = Rows(list')
      <3> DEFINE p == list'
      <3> HIDE DEF p
      <3>1. p \in Seq(Node) /\ NamesApart(p) /\ Len(p) <= MaxHosts /\ db' = Rows(p)
        BY <2>2 DEF p
      <3> QED
        BY <3>1, RowsFacts DEF NamesApart
    <2> QED
      BY <2>1, <2>2
  <1>5. TypeOK'
    BY <1>1, <1>3, <1>4 DEF IInv, TypeOK
  <1>6. Down' /\ Listed'
    BY <1>4 DEF IInv, Down, Listed, NamesApart
  <1>7. Refers'
    BY DEF Refers, None, Gone
  <1>8. Finds'
    BY <1>1 DEF Finds, IndexOf
  <1>9. Behind'
    <2>1. Writing(list, todo)' /\ Writes(todo') = Writes(todo)' /\ Commits(todo') = Commits(todo)'
      BY DEF Writing, Writes, Commits
    <2>2. db' = Rows(list)' \/ Commits(todo)'
      BY <2>1 DEF Rows
    <2>3. \A k \in DOMAIN list' : list'[k].token # Blank =>
             Do("set", list'[k].name, list'[k].token) \in Writes(todo)'
      BY <2>1 DEF WritesAll
    <2> QED
      BY <2>1, <2>2, <2>3 DEF Behind
  <1> QED
    BY <1>5, <1>6, <1>7, <1>8, <1>9 DEF IInv

(* A slot that only opens or closes a dialog, starts or ends a worker, or   *)
(* moves tokens in the keyring.                                             *)
LEMMA Quiet ==
    ASSUME IInv, up, dialog' \in Dialog, dialog'.at \subseteq DOMAIN list,
           joining' \in DOMAIN list \cup {None, Gone},
           ring' \in [Names -> Tokens \cup {Blank}],
           \A n \in Names : Found(n)' = Found(n),
           UNCHANGED <<list, index, pane, db, legacy, todo, unsaved, raised, up>>
    PROVE  IInv'
  <1>1. Len(list) \in Nat /\ DOMAIN list = 1..Len(list) /\ Len(list) <= MaxHosts
    BY NodesType DEF IInv, TypeOK
  <1>2. joining' \in Reference
    BY <1>1, ServersAssumption DEF Reference, None, Gone
  <1>3. TypeOK'
    BY <1>2 DEF IInv, TypeOK
  <1>4. Down' /\ Listed' /\ Finds'
    BY DEF IInv, Down, Listed, Finds, NamesApart, IndexOf
  <1>5. Refers'
    BY DEF Refers, None, Gone
  <1>6. Behind'
    <2>1. \A k \in DOMAIN list : list[k].name \in Names
      BY NodesType DEF IInv, TypeOK
    <2> QED
      BY <2>1 DEF IInv, Behind, Writing, Writes, Rows, Commits, Lags
  <1> QED
    BY <1>3, <1>4, <1>5, <1>6 DEF IInv

(* A slot that stores what it leaves, with save_config alone.               *)
LEMMA Saved ==
    ASSUME IInv, up, NEW nodes \in Seq(Node), list' = nodes, Len(nodes) <= MaxHosts,
           NamesApart(nodes),
           index' \in [Names -> Reference], IndexOf(index', nodes),
           pane' = build_cfg_index(nodes),
           dialog' \in Dialog, dialog'.at \subseteq DOMAIN nodes,
           joining' \in DOMAIN nodes \cup {None, Gone},
           todo' = Save(nodes),
           ring' = ring, unsaved' \subseteq unsaved,
           UNCHANGED <<db, legacy, raised, up>>
    PROVE  IInv'
  <1>1. /\ Save(nodes) \in Seq(Write) /\ Commits(Save(nodes)) /\ Writing(nodes, Save(nodes))
        /\ WritesAll(nodes, Save(nodes)) /\ ring \in [Names -> Tokens \cup {Blank}]
    BY SaveFacts DEF IInv, TypeOK
  <1> QED
    BY <1>1, Changed
----------------------------------------------------------------------------
LEMMA ListType ==
    ASSUME IInv
    PROVE  /\ list \in Seq(Node) /\ Len(list) \in Nat /\ DOMAIN list = 1..Len(list)
           /\ Len(list) <= MaxHosts /\ NamesApart(list)
           /\ \A k \in DOMAIN list : list[k] \in Node /\ list[k].name \in Names
           /\ index \in [Names -> Reference] /\ IndexOf(index, list)
           /\ joining \in DOMAIN list \cup {None, Gone}
           /\ ~(None \in DOMAIN list) /\ ~(Gone \in DOMAIN list)
           /\ ring \in [Names -> Tokens \cup {Blank}]
           /\ NoDialog \in Dialog /\ NoDialog.at = {}
  <1>1. list \in Seq(Node) /\ Len(list) <= MaxHosts
    BY DEF IInv, TypeOK
  <1>2. Len(list) \in Nat /\ DOMAIN list = 1..Len(list)
        /\ \A k \in DOMAIN list : list[k] \in Node /\ list[k].name \in Names
    BY <1>1, NodesType
  <1>3. ~(None \in DOMAIN list) /\ ~(Gone \in DOMAIN list)
    BY <1>1, <1>2, ServersAssumption DEF None, Gone
  <1> QED
    BY <1>1, <1>2, <1>3 DEF IInv, TypeOK, Listed, Finds, Refers, NoDialog, Dialog

LEMMA AddStep ==
    ASSUME IInv, Apart, NEW n \in Names, NEW h \in Hosts, NEW t \in Tokens, _on_add_server(n, h, t)
    PROVE  IInv'
  <1> DEFINE node == [name |-> n, host |-> h, clustered |-> FALSE, grouped |-> FALSE, token |-> t]
             nodes == Append(list, node)
  <1>1. node \in Node /\ node.name = n
    BY DEF Node
  <1> HIDE DEF node
  <1>2. /\ nodes \in Seq(Node) /\ Len(nodes) = Len(list) + 1
        /\ \A k \in 1..Len(list) : nodes[k] = list[k]
        /\ nodes[Len(list) + 1] = node
        /\ DOMAIN nodes = 1..Len(nodes)
    BY <1>1, ListType, AppendProperties, LenProperties
  <1>3. /\ up /\ list' = nodes /\ index' = [index EXCEPT ![n] = Len(nodes)]
        /\ pane' = build_cfg_index(nodes) /\ dialog' = NoDialog
        /\ joining' = IF joining \in DOMAIN list THEN Stays[joining] ELSE joining
        /\ todo' = Save(nodes) /\ ring' = ring /\ unsaved' \subseteq unsaved
        /\ UNCHANGED <<db, legacy, raised, up>>
    BY DEF _on_add_server, Leave, Idle, Turns, node
  <1> HIDE DEF nodes
  <1>4. Len(nodes) <= MaxHosts /\ NamesApart(nodes)
    BY <1>3 DEF Apart, NamesApart
  <1>5. \A k \in DOMAIN nodes : k \in DOMAIN list \/ k = Len(nodes)
    BY <1>2, ListType
  <1>6. DOMAIN list \subseteq DOMAIN nodes /\ Len(nodes) \in DOMAIN nodes
    BY <1>2, ListType
  <1>7. index' \in [Names -> Reference] /\ IndexOf(index', nodes)
    <2>1. Len(nodes) \in Reference
      BY <1>4, <1>2, ListType, ServersAssumption DEF Reference
    <2>2. index' \in [Names -> Reference] /\ \A m \in Names : index'[m] = IF m = n THEN Len(nodes) ELSE index[m]
      BY <1>3, <2>1, ListType
    <2>3. nodes[Len(nodes)].name = n
      BY <1>1, <1>2
    <2>4. ASSUME NEW m \in Names, m # n
          PROVE  IF \E k \in DOMAIN nodes : nodes[k].name = m
                 THEN index'[m] \in DOMAIN nodes /\ nodes[index'[m]].name = m
                 ELSE index'[m] = None
      <3>1. \A k \in DOMAIN list : nodes[k] = list[k]
        BY <1>2, ListType
      <3>2. (\E k \in DOMAIN nodes : nodes[k].name = m) <=> \E k \in DOMAIN list : list[k].name = m
        BY <3>1, <2>3, <2>4, <1>5, <1>6
      <3>3. IF \E k \in DOMAIN list : list[k].name = m
            THEN index[m] \in DOMAIN list /\ list[index[m]].name = m
            ELSE index[m] = None
        BY ListType DEF IndexOf
      <3> QED
        BY <3>1, <3>2, <3>3, <2>2, <2>4, <1>6
    <2> QED
      BY <2>2, <2>3, <2>4, <1>6 DEF IndexOf
  <1>8. joining' \in DOMAIN nodes \cup {None, Gone}
    BY <1>3, <1>6, ListType DEF Stays
  <1>9. dialog' \in Dialog /\ dialog'.at \subseteq DOMAIN nodes /\ ring' \in [Names -> Tokens \cup {Blank}]
    BY <1>3, ListType
  <1> QED
    BY <1>2, <1>3, <1>4, <1>7, <1>8, <1>9, Saved

LEMMA ImportStep ==
    ASSUME IInv, Apart, NEW bundle \in Bundles, NEW readable, NEW moved,
           _on_import_config(bundle, readable, moved)
    PROVE  IInv'
  <1> DEFINE nodes == Merged(bundle, readable)
  <1>1. bundle \in Seq(Node)
    <2>1. PICK c \in [name : Names, host : Hosts, clustered : {FALSE}, grouped : {FALSE},
                      token : Tokens \cup {Blank}] : bundle = <<c>>
      BY DEF Bundles
    <2>2. c \in Node
      BY DEF Node
    <2>3. <<>> \in Seq(Node) /\ bundle = Append(<<>>, c)
      BY <2>1, EmptySeq
    <2> QED
      BY <2>2, <2>3, AppendProperties
  <1>2. nodes \in Seq(Node)
    BY <1>1, MergedType DEF IInv
  <1>3. /\ up /\ list' = nodes /\ index' = build_cfg_index(nodes)
        /\ pane' = build_cfg_index(nodes) /\ dialog' = NoDialog
        /\ joining' = IF joining \in DOMAIN list THEN Gone ELSE joining
        /\ todo' = SaveTokens(nodes) \o Save(nodes) /\ ring' = MovedTokens(moved)
        /\ db' = Rows(nodes) /\ raised' = 0 /\ unsaved' \subseteq unsaved
        /\ UNCHANGED <<legacy, up>>
    BY DEF _on_import_config, Leave, Idle, Turns
  <1> HIDE DEF nodes
  <1>4. Len(nodes) <= MaxHosts /\ NamesApart(nodes)
    BY <1>3 DEF Apart, NamesApart
  <1>5. index' \in [Names -> Reference] /\ IndexOf(index', nodes)
    BY <1>2, <1>3, <1>4, IndexFacts
  <1>6. joining' \in DOMAIN nodes \cup {None, Gone}
    BY <1>3, ListType
  <1>7. dialog' \in Dialog /\ dialog'.at \subseteq DOMAIN nodes /\ ring' \in [Names -> Tokens \cup {Blank}]
    BY <1>3, ListType, MovedFacts DEF IInv
  <1>8. LET t == SaveTokens(nodes) \o Save(nodes)
        IN  t \in Seq(Write) /\ Writing(nodes, t) /\ WritesAll(nodes, t)
    BY <1>2, ImportFacts
  <1> QED
    BY <1>2, <1>3, <1>4, <1>5, <1>6, <1>7, <1>8, Changed

(* A change in one of the dicts that leaves the names alone.                *)
LEMMA RewrittenFacts ==
    ASSUME IInv, NEW at \in DOMAIN list, NEW c \in Node, c.name = list[at].name
    PROVE  LET nodes == [list EXCEPT ![at] = c]
           IN  /\ nodes \in Seq(Node) /\ DOMAIN nodes = DOMAIN list /\ Len(nodes) <= MaxHosts
               /\ NamesApart(nodes) /\ \A k \in DOMAIN list : nodes[k].name = list[k].name
               /\ IndexOf(index, nodes)
  <1> DEFINE nodes == [list EXCEPT ![at] = c]
  <1>1. nodes \in Seq(Node) /\ Len(nodes) = Len(list)
    BY ListType, ExceptSeq
  <1>2. DOMAIN nodes = DOMAIN list /\ \A k \in DOMAIN list : nodes[k].name = list[k].name
    OBVIOUS
  <1> HIDE DEF nodes
  <1>3. NamesApart(nodes)
    BY <1>2, ListType DEF NamesApart
  <1>4. IndexOf(index, nodes)
    BY <1>2, ListType DEF IndexOf
  <1> QED
    BY <1>1, <1>2, <1>3, <1>4, ListType DEF nodes

LEMMA GroupStep ==
    ASSUME IInv, NEW n \in Names, NEW grouped \in BOOLEAN, _on_group_move(n, grouped)
    PROVE  IInv'
  <1> DEFINE at == index[n]
             c == [list[at] EXCEPT !.grouped = grouped]
             nodes == [list EXCEPT ![at] = c]
  <1>1. at \in DOMAIN list
    BY ListType DEF _on_group_move, IndexOf
  <1>2. c \in Node /\ c.name = list[at].name
    BY <1>1, ListType DEF Node
  <1>3. [list EXCEPT ![index[n]].grouped = grouped] = nodes
    OBVIOUS
  <1>4. /\ up /\ list' = nodes /\ index' = index
        /\ pane' = build_cfg_index(nodes) /\ dialog' = NoDialog
        /\ joining' = IF joining \in DOMAIN list THEN Stays[joining] ELSE joining
        /\ todo' = Save(nodes) /\ ring' = ring /\ unsaved' \subseteq unsaved
        /\ UNCHANGED <<db, legacy, raised, up>>
    BY <1>1, <1>3, ListType DEF _on_group_move, Leave, Idle, Turns
  <1> HIDE DEF at, c
  <1>5. /\ nodes \in Seq(Node) /\ DOMAIN nodes = DOMAIN list /\ Len(nodes) <= MaxHosts
        /\ NamesApart(nodes) /\ IndexOf(index, nodes)
    BY <1>1, <1>2, RewrittenFacts
  <1> HIDE DEF nodes
  <1>6. joining' \in DOMAIN nodes \cup {None, Gone}
    BY <1>4, <1>5, ListType DEF Stays
  <1>7. /\ dialog' \in Dialog /\ dialog'.at \subseteq DOMAIN nodes
        /\ ring' \in [Names -> Tokens \cup {Blank}] /\ index' \in [Names -> Reference]
    BY <1>4, ListType
  <1> QED
    BY <1>4, <1>5, <1>6, <1>7, Saved

LEMMA TokenStep ==
    ASSUME IInv, NEW t \in Tokens, TokenRefreshed(t)
    PROVE  IInv'
  <1> DEFINE new(at) == [list EXCEPT ![at].token = t, ![at].grouped = FALSE]
  <1>1. dialog.at \subseteq DOMAIN list /\ up
    BY DEF IInv, Refers, TokenRefreshed, Turns
  <1>2. PICK at \in dialog.at :
          /\ index' = Indexed(at, list[at].name)
          /\ Leave(new(at), [Stays EXCEPT ![at] = Gone], Save(new(at)))
    BY DEF TokenRefreshed
  <1>3. at \in DOMAIN list
    BY <1>1, <1>2
  <1> DEFINE c == [list[at] EXCEPT !.token = t, !.grouped = FALSE]
             nodes == [list EXCEPT ![at] = c]
  <1>4. c \in Node /\ c.name = list[at].name
    BY <1>3, ListType DEF Node
  <1>5. new(at) = nodes
    BY <1>3, ListType
  <1>6. /\ list' = nodes /\ index' = [index EXCEPT ![list[at].name] = at]
        /\ pane' = build_cfg_index(nodes) /\ dialog' = NoDialog
        /\ joining' = IF joining \in DOMAIN list THEN [Stays EXCEPT ![at] = Gone][joining] ELSE joining
        /\ todo' = Save(nodes) /\ ring' = ring /\ unsaved' \subseteq unsaved
        /\ UNCHANGED <<db, legacy, raised, up>>
    BY <1>2, <1>5 DEF TokenRefreshed, Leave, Indexed
  <1> HIDE DEF c
  <1>7. /\ nodes \in Seq(Node) /\ DOMAIN nodes = DOMAIN list /\ Len(nodes) <= MaxHosts
        /\ NamesApart(nodes) /\ IndexOf(index, nodes)
        /\ \A k \in DOMAIN list : nodes[k].name = list[k].name
    BY <1>3, <1>4, RewrittenFacts
  <1> HIDE DEF nodes
  <1>8. at \in Reference /\ list[at].name \in Names
    BY <1>3, ListType, ServersAssumption DEF Reference
  <1>9. index' \in [Names -> Reference] /\ IndexOf(index', nodes)
    <2>1. index' \in [Names -> Reference]
          /\ \A m \in Names : index'[m] = IF m = list[at].name THEN at ELSE index[m]
      BY <1>6, <1>8, ListType
    <2> QED
      BY <2>1, <1>3, <1>7 DEF IndexOf
  <1>10. joining' \in DOMAIN nodes \cup {None, Gone}
    BY <1>3, <1>6, <1>7, ListType DEF Stays
  <1>11. dialog' \in Dialog /\ dialog'.at \subseteq DOMAIN nodes /\ ring' \in [Names -> Tokens \cup {Blank}]
    BY <1>6, ListType
  <1> QED
    BY <1>1, <1>6, <1>7, <1>9, <1>10, <1>11, Saved

(* What is left when some servers are removed, and what is removed.         *)
LEMMA RemoveStep ==
    ASSUME IInv, HostRemoved
    PROVE  IInv'
  <1> DEFINE matched == {list[k] : k \in dialog.at}
             kept == {k \in DOMAIN list : list[k] \notin matched}
             gone == DOMAIN list \ kept
             nodes == Only(list, kept)
             removed == Only(list, gone)
             now == [k \in DOMAIN list |-> IF k \in kept THEN Place(kept, k) ELSE Gone]
  <1>1. /\ up /\ list' = nodes /\ index' = build_cfg_index(nodes)
        /\ pane' = build_cfg_index(nodes) /\ dialog' = NoDialog
        /\ joining' = IF joining \in DOMAIN list THEN now[joining] ELSE joining
        /\ todo' = Without(nodes, removed) /\ ring' = ring /\ unsaved' \subseteq unsaved
        /\ UNCHANGED <<db, legacy, raised, up>>
    BY DEF HostRemoved, Leave, Turns
  <1>2. kept \in SUBSET DOMAIN list /\ gone \in SUBSET DOMAIN list /\ kept \cap gone = {}
    OBVIOUS
  <1> HIDE DEF kept, gone
  <1>3. /\ nodes \in Seq(Node) /\ Len(nodes) <= Len(list) /\ DOMAIN nodes = 1..Len(nodes)
        /\ \A k \in kept : Place(kept, k) \in DOMAIN nodes /\ nodes[Place(kept, k)] = list[k]
        /\ \A j \in DOMAIN nodes : \E k \in kept : Place(kept, k) = j /\ nodes[j] = list[k]
    BY <1>2, ListType, OnlyFacts
  <1>4. /\ removed \in Seq(Node)
        /\ \A j \in DOMAIN removed : \E k \in gone : removed[j] = list[k]
    BY <1>2, ListType, OnlyFacts
  <1> HIDE DEF nodes, removed
  <1>5. Len(nodes) <= MaxHosts
    BY <1>3, ListType, NodesType, ServersAssumption
  <1>6. NamesApart(nodes)
    <2> SUFFICES ASSUME NEW i \in DOMAIN nodes, NEW j \in DOMAIN nodes, nodes[i].name = nodes[j].name
                 PROVE  i = j
      BY DEF NamesApart
    <2>1. PICK k \in kept : Place(kept, k) = i /\ nodes[i] = list[k]
      BY <1>3
    <2>2. PICK l \in kept : Place(kept, l) = j /\ nodes[j] = list[l]
      BY <1>3
    <2>3. k = l
      BY <2>1, <2>2, <1>2, ListType DEF NamesApart
    <2> QED
      BY <2>1, <2>2, <2>3
  <1>7. \A i \in DOMAIN nodes, j \in DOMAIN removed : nodes[i].name # removed[j].name
    <2> SUFFICES ASSUME NEW i \in DOMAIN nodes, NEW j \in DOMAIN removed,
                        nodes[i].name = removed[j].name
                 PROVE  FALSE
      OBVIOUS
    <2>1. PICK k \in kept : nodes[i] = list[k]
      BY <1>3
    <2>2. PICK l \in gone : removed[j] = list[l]
      BY <1>4
    <2>3. k = l
      BY <2>1, <2>2, <1>2, ListType DEF NamesApart
    <2> QED
      BY <2>3, <1>2
  <1>8. /\ Without(nodes, removed) \in Seq(Write) /\ Writing(nodes, Without(nodes, removed))
        /\ WritesAll(nodes, Without(nodes, removed)) /\ Commits(Without(nodes, removed))
    BY <1>3, <1>4, <1>7, WithoutFacts
  <1>9. index' \in [Names -> Reference] /\ IndexOf(index', nodes)
    BY <1>1, <1>3, <1>5, IndexFacts
  <1>10. joining' \in DOMAIN nodes \cup {None, Gone}
    BY <1>1, <1>3, ListType
  <1>11. dialog' \in Dialog /\ dialog'.at \subseteq DOMAIN nodes /\ ring' \in [Names -> Tokens \cup {Blank}]
    BY <1>1, ListType
  <1> QED
    BY <1>1, <1>3, <1>5, <1>6, <1>8, <1>9, <1>10, <1>11, Changed

(* The answer of a join or creation marks the dict it was started with.     *)
LEMMA MarkStep ==
    ASSUME IInv, _mark_joinee
    PROVE  IInv'
  <1> DEFINE c == [list[joining] EXCEPT !.clustered = TRUE]
             nodes == IF joining = Gone THEN list ELSE [list EXCEPT ![joining] = c]
  <1>1. /\ up /\ list' = nodes /\ index' = index /\ pane' = build_cfg_index(nodes)
        /\ dialog' = dialog /\ joining' = None /\ todo' = Save(nodes) /\ ring' = ring
        /\ UNCHANGED <<db, legacy, unsaved, raised, up>>
    BY DEF _mark_joinee, Turns
  <1>2. joining = Gone \/ joining \in DOMAIN list
    BY ListType DEF _mark_joinee
  <1>3. joining \in DOMAIN list => c \in Node /\ c.name = list[joining].name
    BY ListType DEF Node
  <1> HIDE DEF c
  <1>4. /\ nodes \in Seq(Node) /\ DOMAIN nodes = DOMAIN list /\ Len(nodes) <= MaxHosts
        /\ NamesApart(nodes) /\ IndexOf(index, nodes)
    <2>1. CASE joining = Gone
      BY <2>1, ListType
    <2>2. CASE joining \in DOMAIN list
      <3>1. nodes = [list EXCEPT ![joining] = c]
        BY <2>2, ListType
      <3> QED
        BY <2>2, <3>1, <1>3, RewrittenFacts
    <2> QED
      BY <1>2, <2>1, <2>2
  <1> HIDE DEF nodes
  <1>5. dialog' \in Dialog /\ dialog'.at \subseteq DOMAIN nodes
    BY <1>1, <1>4 DEF IInv, TypeOK, Refers
  <1>6. ring' \in [Names -> Tokens \cup {Blank}] /\ index' \in [Names -> Reference]
    BY <1>1, ListType
  <1> QED
    BY <1>1, <1>4, <1>5, <1>6, Saved

(* The slots that do not touch the list.                                    *)
LEMMA QuietSteps ==
    ASSUME IInv,
           \/ \E n \in Names : _on_host_token_refresh(n)
           \/ _on_host_remove \/ Dismiss \/ JoinFails
           \/ \E at \in 1..MaxHosts : _on_cluster_join(at)
           \/ \E moved : ImportRaises(moved)
    PROVE  IInv'
  <1>1. ASSUME NEW kind \in {"token", "remove"}, NEW at \in SUBSET DOMAIN list, Opens(kind, at)
        PROVE  IInv'
    <2>1. /\ up /\ dialog' = [kind |-> kind, at |-> at]
          /\ UNCHANGED <<list, index, pane, joining, db, ring, legacy, todo, unsaved, raised, up>>
      BY <1>1 DEF Opens, Idle, Turns
    <2>2. at \in SUBSET (1..MaxHosts)
      BY ListType, ServersAssumption
    <2>3. dialog' \in Dialog /\ dialog'.at \subseteq DOMAIN list
      BY <2>1, <2>2 DEF Dialog
    <2>4. joining' \in DOMAIN list \cup {None, Gone}
      BY <2>1, ListType
    <2>5. ring' \in [Names -> Tokens \cup {Blank}] /\ \A n \in Names : Found(n)' = Found(n)
      BY <2>1, ListType DEF Found
    <2> QED
      BY <2>1, <2>3, <2>4, <2>5, Quiet
  <1>2. ASSUME NEW n \in Names, _on_host_token_refresh(n) PROVE IInv'
    <2>1. {index[n]} \ {None} \in SUBSET DOMAIN list
      BY ListType DEF IndexOf
    <2> QED
      BY <2>1, <1>1, <1>2 DEF _on_host_token_refresh
  <1>3. CASE _on_host_remove
    <2>1. /\ {k \in DOMAIN list : list[k].clustered} \in SUBSET DOMAIN list
          /\ \A n \in Names : {k \in DOMAIN list : list[k].name = n} \in SUBSET DOMAIN list
      OBVIOUS
    <2> QED
      BY <2>1, <1>1, <1>3 DEF _on_host_remove
  <1>4. CASE Dismiss
    BY <1>4, ListType, Quiet DEF Dismiss, Turns, Found
  <1>5. CASE JoinFails
    BY <1>5, ListType, Quiet DEF JoinFails, Turns, IInv, TypeOK, Refers, Found
  <1>6. ASSUME NEW at \in 1..MaxHosts, _on_cluster_join(at) PROVE IInv'
    BY <1>6, ListType, Quiet DEF _on_cluster_join, Idle, Turns, IInv, TypeOK, Refers, Found
  <1>7. ASSUME NEW moved, ImportRaises(moved) PROVE IInv'
    <2>1. /\ up /\ ring' = MovedTokens(moved)
          /\ UNCHANGED <<list, index, pane, dialog, joining, db, legacy, todo, unsaved, raised, up>>
      BY <1>7 DEF ImportRaises, Idle, Turns, memory
    <2>2. ring' \in [Names -> Tokens \cup {Blank}] /\ \A n \in Names : Found(n)' = Found(n)
      BY <2>1, MovedFacts DEF IInv
    <2>3. dialog' \in Dialog /\ dialog'.at \subseteq DOMAIN list
      BY <2>1 DEF IInv, TypeOK, Refers
    <2>4. joining' \in DOMAIN list \cup {None, Gone}
      BY <2>1, ListType
    <2> QED
      BY <2>1, <2>2, <2>3, <2>4, Quiet
  <1> QED
    BY <1>2, <1>3, <1>4, <1>5, <1>6, <1>7
----------------------------------------------------------------------------
(* A write that fits what follows: it is done or, for a token, given up.    *)
LEMMA StoreFacts ==
    ASSUME IInv, NEW does, Stores(does)
    PROVE  /\ up /\ todo \in Seq(Write) /\ todo # <<>>
           /\ Head(todo) \in Writes(todo) /\ Head(todo) \in Write /\ Head(todo).does = does
           /\ todo' = Tail(todo) /\ todo' \in Seq(Write) /\ Writing(list, todo')
           /\ ~ Lags
           /\ Writes(todo) \subseteq Writes(todo') \cup {Head(todo)}
           /\ Writing(list, todo)
  <1>1. up /\ todo # <<>> /\ Head(todo).does = does /\ todo' = Tail(todo)
    BY DEF Stores
  <1>2. todo \in Seq(Write) /\ Writing(list, todo)
    BY DEF IInv, TypeOK, Behind
  <1>3. /\ Head(todo) \in Write /\ Head(todo) \in Writes(todo)
        /\ Tail(todo) \in Seq(Write) /\ Writing(list, Tail(todo))
        /\ Writes(todo) \subseteq Writes(Tail(todo)) \cup {Head(todo)}
    BY <1>1, <1>2, TailFacts
  <1> QED
    BY <1>1, <1>2, <1>3 DEF Lags

(* Where a token is to be written, the rows are those of the list.          *)
LEMMA RowsStored ==
    ASSUME IInv, NEW does \in {"set", "forget"}, Stores(does)
    PROVE  db = Rows(list)
  <1>1. up /\ ~ Lags /\ ~ Commits(todo)
    BY StoreFacts DEF Commits
  <1> QED
    BY <1>1 DEF IInv, Behind

LEMMA CommitStep ==
    ASSUME IInv, Commit
    PROVE  IInv'
  <1>1. /\ up /\ todo' \in Seq(Write) /\ Writing(list, todo')
        /\ Head(todo).does = "commit"
        /\ Writes(todo) \subseteq Writes(todo') \cup {Head(todo)}
        /\ ~ Lags
    BY StoreFacts DEF Commit
  <1>2. /\ db' = Rows(list) /\ raised' = 0
        /\ UNCHANGED <<list, index, pane, dialog, joining, ring, legacy, unsaved, up>>
    BY DEF Commit, memory
  <1>3. /\ db' \in Seq(Node) /\ DOMAIN db' = DOMAIN list /\ Len(db') <= MaxHosts
        /\ \A k \in DOMAIN list : db'[k].name = list[k].name /\ db'[k].token = Blank
    BY <1>2, RowsFacts, ListType
  <1>4. TypeOK' /\ Down' /\ Refers' /\ Finds'
    BY <1>1, <1>2, <1>3 DEF IInv, TypeOK, Down, Refers, Finds, IndexOf, Gone, None
  <1>5. Listed'
    BY <1>2, <1>3 DEF IInv, Listed, NamesApart
  <1>6. Behind'
    <2>1. Writing(list, todo)'
      BY <1>1, <1>2 DEF Writing, Writes
    <2>2. db' = Rows(list)'
      BY <1>2 DEF Rows
    <2>3. \A k \in DOMAIN list :
            Do("set", list[k].name, list[k].token) \in Writes(todo) =>
            Do("set", list[k].name, list[k].token) \in Writes(todo')
      BY <1>1 DEF Do
    <2>4. \A k \in DOMAIN list : list[k].token # Blank =>
             \/ Do("set", list[k].name, list[k].token) \in Writes(todo')
             \/ list[k].name \in unsaved
             \/ Found(list[k].name) = list[k].token
      BY <1>1, <2>3 DEF IInv, Behind
    <2>5. Writes(todo') = Writes(todo)' /\ \A n : Found(n)' = Found(n)
      BY <1>2 DEF Writes, Found
    <2> QED
      BY <1>2, <2>1, <2>2, <2>4, <2>5 DEF Behind
  <1> QED
    BY <1>4, <1>5, <1>6 DEF IInv

(* A save that raises leaves the list ahead of the store.                   *)
LEMMA CommitRaisesStep ==
    ASSUME IInv, CommitRaises
    PROVE  IInv'
  <1>1. /\ up /\ todo' = <<>> /\ raised' = raised + 1 /\ raised \in Nat
        /\ UNCHANGED <<list, index, pane, dialog, joining, db, ring, legacy, unsaved, up>>
    BY DEF CommitRaises, memory, IInv, TypeOK
  <1>2. <<>> \in Seq(Write) /\ raised' \in Nat /\ raised' > 0
    BY <1>1, EmptySeq
  <1>3. TypeOK'
    BY <1>1, <1>2 DEF IInv, TypeOK
  <1>4. Down' /\ Listed' /\ Refers' /\ Finds'
    BY <1>1 DEF IInv, Down, Listed, NamesApart, Refers, Gone, None, Finds, IndexOf
  <1>5. Behind'
    <2>1. Lags' /\ Writing(list, todo)'
      BY <1>1, <1>2 DEF Lags, Writing, Writes
    <2> QED
      BY <2>1 DEF Behind
  <1> QED
    BY <1>3, <1>4, <1>5 DEF IInv

(* _save_token writes the token of a listed server, or fails and says so in *)
(* the log only.                                                            *)
LEMMA SetFacts ==
    ASSUME IInv, _save_token
    PROVE  LET n == Head(todo).name IN
           /\ n \in Names /\ Head(todo).token \in Tokens \cup {Blank} /\ Head(todo).token # Blank
           /\ \A k \in DOMAIN list : list[k].name = n => list[k].token = Head(todo).token
  <1>1. Head(todo) \in Writes(todo) /\ Head(todo) \in Write /\ Head(todo).does = "set"
        /\ Writing(list, todo)
    BY StoreFacts DEF _save_token
  <1>2. PICK k \in DOMAIN list : /\ list[k].name = Head(todo).name
                                 /\ list[k].token = Head(todo).token /\ Head(todo).token # Blank
    BY <1>1 DEF Writing
  <1>3. Head(todo).token \in Tokens \cup {Blank}
    BY <1>1 DEF Write
  <1> QED
    BY <1>2, <1>3, ListType DEF NamesApart

LEMMA SetStep ==
    ASSUME IInv, _save_token
    PROVE  IInv'
  <1> DEFINE n == Head(todo).name
             t == Head(todo).token
  <1>1. /\ up /\ todo' \in Seq(Write) /\ Writing(list, todo')
        /\ Writes(todo) \subseteq Writes(todo') \cup {Head(todo)}
        /\ Stores("set") /\ ~ Lags
    BY StoreFacts DEF _save_token
  <1>2. /\ n \in Names /\ t \in Tokens \cup {Blank} /\ t # Blank
        /\ \A k \in DOMAIN list : list[k].name = n => list[k].token = t
    BY SetFacts
  <1>3. db = Rows(list)
    BY <1>1, RowsStored
  <1>4. /\ UNCHANGED <<list, index, pane, dialog, joining, db, legacy, raised, up>>
        /\ \/ ring' = [ring EXCEPT ![n] = t] /\ unsaved' = unsaved \ {n}
           \/ ring' = ring /\ unsaved' = unsaved \cup {n}
    BY DEF _save_token, memory
  <1>5. Head(todo) \in Write /\ Head(todo) = Do("set", n, t)
    <2>1. Head(todo) \in Write /\ Head(todo).does = "set"
      BY StoreFacts DEF _save_token
    <2> QED
      BY <2>1 DEF Write, Do
  <1> HIDE DEF n, t
  <1>6. TypeOK' /\ Down' /\ Refers' /\ Finds' /\ Listed'
    <2>1. ring' \in [Names -> Tokens \cup {Blank}] /\ unsaved' \subseteq Names
      BY <1>2, <1>4 DEF IInv, TypeOK
    <2> QED
      BY <1>1, <1>4, <2>1 DEF IInv, TypeOK, Down, Refers, Finds, IndexOf, Gone, None, Listed, NamesApart
  <1>7. Behind'
    <2>1. Writing(list, todo)' /\ Writes(todo') = Writes(todo)'
      BY <1>1, <1>4 DEF Writing, Writes
    <2>2. db' = Rows(list)'
      BY <1>3, <1>4 DEF Rows
    <2>3. ASSUME NEW k \in DOMAIN list, list[k].token # Blank
          PROVE  \/ Do("set", list[k].name, list[k].token) \in Writes(todo')
                 \/ list[k].name \in unsaved'
                 \/ Found(list[k].name)' = list[k].token
      <3>1. list[k].name \in Names /\ ring \in [Names -> Tokens \cup {Blank}]
        BY ListType
      <3>2. CASE list[k].name = n
        <4>1. list[k].token = t
          BY <1>2, <3>2
        <4> QED
          BY <1>2, <1>4, <3>1, <3>2, <4>1 DEF Found
      <3>3. CASE list[k].name # n
        <4>1. Do("set", list[k].name, list[k].token) # Head(todo)
          BY <1>5, <3>3 DEF Do
        <4>2. \/ Do("set", list[k].name, list[k].token) \in Writes(todo)
              \/ list[k].name \in unsaved
              \/ Found(list[k].name) = list[k].token
          BY <1>1, <2>3 DEF IInv, Behind
        <4>3. Found(list[k].name)' = Found(list[k].name)
          BY <1>4, <3>1, <3>3 DEF Found
        <4> QED
          BY <1>1, <1>4, <3>3, <4>1, <4>2, <4>3
      <3> QED
        BY <3>2, <3>3
    <2>4. \A k \in DOMAIN list' : list'[k].token # Blank =>
             \/ Do("set", list'[k].name, list'[k].token) \in Writes(todo)'
             \/ list'[k].name \in unsaved'
             \/ Found(list[k].name)' = list'[k].token
      BY <2>1, <2>3, <1>4
    <2> QED
      BY <2>1, <2>2, <2>4 DEF Behind
  <1> QED
    BY <1>6, <1>7 DEF IInv

(* delete_node_tokens deletes the token of a server that is in neither the  *)
(* list nor the rows.                                                       *)
LEMMA ForgetFacts ==
    ASSUME IInv, _delete_token
    PROVE  /\ \A k \in DOMAIN list : list[k].name # Head(todo).name
           /\ \A k \in DOMAIN db : db[k].name # Head(todo).name
  <1>1. Stores("forget") /\ Head(todo) \in Writes(todo) /\ Head(todo).does = "forget"
        /\ Writing(list, todo)
    BY StoreFacts DEF _delete_token
  <1>2. db = Rows(list)
    BY <1>1, RowsStored
  <1>3. \A k \in DOMAIN list : list[k].name # Head(todo).name
    BY <1>1 DEF Writing
  <1> QED
    BY <1>2, <1>3, RowsFacts, ListType

LEMMA ForgetStep ==
    ASSUME IInv, _delete_token
    PROVE  IInv'
  <1> DEFINE n == Head(todo).name
  <1>1. /\ up /\ todo' \in Seq(Write) /\ Writing(list, todo')
        /\ Writes(todo) \subseteq Writes(todo') \cup {Head(todo)}
        /\ Stores("forget") /\ Head(todo).does = "forget" /\ ~ Lags
    BY StoreFacts DEF _delete_token
  <1>2. \A k \in DOMAIN list : list[k].name # n
    BY ForgetFacts
  <1>3. db = Rows(list)
    BY <1>1, RowsStored
  <1>4. /\ UNCHANGED <<list, index, pane, dialog, joining, db, unsaved, raised, up>>
        /\ ring' \in {ring, [ring EXCEPT ![n] = Blank]}
        /\ legacy' \in {legacy, [legacy EXCEPT ![n] = Blank]}
    BY DEF _delete_token, memory
  <1> HIDE DEF n
  <1>5. TypeOK' /\ Down' /\ Refers' /\ Finds' /\ Listed'
    <2>1. ring' \in [Names -> Tokens \cup {Blank}] /\ legacy' \in [Names -> Tokens \cup {Blank}]
      BY <1>4 DEF IInv, TypeOK
    <2> QED
      BY <1>1, <1>4, <2>1 DEF IInv, TypeOK, Down, Refers, Finds, IndexOf, Gone, None, Listed, NamesApart
  <1>6. Behind'
    <2>1. Writing(list, todo)' /\ Writes(todo') = Writes(todo)'
      BY <1>1, <1>4 DEF Writing, Writes
    <2>2. db' = Rows(list)'
      BY <1>3, <1>4 DEF Rows
    <2>3. ASSUME NEW k \in DOMAIN list, list[k].token # Blank
          PROVE  \/ Do("set", list[k].name, list[k].token) \in Writes(todo')
                 \/ list[k].name \in unsaved
                 \/ Found(list[k].name)' = list[k].token
      <3>1. list[k].name \in Names /\ list[k].name # n
            /\ ring \in [Names -> Tokens \cup {Blank}] /\ legacy \in [Names -> Tokens \cup {Blank}]
        BY <1>2, ListType DEF IInv, TypeOK
      <3>2. Do("set", list[k].name, list[k].token) # Head(todo)
        BY <1>1 DEF Do
      <3>3. ring'[list[k].name] = ring[list[k].name] /\ legacy'[list[k].name] = legacy[list[k].name]
        BY <1>4, <3>1
      <3>4. Found(list[k].name)' = Found(list[k].name)
        BY <1>4, <3>3 DEF Found
      <3> QED
        BY <1>1, <2>3, <3>2, <3>4 DEF IInv, Behind
    <2>4. \A k \in DOMAIN list' : list'[k].token # Blank =>
             \/ Do("set", list'[k].name, list'[k].token) \in Writes(todo)'
             \/ list'[k].name \in unsaved'
             \/ Found(list[k].name)' = list'[k].token
      BY <2>1, <2>3, <1>4
    <2> QED
      BY <2>1, <2>2, <2>4 DEF Behind
  <1> QED
    BY <1>5, <1>6 DEF IInv
----------------------------------------------------------------------------
(* The end of the process leaves the store as it is, whatever was still to  *)
(* be written.                                                              *)
LEMMA EndStep ==
    ASSUME IInv, End
    PROVE  IInv'
  <1>1. /\ list' = <<>> /\ todo' = <<>> /\ up' = FALSE
        /\ index' = NoIndex /\ pane' = NoIndex /\ dialog' = NoDialog /\ joining' = None
        /\ unsaved' = {} /\ raised' = 0
        /\ UNCHANGED <<db, ring, legacy>>
    BY DEF End
  <1>2. /\ <<>> \in Seq(Node) /\ <<>> \in Seq(Write) /\ Len(<<>>) = 0
        /\ DOMAIN list' = {} /\ DOMAIN todo' = {}
    BY <1>1, EmptySeq
  <1>3. TypeOK'
    <2>1. NoIndex \in [Names -> Reference] /\ joining' \in Reference
      BY <1>1, ServersAssumption DEF NoIndex, Reference, None
    <2>2. dialog' \in Dialog
      BY <1>1 DEF NoDialog, Dialog
    <2>3. Len(list') <= MaxHosts
      BY <1>1, <1>2, ServersAssumption
    <2> QED
      BY <1>1, <1>2, <2>1, <2>2, <2>3 DEF IInv, TypeOK
  <1>4. Down'
    BY <1>1 DEF Down, NoIndex, NoDialog, None
  <1>5. Listed'
    BY <1>1, <1>2 DEF IInv, Listed, NamesApart
  <1>6. Refers'
    BY <1>1 DEF Refers, NoDialog, None
  <1>7. Finds'
    BY <1>1, <1>2 DEF Finds, IndexOf, NoIndex, None
  <1>8. Behind'
    BY <1>1, <1>2 DEF Behind, Writing, Writes
  <1> QED
    BY <1>3, <1>4, <1>5, <1>6, <1>7, <1>8 DEF IInv

(* The start restores the rows and gives every server the token that the    *)
(* keyring has for it.                                                      *)
LEMMA StartStep ==
    ASSUME IInv, NEW readable, NEW moved, Start(readable, moved)
    PROVE  IInv'
  <1> DEFINE nodes == Loaded(readable)
  <1>1. /\ ~up /\ up' = TRUE /\ list' = nodes
        /\ index' = build_cfg_index(list') /\ pane' = index'
        /\ ring' = MovedTokens(moved)
        /\ UNCHANGED <<dialog, joining, db, legacy, todo, unsaved, raised>>
    BY DEF Start
  <1>2. /\ dialog' = NoDialog /\ joining' = None /\ todo' = <<>>
    BY <1>1 DEF IInv, Down
  <1>3. /\ nodes \in Seq(Node) /\ DOMAIN nodes = DOMAIN db /\ Len(nodes) <= MaxHosts
        /\ \A k \in DOMAIN db : /\ nodes[k].name = db[k].name
                                /\ nodes[k].token = FoundIf(db[k].name, readable)
        /\ Rows(nodes) = db
    <2>1. /\ nodes \in Seq(Node) /\ DOMAIN nodes = DOMAIN db /\ Len(nodes) = Len(db)
          /\ \A k \in DOMAIN db : /\ nodes[k].name = db[k].name
                                  /\ nodes[k].token = FoundIf(db[k].name, readable)
          /\ (\A k \in DOMAIN db : db[k].token = Blank) => Rows(nodes) = db
      BY LoadedFacts DEF IInv
    <2> QED
      BY <2>1 DEF IInv, TypeOK, Listed
  <1>4. ring' \in [Names -> Tokens \cup {Blank}] /\ \A n \in Names : Found(n)' = Found(n)
    BY <1>1, MovedFacts DEF IInv
  <1>5. \A k \in DOMAIN db : db[k].name \in Names
    BY NodesType DEF IInv, TypeOK
  <1>6. \A n \in Names : Found(n) = IF ring'[n] # Blank THEN ring'[n] ELSE legacy'[n]
    BY <1>4 DEF Found
  <1>7. build_cfg_index(nodes) \in [Names -> Reference] /\ IndexOf(build_cfg_index(nodes), nodes)
    BY <1>3, IndexFacts
  <1> HIDE DEF nodes
  <1>8. index' \in [Names -> Reference] /\ IndexOf(index', nodes) /\ pane' = index'
    BY <1>1, <1>7
  <1>9. TypeOK'
    <2>1. <<>> \in Seq(Write)
      BY EmptySeq
    <2> QED
      BY <1>1, <1>2, <1>3, <1>4, <1>8, <2>1 DEF IInv, TypeOK
  <1>10. Down' /\ Refers'
    BY <1>1, <1>2 DEF Down, Refers, NoDialog, None
  <1>11. Listed'
    BY <1>1, <1>3 DEF IInv, Listed, NamesApart
  <1>12. Finds'
    BY <1>1, <1>8 DEF Finds, IndexOf
  <1>13. Behind'
    <2>1. DOMAIN todo' = {}
      BY <1>2
    <2>2. Writing(list, todo)'
      BY <2>1 DEF Writing, Writes
    <2>3. db' = Rows(list)'
      BY <1>1, <1>3 DEF Rows
    <2>4. ASSUME NEW k \in DOMAIN list', list'[k].token # Blank
          PROVE  Found(list[k].name)' = list'[k].token
      <3>1. k \in DOMAIN db /\ list'[k].name = db[k].name /\ list'[k].token = Found(db[k].name)
        BY <2>4, <1>1, <1>3 DEF FoundIf
      <3>2. db[k].name \in Names
        BY <3>1, <1>5
      <3> QED
        BY <3>1, <3>2, <1>6 DEF Found
    <2> QED
      BY <2>2, <2>3, <2>4 DEF Behind
  <1> QED
    BY <1>9, <1>10, <1>11, <1>12, <1>13 DEF IInv

LEMMA StepInv == IInv /\ [Next]_vars => IInv'
  <1> SUFFICES ASSUME IInv, [Next]_vars PROVE IInv'
    OBVIOUS
  <1>1. CASE UNCHANGED vars
    BY <1>1 DEF vars, memory, IInv, TypeOK, Down, Listed, NamesApart, Refers, Finds, IndexOf, Behind,
                Writing, Writes, Found, Commits, Lags
  <1>2. CASE User /\ Apart
    BY <1>2, AddStep, ImportStep, GroupStep, TokenStep, RemoveStep, QuietSteps DEF User
  <1>3. ASSUME NEW readable, NEW moved, Start(readable, moved) PROVE IInv'
    BY <1>3, StartStep
  <1> QED
    BY <1>1, <1>2, <1>3, MarkStep, QuietSteps, CommitStep, CommitRaisesStep, SetStep, ForgetStep, EndStep DEF Next

LEMMA Invariance == Spec => []IInv
  BY InitInv, StepInv, PTL DEF Spec
----------------------------------------------------------------------------
(* The list, the rows and what is to be written have their types, and every *)
(* reference that a dialog or a worker holds is to a listed server or to    *)
(* one that is no longer listed.                                            *)
THEOREM ServersTyped == Spec => []TypeOK
  <1>1. IInv => TypeOK
    BY DEF IInv
  <1> QED
    BY <1>1, Invariance, PTL

(* Between two slots, unless the last save has raised, the next start would *)
(* bring back every server, and every token the keyring has taken, however  *)
(* the program came there: through adding, importing, moving, removing,     *)
(* joining, token refreshes, earlier saves that raised and earlier ends in  *)
(* the middle of one (save_config, load_config).                            *)
THEOREM NextStartRestores == Spec => []RestartRestores
  <1>1. IInv => RestartRestores
    <2> SUFFICES ASSUME IInv, Turns, raised = 0 PROVE RestartRestores
      BY DEF RestartRestores
    <2>1. up /\ Writes(todo) = {} /\ ~ Commits(todo) /\ ~ Lags
      BY DEF Turns, Writes, Commits, Lags
    <2> QED
      BY <2>1 DEF IInv, Behind, RestartRestores
  <1> QED
    BY <1>1, Invariance, PTL

(* A name that a slot looks up leads to the listed dict of that name, in    *)
(* the window and in the panes, and to none exactly when no server has it   *)
(* (_cfg_by_name, update_nodes_cfg).                                        *)
THEOREM LookupsAreListed == Spec => []ActsOnListed
  <1>1. IInv => ActsOnListed
    BY DEF IInv, Finds, IndexOf, ActsOnListed
  <1> QED
    BY <1>1, Invariance, PTL

(* A server that stays in the rows keeps its token, wherever the process    *)
(* ends and whatever the keyring refuses: set writes known tokens only, and *)
(* forget comes when its server has left the rows (_on_host_remove).        *)
THEOREM TokensStay == Spec => TokenStays
  <1> DEFINE Stay == \A n \in Stored(db) \cap Stored(db') : ring[n] # Blank => ring'[n] # Blank
  <1>1. IInv /\ [Next]_vars => [Stay]_vars
    <2> SUFFICES ASSUME IInv, Next, NEW n \in Stored(db), ring[n] # Blank
                 PROVE  ring'[n] # Blank
      BY DEF Stored
    <2>1. n \in Names /\ ring \in [Names -> Tokens \cup {Blank}]
      BY NodesType DEF Stored, IInv, TypeOK
    <2>2. CASE ring' = ring
      BY <2>2
    <2>3. ASSUME NEW moved, ring' = MovedTokens(moved)
          PROVE  ring'[n] # Blank
      BY <2>1, <2>3 DEF MovedTokens, Found
    <2>4. CASE _save_token
      BY <2>1, <2>4, SetFacts DEF _save_token
    <2>5. CASE _delete_token
      <3>1. n # Head(todo).name
        BY <2>5, ForgetFacts DEF Stored
      <3> QED
        BY <2>1, <2>5, <3>1 DEF _delete_token
    <2>6. CASE User
      <3>1. CASE \E readable, moved :
                    ImportRaises(moved) \/ \E b \in Bundles : _on_import_config(b, readable, moved)
        BY <3>1, <2>3 DEF _on_import_config, ImportRaises
      <3>2. CASE ~\E readable, moved :
                    ImportRaises(moved) \/ \E b \in Bundles : _on_import_config(b, readable, moved)
        <4>1. ring' = ring
          BY <2>6, <3>2 DEF User, _on_add_server, _on_group_move, _on_host_token_refresh, Opens,
                            TokenRefreshed, _on_host_remove, HostRemoved, Dismiss, _on_cluster_join
        <4> QED
          BY <4>1
      <3> QED
        BY <3>1, <3>2
    <2>7. CASE _mark_joinee \/ JoinFails \/ Commit \/ CommitRaises \/ End
      <3>1. ring' = ring
        BY <2>7 DEF _mark_joinee, JoinFails, Commit, CommitRaises, End
      <3> QED
        BY <3>1
    <2>8. ASSUME NEW readable, NEW moved, Start(readable, moved) PROVE ring'[n] # Blank
      BY <2>3, <2>8 DEF Start
    <2> QED
      BY <2>4, <2>5, <2>6, <2>7, <2>8 DEF Next
  <1> QED
    BY <1>1, Invariance, PTL DEF Spec, TokenStays
----------------------------------------------------------------------------
(* Implementation of ServersContract: between two slots the rows are those  *)
(* shown, or the last save has raised, so every slot of the user is a       *)
(* Change, and every write a step of its own.                               *)
LEMMA InitContract == Init => Contract!Init
  BY DEF Init, Contract!Init

LEMMA AtRestFacts ==
    ASSUME IInv, up, db = Rows(list)
    PROVE  Contract!AtRest
  BY DEF Rows, Contract!AtRest, Contract!Plain

(* A slot of the user, or the answer of a join, changes the list at most,   *)
(* and import_config stores what it changes.                                *)
LEMMA ChangeContract ==
    ASSUME IInv, Turns, list' \in Seq(Node), UNCHANGED <<up, legacy>>,
           \/ UNCHANGED <<db, raised>>
           \/ db' = Rows(list') /\ raised' = 0,
           ring' = ring \/ \E moved : ring' = MovedTokens(moved)
    PROVE  Contract!Next
  <1>1. Contract!AtRest \/ (up /\ raised > 0)
    <2>1. up /\ ~ Commits(todo) /\ (Lags => raised > 0)
      BY DEF Turns, Commits, Lags
    <2>2. db = Rows(list) \/ raised > 0
      BY <2>1 DEF IInv, Behind
    <2> QED
      BY <2>1, <2>2, AtRestFacts
  <1>2. [n \in Names |-> Found(n)]' = [n \in Names |-> Found(n)]
    <2>1. CASE ring' = ring
      BY <2>1 DEF Found
    <2>2. ASSUME NEW moved, ring' = MovedTokens(moved)
          PROVE  [n \in Names |-> Found(n)]' = [n \in Names |-> Found(n)]
      BY <2>2, MovedFacts DEF IInv
    <2> QED
      BY <2>1, <2>2
  <1>3. CASE UNCHANGED <<db, raised>>
    BY <1>1, <1>2, <1>3 DEF Contract!Next, Contract!Change
  <1>4. CASE db' = Rows(list') /\ raised' = 0
    <2>1. db' = Contract!Plain(list)' /\ ~ (raised' > 0)
      BY <1>4 DEF Rows, Contract!Plain
    <2> QED
      BY <1>1, <1>2, <2>1 DEF Contract!Next, Contract!Change, Contract!Plain
  <1> QED
    BY <1>3, <1>4

LEMMA StoreContract ==
    ASSUME IInv, Commit \/ CommitRaises \/ _save_token \/ _delete_token
    PROVE  [Contract!Next]_(Contract!vars)
  <1>1. CASE Commit
    <2>1. ~ (raised' > 0) /\ db' = Contract!Plain(list)
      BY <1>1 DEF Commit, Rows, Contract!Plain
    <2>2. Contract!Store
      BY <1>1, <2>1 DEF Commit, Stores, memory, Found, Contract!Store
    <2> QED
      BY <2>2 DEF Contract!Next
  <1>2. CASE CommitRaises
    <2>1. raised' > 0
      BY <1>2 DEF CommitRaises, IInv, TypeOK
    <2>2. Contract!Refuse
      BY <1>2, <2>1 DEF CommitRaises, memory, Found, Contract!Refuse
    <2> QED
      BY <2>2 DEF Contract!Next
  <1>3. CASE _save_token
    <2> DEFINE n == Head(todo).name
               t == Head(todo).token
    <2>1. Contract!AtRest
      BY <1>3, StoreFacts, AtRestFacts, RowsStored DEF _save_token
    <2>2. n \in Names /\ t # Blank
      BY <1>3, SetFacts
    <2>3. PICK k \in DOMAIN list : list[k].name = n /\ list[k].token = t
      BY <1>3, StoreFacts DEF _save_token, Writing
    <2>4. /\ UNCHANGED <<up, list, db, legacy, raised>>
          /\ ring' = ring \/ ring' = [ring EXCEPT ![n] = t]
      BY <1>3 DEF _save_token, memory
    <2>5. CASE ring' = ring
      BY <2>4, <2>5 DEF Found, Contract!vars
    <2>6. CASE ring' = [ring EXCEPT ![n] = t]
      <3>1. [m \in Names |-> Found(m)]' = [[m \in Names |-> Found(m)] EXCEPT ![n] = t]
        BY <2>2, <2>4, <2>6, ListType DEF Found
      <3>2. Contract!Keep(k)
        BY <2>1, <2>2, <2>3, <2>4, <3>1 DEF Contract!Keep
      <3> QED
        BY <3>2 DEF Contract!Next
    <2> QED
      BY <2>4, <2>5, <2>6
  <1>4. CASE _delete_token
    <2> DEFINE n == Head(todo).name
    <2>1. Contract!AtRest
      BY <1>4, StoreFacts, AtRestFacts, RowsStored DEF _delete_token
    <2>2. \A k \in DOMAIN db : db[k].name # n
      BY <1>4, ForgetFacts
    <2>3. /\ UNCHANGED <<up, list, db, raised>>
          /\ ring' \in {ring, [ring EXCEPT ![n] = Blank]}
          /\ legacy' \in {legacy, [legacy EXCEPT ![n] = Blank]}
      BY <1>4 DEF _delete_token, memory
    <2>4. \A m \in Names : m # n => Found(m)' = Found(m)
      BY <2>3, ListType DEF Found, IInv, TypeOK
    <2>5. CASE n \in Names
      <3>1. [m \in Names |-> Found(m)]'
              = [[m \in Names |-> Found(m)] EXCEPT ![n] = [m \in Names |-> Found(m)]'[n]]
        BY <2>4, <2>5
      <3>2. Contract!Lose(n)
        BY <2>1, <2>2, <2>3, <3>1 DEF Contract!Lose
      <3> QED
        BY <2>5, <3>2 DEF Contract!Next
    <2>6. CASE n \notin Names
      BY <2>3, <2>4, <2>6 DEF Contract!vars
    <2> QED
      BY <2>5, <2>6
  <1> QED
    BY <1>1, <1>2, <1>3, <1>4

LEMMA StartContract ==
    ASSUME IInv, NEW readable \in SUBSET Names, NEW moved, Start(readable, moved)
    PROVE  Contract!Next
  <1>1. /\ ~up /\ up' = TRUE /\ list' = Loaded(readable) /\ ring' = MovedTokens(moved)
        /\ UNCHANGED <<db, legacy, raised>>
    BY DEF Start
  <1>2. [n \in Names |-> Found(n)]' = [n \in Names |-> Found(n)]
    BY <1>1, MovedFacts DEF IInv
  <1>3. \A k \in DOMAIN db : db[k].name \in Names
    BY NodesType DEF IInv, TypeOK
  <1>4. Loaded(readable)
          = [k \in DOMAIN db |->
               [db[k] EXCEPT !.token = IF db[k].name \in readable
                                       THEN [n \in Names |-> Found(n)][db[k].name] ELSE Blank]]
    BY <1>3 DEF Loaded, FoundIf
  <1> QED
    BY <1>1, <1>2, <1>4 DEF Contract!Next, Contract!Start

LEMMA StepContract == IInv /\ IInv' /\ [Next]_vars => [Contract!Next]_(Contract!vars)
  <1> SUFFICES ASSUME IInv, IInv', [Next]_vars PROVE [Contract!Next]_(Contract!vars)
    OBVIOUS
  <1>1. CASE UNCHANGED vars
    BY <1>1 DEF vars, memory, Found, Contract!vars
  <1>2. list' \in Seq(Node)
    BY DEF IInv, TypeOK
  <1>3. CASE \E readable, moved : \E b \in Bundles : _on_import_config(b, readable, moved)
    <2>1. PICK readable, moved : \E b \in Bundles : _on_import_config(b, readable, moved)
      BY <1>3
    <2>2. /\ Turns /\ UNCHANGED <<up, legacy>> /\ ring' = MovedTokens(moved)
          /\ db' = Rows(list') /\ raised' = 0
      BY <2>1 DEF _on_import_config, Leave, Idle, Rows
    <2> QED
      BY <1>2, <2>2, ChangeContract
  <1>4. CASE /\ User \/ _mark_joinee \/ JoinFails
             /\ ~ \E readable, moved : \E b \in Bundles : _on_import_config(b, readable, moved)
    <2>1. /\ Turns /\ UNCHANGED <<up, db, raised, legacy>>
          /\ ring' = ring \/ \E moved : ring' = MovedTokens(moved)
      BY <1>4 DEF User, _on_add_server, ImportRaises, _on_group_move, _on_host_token_refresh,
                  Opens, TokenRefreshed, _on_host_remove, HostRemoved, Dismiss, _on_cluster_join,
                  _mark_joinee, JoinFails, Leave, Idle
    <2> QED
      BY <1>2, <2>1, ChangeContract
  <1>5. CASE End
    <2>1. Contract!End
      BY <1>5 DEF End, Found, Contract!End
    <2> QED
      BY <2>1 DEF Contract!Next
  <1>6. ASSUME NEW readable \in SUBSET Keyed, NEW moved, Start(readable, moved) PROVE Contract!Next
    <2>1. readable \in SUBSET Names
      BY DEF Keyed
    <2> QED
      BY <1>6, <2>1, StartContract
  <1> QED
    BY <1>1, <1>3, <1>4, <1>5, <1>6, StoreContract DEF Next

(* An end of the program between two writes loses at most the change whose  *)
(* slot still stores and those before it whose saves have raised            *)
(* (save_config, delete_node_tokens), and the next start finds what was     *)
(* shown, with the tokens it can read: every step is a step of              *)
(* ServersContract or none.                                                 *)
THEOREM StoreKeepsContract == Spec => KeepsContract
  BY InitContract, StepContract, Invariance, PTL DEF Spec, KeepsContract, Contract!Spec
=============================================================================

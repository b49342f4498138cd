------------------------------ MODULE ListFacts -------------------------------
(***************************************************************************)
(* What listx.h, pcb.c and msg.c do to lists of any length, in memory of   *)
(* any size.  A set of list heads is sound when each of them points to     *)
(* others of the set, and each step forward is undone by a step back: the  *)
(* set is a union of whole rings.  What is not linked points anywhere.     *)
(***************************************************************************)
EXTENDS ListHeap, QueueFacts

Sound(h, L) ==
  \A l \in L : /\ h.next[l] \in L /\ h.prev[h.next[l]] = l
               /\ h.prev[l] \in L /\ h.next[h.prev[l]] = l

-----------------------------------------------------------------------------
\* __list_add() reads all four pointers before its first store, so each link has one new value.
LEMMA AddedFields ==
  ASSUME NEW h \in Heap, NEW new \in list_head, NEW head \in list_head
  PROVE  /\ list_add_tail(h, new, head) \in Heap
         /\ \A l \in list_head :
              /\ list_add_tail(h, new, head).next[l] =
                   IF l = h.prev[head] THEN new ELSE IF l = new THEN head ELSE h.next[l]
              /\ list_add_tail(h, new, head).prev[l] =
                   IF l = new THEN h.prev[head] ELSE IF l = head THEN new ELSE h.prev[l]
  BY DEF Heap, list_add_tail, AddBetween

\* __list_del() writes two links.
LEMMA DeletedFields ==
  ASSUME NEW h \in Heap, NEW entry \in list_head
  PROVE  /\ list_del(h, entry) \in Heap
         /\ \A l \in list_head :
              /\ list_del(h, entry).next[l] = IF l = h.prev[entry] THEN h.next[entry] ELSE h.next[l]
              /\ list_del(h, entry).prev[l] = IF l = h.next[entry] THEN h.prev[entry] ELSE h.prev[l]
  BY DEF Heap, list_del, DelBetween

-----------------------------------------------------------------------------
\* Linking an element that is in no list, at the end of one, keeps all rings whole.
THEOREM AddKeepsRings ==
  ASSUME NEW h \in Heap, NEW L \in SUBSET list_head, Sound(h, L),
         NEW head \in L, NEW new \in list_head \ L
  PROVE  Sound(list_add_tail(h, new, head), L \cup {new})
<1> DEFINE g == list_add_tail(h, new, head)
<1>0. head \in list_head /\ new \in list_head  OBVIOUS
<1>1. \A l \in list_head :
        /\ g.next[l] = IF l = h.prev[head] THEN new ELSE IF l = new THEN head ELSE h.next[l]
        /\ g.prev[l] = IF l = new THEN h.prev[head] ELSE IF l = head THEN new ELSE h.prev[l]
  BY <1>0, AddedFields
<1> HIDE DEF g
<1>2. h.prev[head] \in L /\ h.next[h.prev[head]] = head
  BY DEF Sound
<1>3. ASSUME NEW l \in L \cup {new}
      PROVE  g.next[l] \in L \cup {new} /\ g.prev[g.next[l]] = l
  <2>1. CASE l = new  BY <1>1, <1>2, <2>1
  <2>2. CASE l = h.prev[head]  BY <1>1, <1>2, <2>2
  <2>3. CASE l # new /\ l # h.prev[head]
    <3>1. g.next[l] = h.next[l] /\ h.next[l] \in L /\ h.prev[h.next[l]] = l  BY <1>1, <2>3 DEF Sound
    <3> QED  BY <1>1, <3>1, <2>3
  <2> QED  BY <2>1, <2>2, <2>3
<1>4. ASSUME NEW l \in L \cup {new}
      PROVE  g.prev[l] \in L \cup {new} /\ g.next[g.prev[l]] = l
  <2>1. CASE l = new  BY <1>1, <1>2, <2>1
  <2>2. CASE l = head  BY <1>1, <1>2, <2>2
  <2>3. CASE l # new /\ l # head
    <3>1. g.prev[l] = h.prev[l] /\ h.prev[l] \in L /\ h.next[h.prev[l]] = l  BY <1>1, <2>3 DEF Sound
    <3> QED  BY <1>1, <3>1, <2>3, <1>2
  <2> QED  BY <2>1, <2>2, <2>3
<1> QED  BY <1>3, <1>4 DEF Sound, g

\* Unlinking an element keeps what is left of its ring whole.
THEOREM DeleteKeepsRings ==
  ASSUME NEW h \in Heap, NEW L \in SUBSET list_head, Sound(h, L), NEW entry \in L
  PROVE  Sound(list_del(h, entry), L \ {entry})
<1> DEFINE g == list_del(h, entry)
<1>1. /\ \A l \in list_head :
           /\ g.next[l] = IF l = h.prev[entry] THEN h.next[entry] ELSE h.next[l]
           /\ g.prev[l] = IF l = h.next[entry] THEN h.prev[entry] ELSE h.prev[l]
      /\ h.next \in [list_head -> list_head] /\ h.prev \in [list_head -> list_head]
  BY DeletedFields DEF Heap
<1> HIDE DEF g
<1>2. /\ h.prev[entry] \in L /\ h.next[h.prev[entry]] = entry
      /\ h.next[entry] \in L /\ h.prev[h.next[entry]] = entry
  BY DEF Sound
<1>3. ASSUME NEW l \in L \ {entry}
      PROVE  g.next[l] \in L \ {entry} /\ g.prev[g.next[l]] = l
  <2>1. CASE l = h.prev[entry]  BY <1>1, <1>2, <2>1
  <2>2. CASE l # h.prev[entry]
    <3>1. g.next[l] = h.next[l] /\ h.next[l] \in L /\ h.prev[h.next[l]] = l  BY <1>1, <2>2 DEF Sound
    <3> QED  BY <1>1, <1>2, <3>1, <2>2
  <2> QED  BY <2>1, <2>2
<1>4. ASSUME NEW l \in L \ {entry}
      PROVE  g.prev[l] \in L \ {entry} /\ g.next[g.prev[l]] = l
  <2>1. CASE l = h.next[entry]  BY <1>1, <1>2, <2>1
  <2>2. CASE l # h.next[entry]
    <3>1. g.prev[l] = h.prev[l] /\ h.prev[l] \in L /\ h.next[h.prev[l]] = l  BY <1>1, <2>2 DEF Sound
    <3> QED  BY <1>1, <1>2, <3>1, <2>2
  <2> QED  BY <2>1, <2>2
<1> QED  BY <1>3, <1>4 DEF Sound, g

-----------------------------------------------------------------------------
\* list_add_tail() and list_del() write to the ring they are called on only: of two
\* sets of rings, one is untouched by what is done to the other.
THEOREM OtherRingsUntouched ==
  ASSUME NEW h \in Heap, NEW L \in SUBSET list_head, Sound(h, L),
         NEW x \in L, NEW new \in list_head \ L,
         NEW l \in list_head \ (L \cup {new})
  PROVE  /\ list_add_tail(h, new, x).next[l] = h.next[l] /\ list_add_tail(h, new, x).prev[l] = h.prev[l]
         /\ list_del(h, x).next[l] = h.next[l] /\ list_del(h, x).prev[l] = h.prev[l]
<1>1. x \in list_head /\ new \in list_head /\ l \in list_head /\ l \notin L /\ l # new  OBVIOUS
<1>2. h.prev[x] \in L /\ h.next[x] \in L  BY DEF Sound
<1> DEFINE g == list_add_tail(h, new, x)
           d == list_del(h, x)
<1>3. /\ g.next[l] = IF l = h.prev[x] THEN new ELSE IF l = new THEN x ELSE h.next[l]
      /\ g.prev[l] = IF l = new THEN h.prev[x] ELSE IF l = x THEN new ELSE h.prev[l]
  BY <1>1, AddedFields
<1>4. /\ d.next[l] = IF l = h.prev[x] THEN h.next[x] ELSE h.next[l]
      /\ d.prev[l] = IF l = h.next[x] THEN h.prev[x] ELSE h.prev[l]
  BY <1>1, DeletedFields
<1> HIDE DEF g, d
<1>5. l # x /\ l # h.prev[x] /\ l # h.next[x]  BY <1>1, <1>2
<1>6. g.next[l] = h.next[l] /\ g.prev[l] = h.prev[l]  BY <1>1, <1>3, <1>5
<1>7. d.next[l] = h.next[l] /\ d.prev[l] = h.prev[l]  BY <1>4, <1>5
<1> QED  BY <1>6, <1>7 DEF g, d

-----------------------------------------------------------------------------
\* An element whose old neighbours are still neighbours may be unlinked again.
LEMMA Unlinked ==
  ASSUME NEW h \in Heap, NEW entry \in list_head,
         h.next[h.prev[entry]] = h.next[entry], h.prev[h.next[entry]] = h.prev[entry]
  PROVE  list_del(h, entry) = h
<1> DEFINE n == h.next[entry]
           q == h.prev[entry]
<1>1. /\ h.next \in [list_head -> list_head] /\ h.prev \in [list_head -> list_head]
      /\ h = [next |-> h.next, prev |-> h.prev] /\ n \in list_head /\ q \in list_head
  BY DEF Heap
<1>2. list_del(h, entry) = [next |-> [h.next EXCEPT ![q] = n], prev |-> [h.prev EXCEPT ![n] = q]]
  BY <1>1 DEF list_del, DelBetween
<1> HIDE DEF n, q
<1>3. h.next[q] = n /\ h.prev[n] = q  BY DEF n, q
<1>4. [h.next EXCEPT ![q] = n] = h.next  BY <1>1, <1>3
<1>5. [h.prev EXCEPT ![n] = q] = h.prev  BY <1>1, <1>3
<1> QED  BY <1>1, <1>2, <1>4, <1>5

\* The neighbours are such right after list_del(), whatever the memory was.
LEMMA DeletedTwice ==
  ASSUME NEW h \in Heap, NEW entry \in list_head
  PROVE  list_del(list_del(h, entry), entry) = list_del(h, entry)
<1> DEFINE g == list_del(h, entry)
<1>1. /\ h.next \in [list_head -> list_head] /\ h.prev \in [list_head -> list_head]
      /\ g \in Heap
      /\ \A l \in list_head :
           /\ g.next[l] = IF l = h.prev[entry] THEN h.next[entry] ELSE h.next[l]
           /\ g.prev[l] = IF l = h.next[entry] THEN h.prev[entry] ELSE h.prev[l]
  BY DeletedFields DEF Heap
<1> HIDE DEF g
<1>2. h.next[entry] \in list_head /\ h.prev[entry] \in list_head  BY <1>1
<1>3. g.next[entry] = h.next[entry] /\ g.prev[entry] = h.prev[entry]  BY <1>1, <1>2
<1>4. g.next[g.prev[entry]] = g.next[entry] /\ g.prev[g.next[entry]] = g.prev[entry]  BY <1>1, <1>2, <1>3
<1>5. list_del(g, entry) = g  BY <1>1, <1>4, Unlinked
<1> QED  BY <1>5 DEF g

\* msg.c:28: the second unlink of a message, in freeMsg() after popMessage(), does
\* nothing; a received message goes to the end of the free list.
THEOREM ReceivedIsFreed ==
  ASSUME NEW h \in Heap, NEW m \in Msg
  PROVE  freeMsg(popMessage(h, m), m) = list_add_tail(popMessage(h, m), m_list(m), msgFree_h)
<1>1. m_list(m) \in list_head  BY DEF m_list, list_head
<1> QED  BY <1>1, DeletedTwice DEF freeMsg, popMessage

\* ssi.c:81-86: once removeChild() has unlinked the first child c of p, outChild(c)
\* does nothing to the lists, in any memory g in which the links of c and of its old neighbours,
\* all in the ring of p's children, are as removeChild() left them.
THEOREM ChildUnlinkedOnce ==
  ASSUME NEW h \in Heap, NEW g \in Heap, NEW L \in SUBSET list_head, Sound(h, L),
         NEW p \in Pcb, NEW c \in Pcb, NEW p_parent, p_child(p) \in L,
         ~emptyChild(h, p), h.next[p_child(p)] = p_sib(c),
         \A l \in L : /\ g.next[l] = removeChild(h, p).next[l]
                      /\ g.prev[l] = removeChild(h, p).prev[l]
  PROVE  outChild(g, p_parent, c) = g
<1> DEFINE f == list_del(h, p_sib(c))
<1>1. p_sib(c) \in L  BY DEF Sound
<1>2. h.next[p_sib(c)] \in L /\ h.prev[p_sib(c)] \in L  BY <1>1 DEF Sound
<1>3. removeChild(h, p) = f  BY DEF removeChild
<1>4. p_sib(c) \in list_head /\ h.next[p_sib(c)] \in list_head /\ h.prev[p_sib(c)] \in list_head
  BY <1>1, <1>2
<1>5. \A l \in list_head :
        /\ f.next[l] = IF l = h.prev[p_sib(c)] THEN h.next[p_sib(c)] ELSE h.next[l]
        /\ f.prev[l] = IF l = h.next[p_sib(c)] THEN h.prev[p_sib(c)] ELSE h.prev[l]
  BY <1>4, DeletedFields
<1> HIDE DEF f
<1>6. g.next[p_sib(c)] = h.next[p_sib(c)] /\ g.prev[p_sib(c)] = h.prev[p_sib(c)]
  BY <1>1, <1>3, <1>4, <1>5
<1>7. /\ g.next[h.prev[p_sib(c)]] = h.next[p_sib(c)]
      /\ g.prev[h.next[p_sib(c)]] = h.prev[p_sib(c)]
  BY <1>2, <1>3, <1>4, <1>5
<1>8. list_del(g, p_sib(c)) = g  BY <1>4, <1>6, <1>7, Unlinked
<1> QED  BY <1>8 DEF outChild

-----------------------------------------------------------------------------
(* The lists that memory holds.  s gives the elements of the list of each   *)
(* head in H.                                                               *)

\* What the walk through s that starts at head meets after i steps.
At(s, head, i) == IF i \in 1..Len(s) THEN s[i] ELSE head

\* The pointers next go from head through s and back.
Chain(next, head, s) == \A i \in 0..Len(s) : next[At(s, head, i)] = At(s, head, i + 1)

Ring(h, head, s) ==
  \A i \in 0..Len(s) : /\ h.next[At(s, head, i)] = At(s, head, i + 1)
                       /\ h.prev[At(s, head, i + 1)] = At(s, head, i)

\* Each list is a ring, and nothing is linked twice.
Holds(h, H, s) ==
  /\ h \in Heap /\ H \subseteq list_head /\ s \in [H -> Seq(list_head \ H)]
  /\ \A l \in H : Ring(h, l, s[l])
  /\ \A l, k \in H : \A i \in DOMAIN s[l], j \in DOMAIN s[k] : s[l][i] = s[k][j] => l = k /\ i = j

\* x is in one of the lists.
Member(H, s, x) == \E l \in H : \E i \in DOMAIN s[l] : s[l][i] = x

\* A place on a walk is a list head; head is met at both ends and each element once, on
\* one list only.
LEMMA Places ==
  ASSUME NEW h, NEW H, NEW s, Holds(h, H, s), NEW l \in H
  PROVE  /\ Len(s[l]) \in Nat /\ DOMAIN s[l] = 1..Len(s[l]) /\ s[l] \in Seq(list_head)
         /\ l \in list_head /\ \A i \in DOMAIN s[l] : s[l][i] \in list_head \ H
         /\ \A i \in Nat : At(s[l], l, i) \in list_head
         /\ At(s[l], l, 0) = l /\ At(s[l], l, Len(s[l]) + 1) = l
         /\ \A i \in DOMAIN s[l] : At(s[l], l, i) = s[l][i]
         /\ \A k \in H : \A i \in 0..Len(s[l]), j \in 0..Len(s[k]) :
              At(s[l], l, i) = At(s[k], k, j) => l = k /\ i = j
<1>1. \A k \in H : Len(s[k]) \in Nat /\ DOMAIN s[k] = 1..Len(s[k]) /\ s[k] \in Seq(list_head \ H)
  BY LenProperties DEF Holds
<1>2. \A k \in H : \A i \in 1..Len(s[k]) : s[k][i] \in list_head \ H
  BY <1>1, ElementOfSeq
<1>3. s[l] \in Seq(list_head)
  BY <1>1
<1>4. l \in list_head
  BY DEF Holds
<1>5. \A i \in Nat : At(s[l], l, i) \in list_head
  BY <1>2, <1>4 DEF At
<1>6. /\ At(s[l], l, 0) = l /\ At(s[l], l, Len(s[l]) + 1) = l
      /\ \A i \in DOMAIN s[l] : At(s[l], l, i) = s[l][i]
  BY <1>1 DEF At
<1>7. ASSUME NEW k \in H, NEW i \in 0..Len(s[l]), NEW j \in 0..Len(s[k]),
             At(s[l], l, i) = At(s[k], k, j)
      PROVE  l = k /\ i = j
  <2>1. CASE i = 0 /\ j = 0
    BY <1>7, <2>1 DEF At
  <2>2. CASE i # 0 /\ j # 0
    <3>1. i \in DOMAIN s[l] /\ j \in DOMAIN s[k] /\ s[l][i] = s[k][j]
      BY <1>1, <1>7, <2>2 DEF At
    <3> QED
      BY <3>1 DEF Holds
  <2>3. CASE i = 0 /\ j # 0
    <3>1. l = s[k][j] /\ j \in 1..Len(s[k])
      BY <1>1, <1>7, <2>3 DEF At
    <3> QED
      BY <3>1, <1>2
  <2>4. CASE i # 0 /\ j = 0
    <3>1. k = s[l][i] /\ i \in 1..Len(s[l])
      BY <1>1, <1>7, <2>4 DEF At
    <3> QED
      BY <3>1, <1>2
  <2> QED
    BY <2>1, <2>2, <2>3, <2>4
<1> QED
  BY <1>1, <1>2, <1>3, <1>4, <1>5, <1>6, <1>7

\* list_empty() and the first and the last element, as the pointers of the head give them.
LEMMA Ends ==
  ASSUME NEW h, NEW H, NEW s, Holds(h, H, s), NEW l \in H
  PROVE  /\ list_empty(h, l) <=> s[l] = <<>>
         /\ s[l] = <<>> <=> Len(s[l]) = 0
         /\ s[l] # <<>> => h.next[l] = s[l][1] /\ 1 \in DOMAIN s[l]
         /\ h.prev[l] = At(s[l], l, Len(s[l]))
         /\ h.next[l] = At(s[l], l, 1)
<1>1. /\ Len(s[l]) \in Nat /\ DOMAIN s[l] = 1..Len(s[l]) /\ s[l] \in Seq(list_head)
      /\ l \in list_head /\ \A i \in DOMAIN s[l] : s[l][i] \in list_head \ H
      /\ At(s[l], l, 0) = l /\ At(s[l], l, Len(s[l]) + 1) = l
  BY Places
<1>2. Ring(h, l, s[l])
  BY DEF Holds
<1>3. h.next[l] = At(s[l], l, 1) /\ h.prev[l] = At(s[l], l, Len(s[l]))
  <2>1. 0 \in 0..Len(s[l]) /\ Len(s[l]) \in 0..Len(s[l])
    BY <1>1
  <2> QED
    BY <1>1, <1>2, <2>1 DEF Ring
<1>4. s[l] = <<>> <=> Len(s[l]) = 0
  BY <1>1, EmptySeq
<1>5. s[l] # <<>> => h.next[l] = s[l][1] /\ 1 \in DOMAIN s[l] /\ s[l][1] # l
  BY <1>1, <1>3, <1>4 DEF At
<1>6. s[l] = <<>> => h.next[l] = l
  BY <1>1, <1>3, <1>4 DEF At
<1> QED
  BY <1>3, <1>4, <1>5, <1>6 DEF list_empty

\* list_add_tail() of an element that is in no list.
LEMMA AddedAtTail ==
  ASSUME NEW h, NEW H, NEW s, Holds(h, H, s), NEW head \in H,
         NEW x \in list_head \ H, ~Member(H, s, x)
  PROVE  Holds(list_add_tail(h, x, head), H, [s EXCEPT ![head] = Append(@, x)])
<1> DEFINE g == list_add_tail(h, x, head)
           t == [s EXCEPT ![head] = Append(@, x)]
           n == Len(s[head])
<1>1. /\ h \in Heap /\ head \in list_head /\ H \subseteq list_head
      /\ s \in [H -> Seq(list_head \ H)]
  BY DEF Holds
<1>2. g \in Heap /\ \A l \in list_head :
        /\ g.next[l] = IF l = h.prev[head] THEN x ELSE IF l = x THEN head ELSE h.next[l]
        /\ g.prev[l] = IF l = x THEN h.prev[head] ELSE IF l = head THEN x ELSE h.prev[l]
  BY <1>1, AddedFields
<1>3. \A l \in H : /\ Len(s[l]) \in Nat /\ DOMAIN s[l] = 1..Len(s[l])
                   /\ \A i \in Nat : At(s[l], l, i) \in list_head
                   /\ At(s[l], l, 0) = l /\ At(s[l], l, Len(s[l]) + 1) = l
                   /\ \A i \in DOMAIN s[l] : At(s[l], l, i) = s[l][i]
                   /\ \A k \in H : \A i \in 0..Len(s[l]), j \in 0..Len(s[k]) :
                        At(s[l], l, i) = At(s[k], k, j) => l = k /\ i = j
  BY Places
<1>4. /\ t \in [H -> Seq(list_head \ H)] /\ Len(t[head]) = n + 1
      /\ DOMAIN t[head] = 1..(n + 1) /\ t[head][n + 1] = x
      /\ \A i \in 1..n : t[head][i] = s[head][i]
      /\ \A l \in H \ {head} : t[l] = s[l]
  <2>1. /\ Append(s[head], x) \in Seq(list_head \ H) /\ Len(Append(s[head], x)) = n + 1
        /\ DOMAIN Append(s[head], x) = 1..(n + 1)
        /\ Append(s[head], x)[n + 1] = x /\ \A i \in 1..n : Append(s[head], x)[i] = s[head][i]
    BY <1>1, <1>3, AppendProperties, LenProperties
  <2> QED
    BY <1>1, <2>1
<1>5. h.prev[head] = At(s[head], head, n)
  BY Ends
<1>6. \A l \in H : \A i \in 0..(Len(s[l]) + 1) : At(s[l], l, i) # x
  BY <1>3 DEF Member, At
<1>7. \A l \in H : Ring(h, l, s[l])
  BY DEF Holds
<1> HIDE DEF g, t
<1>8. ASSUME NEW l \in H \ {head} PROVE Ring(g, l, t[l])
  <2> SUFFICES ASSUME NEW i \in 0..Len(s[l])
               PROVE  /\ g.next[At(s[l], l, i)] = At(s[l], l, i + 1)
                      /\ g.prev[At(s[l], l, i + 1)] = At(s[l], l, i)
    BY <1>4 DEF Ring
  <2>1. /\ h.next[At(s[l], l, i)] = At(s[l], l, i + 1)
        /\ h.prev[At(s[l], l, i + 1)] = At(s[l], l, i)
    BY <1>7 DEF Ring
  <2>2. At(s[l], l, i) # h.prev[head]
    BY <1>3, <1>5
  <2>3. At(s[l], l, i + 1) # head
    <3>1. CASE i = Len(s[l])
      BY <1>3, <3>1
    <3>2. CASE i # Len(s[l])
      <4>1. i + 1 \in 0..Len(s[l]) /\ 0 \in 0..n
        BY <1>3, <3>2
      <4> QED
        BY <1>3, <4>1
    <3> QED
      BY <3>1, <3>2
  <2>4. At(s[l], l, i) \in list_head /\ At(s[l], l, i + 1) \in list_head
    BY <1>3
  <2>5. At(s[l], l, i) # x /\ At(s[l], l, i + 1) # x
    BY <1>3, <1>6
  <2> QED
    BY <1>2, <2>1, <2>2, <2>3, <2>4, <2>5
<1>9. Ring(g, head, t[head])
  <2>1. \A i \in 0..n : At(t[head], head, i) = At(s[head], head, i)
    BY <1>3, <1>4 DEF At
  <2>2. At(t[head], head, n + 1) = x /\ At(t[head], head, n + 2) = head
    BY <1>3, <1>4 DEF At
  <2>3. x # h.prev[head] /\ x # head /\ h.prev[head] \in list_head
    BY <1>1, <1>3, <1>5, <1>6
  <2>4. ASSUME NEW i \in 0..(n - 1)
        PROVE  /\ g.next[At(t[head], head, i)] = At(t[head], head, i + 1)
               /\ g.prev[At(t[head], head, i + 1)] = At(t[head], head, i)
    <3>1. i \in 0..n /\ i + 1 \in 0..n /\ n \in 0..n /\ 0 \in 0..n /\ i # n /\ i + 1 # 0
      BY <1>3
    <3>2. /\ h.next[At(s[head], head, i)] = At(s[head], head, i + 1)
          /\ h.prev[At(s[head], head, i + 1)] = At(s[head], head, i)
      BY <1>7, <3>1 DEF Ring
    <3>3. At(s[head], head, i) # h.prev[head] /\ At(s[head], head, i + 1) # head
      BY <1>3, <1>5, <3>1
    <3>4. At(s[head], head, i) # x /\ At(s[head], head, i + 1) # x
      BY <1>6, <3>1
    <3>5. At(s[head], head, i) \in list_head /\ At(s[head], head, i + 1) \in list_head
      BY <1>3, <3>1
    <3> QED
      BY <1>2, <2>1, <3>1, <3>2, <3>3, <3>4, <3>5
  <2>5. g.next[At(t[head], head, n)] = x /\ g.prev[x] = At(t[head], head, n)
    BY <1>1, <1>2, <1>3, <1>5, <2>1, <2>3
  <2>6. g.next[x] = head /\ g.prev[head] = x
    BY <1>1, <1>2, <2>3
  <2>7. ASSUME NEW i \in 0..Len(t[head])
        PROVE  /\ g.next[At(t[head], head, i)] = At(t[head], head, i + 1)
               /\ g.prev[At(t[head], head, i + 1)] = At(t[head], head, i)
    <3>1. i \in 0..(n - 1) \/ i = n \/ i = n + 1
      BY <1>3, <1>4
    <3>2. CASE i \in 0..(n - 1)
      BY <2>4, <3>2
    <3>3. CASE i = n
      BY <2>2, <2>5, <3>3
    <3>4. CASE i = n + 1
      <4>1. i + 1 = n + 2
        BY <1>3, <3>4
      <4> QED
        BY <2>2, <2>6, <3>4, <4>1
    <3> QED
      BY <3>1, <3>2, <3>3, <3>4
  <2> QED
    BY <2>7 DEF Ring
<1>10. ASSUME NEW l \in H, NEW k \in H, NEW i \in DOMAIN t[l], NEW j \in DOMAIN t[k], t[l][i] = t[k][j]
       PROVE  l = k /\ i = j
  <2>1. \A m \in H : \A a \in DOMAIN t[m] :
          \/ a \in DOMAIN s[m] /\ t[m][a] = s[m][a] /\ t[m][a] # x
          \/ m = head /\ a = n + 1 /\ t[m][a] = x
    <3> TAKE m \in H
    <3> TAKE a \in DOMAIN t[m]
    <3>1. CASE m # head
      BY <1>4, <3>1 DEF Member
    <3>2. CASE m = head /\ a # n + 1
      <4>1. a \in 1..n /\ a \in DOMAIN s[m] /\ t[m][a] = s[m][a]
        BY <1>3, <1>4, <3>2
      <4> QED
        BY <4>1 DEF Member
    <3>3. CASE m = head /\ a = n + 1
      BY <1>4, <3>3
    <3> QED
      BY <3>1, <3>2, <3>3
  <2>2. CASE t[l][i] = x
    BY <1>10, <2>1, <2>2
  <2>3. CASE t[l][i] # x
    <3>1. i \in DOMAIN s[l] /\ j \in DOMAIN s[k] /\ s[l][i] = s[k][j]
      BY <1>10, <2>1, <2>3
    <3> QED
      BY <3>1 DEF Holds
  <2> QED
    BY <2>2, <2>3
<1>11. Holds(g, H, t)
  <2>1. \A l \in H : Ring(g, l, t[l])
    BY <1>8, <1>9
  <2> QED
    BY <1>1, <1>2, <1>4, <1>10, <2>1 DEF Holds
<1> QED
  BY <1>11 DEF g, t

\* The same for the places after the head, back to it.
LEMMA Apart ==
  ASSUME NEW h, NEW H, NEW s, Holds(h, H, s), NEW l \in H
  PROVE  /\ \A i, j \in 1..(Len(s[l]) + 1) : At(s[l], l, i) = At(s[l], l, j) => i = j
         /\ \A k \in H \ {l} : \A i \in 0..(Len(s[l]) + 1), j \in 0..(Len(s[k]) + 1) :
              At(s[l], l, i) # At(s[k], k, j)
<1>1. \A k \in H : Len(s[k]) \in Nat /\ At(s[k], k, 0) = k /\ At(s[k], k, Len(s[k]) + 1) = k
  BY Places
<1>2. \A k \in H : \A i \in 0..Len(s[l]), j \in 0..Len(s[k]) :
        At(s[l], l, i) = At(s[k], k, j) => l = k /\ i = j
  BY Places
<1> DEFINE Turned(k, i) == IF i = Len(s[k]) + 1 THEN 0 ELSE i
<1>3. \A k \in H : \A i \in 0..(Len(s[k]) + 1) :
        Turned(k, i) \in 0..Len(s[k]) /\ At(s[k], k, Turned(k, i)) = At(s[k], k, i)
  BY <1>1
<1>4. \A i, j \in 1..(Len(s[l]) + 1) : Turned(l, i) = Turned(l, j) => i = j
  BY <1>1
<1>5. \A i \in 1..(Len(s[l]) + 1) : i \in 0..(Len(s[l]) + 1)
  BY <1>1
<1> HIDE DEF Turned
<1> QED
  BY <1>2, <1>3, <1>4, <1>5

\* list_del() of an element, wherever it is.
LEMMA Deleted ==
  ASSUME NEW h, NEW H, NEW s, Holds(h, H, s), NEW head \in H, NEW p \in DOMAIN s[head]
  PROVE  Holds(list_del(h, s[head][p]), H, [s EXCEPT ![head] = RemoveAt(@, p)])
<1> DEFINE x == s[head][p]
           g == list_del(h, x)
           t == [s EXCEPT ![head] = RemoveAt(@, p)]
           n == Len(s[head])
           From(k) == IF k < p THEN k ELSE k + 1
<1>1. /\ h \in Heap /\ head \in list_head /\ H \subseteq list_head
      /\ s \in [H -> Seq(list_head \ H)]
  BY DEF Holds
<1>2. \A l \in H : /\ Len(s[l]) \in Nat /\ DOMAIN s[l] = 1..Len(s[l])
                   /\ \A i \in DOMAIN s[l] : s[l][i] \in list_head \ H
                   /\ \A i \in Nat : At(s[l], l, i) \in list_head
                   /\ At(s[l], l, 0) = l /\ At(s[l], l, Len(s[l]) + 1) = l
                   /\ \A i \in DOMAIN s[l] : At(s[l], l, i) = s[l][i]
  BY Places
<1>3. n \in Nat /\ p \in 1..n /\ x \in list_head
  BY <1>2
<1>4. g \in Heap /\ \A l \in list_head :
        /\ g.next[l] = IF l = h.prev[x] THEN h.next[x] ELSE h.next[l]
        /\ g.prev[l] = IF l = h.next[x] THEN h.prev[x] ELSE h.prev[l]
  BY <1>1, <1>3, DeletedFields
<1>5. /\ t \in [H -> Seq(list_head \ H)] /\ Len(t[head]) = n - 1
      /\ DOMAIN t[head] = 1..(n - 1)
      /\ \A k \in 1..(n - 1) : t[head][k] = s[head][From(k)]
      /\ \A l \in H \ {head} : t[l] = s[l]
  <2>1. /\ RemoveAt(s[head], p) \in Seq(list_head \ H) /\ Len(RemoveAt(s[head], p)) = n - 1
        /\ \A k \in 1..(n - 1) : RemoveAt(s[head], p)[k] = s[head][From(k)]
    <3>1. s[head] \in Seq(list_head \ H)
      BY <1>1
    <3>2. \A k \in 1..(n - 1) : RemoveAt(s[head], p)[k] = IF k < p THEN s[head][k] ELSE s[head][k + 1]
      BY <3>1, RemoveAtMoves
    <3> QED
      BY <3>1, <3>2, RemoveAtIsSeq, RemoveAtMoves
  <2>2. DOMAIN RemoveAt(s[head], p) = 1..(n - 1)
    BY <2>1, LenProperties
  <2> QED
    BY <1>1, <2>1, <2>2
<1>6. \A l \in H : Ring(h, l, s[l])
  BY DEF Holds
<1>7. h.prev[x] = At(s[head], head, p - 1) /\ h.next[x] = At(s[head], head, p + 1)
  <2>1. p \in 0..n /\ p - 1 \in 0..n /\ (p - 1) + 1 = p /\ At(s[head], head, p) = x
    BY <1>2, <1>3
  <2> QED
    BY <1>6, <2>1 DEF Ring
<1>8. /\ \A i, j \in 1..(n + 1) : At(s[head], head, i) = At(s[head], head, j) => i = j
      /\ \A i, j \in 0..n : At(s[head], head, i) = At(s[head], head, j) => i = j
      /\ \A k \in H \ {head} : \A i \in 0..(n + 1), j \in 0..(Len(s[k]) + 1) :
           At(s[head], head, i) # At(s[k], k, j)
  BY Apart, Places
<1> HIDE DEF g, t, x
<1>9. ASSUME NEW l \in H \ {head} PROVE Ring(g, l, t[l])
  <2> SUFFICES ASSUME NEW i \in 0..Len(s[l])
               PROVE  /\ g.next[At(s[l], l, i)] = At(s[l], l, i + 1)
                      /\ g.prev[At(s[l], l, i + 1)] = At(s[l], l, i)
    BY <1>5 DEF Ring
  <2>1. /\ h.next[At(s[l], l, i)] = At(s[l], l, i + 1)
        /\ h.prev[At(s[l], l, i + 1)] = At(s[l], l, i)
    BY <1>6 DEF Ring
  <2>2. i \in 0..(Len(s[l]) + 1) /\ i + 1 \in 0..(Len(s[l]) + 1) /\ i \in Nat /\ i + 1 \in Nat
        /\ p - 1 \in 0..(n + 1) /\ p + 1 \in 0..(n + 1)
    BY <1>2, <1>3
  <2>3. At(s[l], l, i) # h.prev[x] /\ At(s[l], l, i + 1) # h.next[x]
    BY <1>7, <1>8, <2>2
  <2>4. At(s[l], l, i) \in list_head /\ At(s[l], l, i + 1) \in list_head
    BY <1>2, <2>2
  <2> QED
    BY <1>4, <2>1, <2>3, <2>4
<1>10. Ring(g, head, t[head])
  <2>1. \A k \in 0..n : At(t[head], head, k) = At(s[head], head, From(k))
    <3> TAKE k \in 0..n
    <3>1. CASE k \in 1..(n - 1)
      <4>1. From(k) \in 1..n
        BY <1>3, <3>1
      <4> QED
        BY <1>2, <1>3, <1>5, <3>1, <4>1 DEF At
    <3>2. CASE k = 0
      BY <1>2, <1>3, <1>5, <3>2 DEF At
    <3>3. CASE k = n
      BY <1>2, <1>3, <1>5, <3>3 DEF At
    <3> QED
      BY <1>3, <3>1, <3>2, <3>3
  <2>2. SUFFICES ASSUME NEW k \in 0..(n - 1)
                 PROVE  /\ g.next[At(s[head], head, From(k))] = At(s[head], head, From(k + 1))
                        /\ g.prev[At(s[head], head, From(k + 1))] = At(s[head], head, From(k))
    <3>1. \A k \in 0..(n - 1) : k \in 0..n /\ k + 1 \in 0..n
      BY <1>3
    <3> HIDE DEF From
    <3> QED
      BY <1>5, <2>1, <2>2, <3>1 DEF Ring
  <2>3. CASE k = p - 1
    <3>1. From(k) = p - 1 /\ From(k + 1) = p + 1 /\ p - 1 \in Nat /\ p + 1 \in Nat
      BY <1>3, <2>3
    <3>2. At(s[head], head, p - 1) \in list_head /\ At(s[head], head, p + 1) \in list_head
      BY <1>2, <3>1
    <3> QED
      BY <1>4, <1>7, <3>1, <3>2
  <2>4. CASE k # p - 1
    <3> DEFINE i == From(k)
    <3>1. From(k + 1) = i + 1 /\ i \in 0..n /\ i # p - 1 /\ p - 1 \in 0..n
          /\ i + 1 \in 1..(n + 1) /\ p + 1 \in 1..(n + 1) /\ i + 1 # p + 1
      <4>1. k \in Nat /\ k <= n - 1 /\ p \in Nat /\ p >= 1 /\ p <= n
        BY <1>3
      <4>2. CASE k < p - 1
        <5>1. From(k) = k /\ From(k + 1) = k + 1
          BY <4>1, <4>2
        <5> HIDE DEF From
        <5> QED
          BY <1>3, <4>1, <4>2, <5>1
      <4>3. CASE k > p - 1
        <5>1. From(k) = k + 1 /\ From(k + 1) = k + 2
          BY <4>1, <4>3
        <5> HIDE DEF From
        <5> QED
          BY <1>3, <4>1, <4>3, <5>1
      <4> QED
        BY <2>4, <4>1, <4>2, <4>3
    <3> HIDE DEF i
    <3>2. /\ h.next[At(s[head], head, i)] = At(s[head], head, i + 1)
          /\ h.prev[At(s[head], head, i + 1)] = At(s[head], head, i)
      BY <1>6, <3>1 DEF Ring
    <3>3. At(s[head], head, i) # h.prev[x] /\ At(s[head], head, i + 1) # h.next[x]
      BY <1>7, <1>8, <3>1
    <3>4. At(s[head], head, i) \in list_head /\ At(s[head], head, i + 1) \in list_head
      BY <1>2, <3>1
    <3>5. /\ g.next[At(s[head], head, i)] = At(s[head], head, i + 1)
          /\ g.prev[At(s[head], head, i + 1)] = At(s[head], head, i)
      BY <1>4, <3>2, <3>3, <3>4
    <3> QED
      BY <3>1, <3>5 DEF i
  <2> QED
    BY <2>3, <2>4
<1>11. ASSUME NEW l \in H, NEW k \in H, NEW i \in DOMAIN t[l], NEW j \in DOMAIN t[k], t[l][i] = t[k][j]
       PROVE  l = k /\ i = j
  <2> DEFINE Source(m, a) == IF m = head THEN From(a) ELSE a
  <2>1. \A m \in H : \A a \in DOMAIN t[m] : Source(m, a) \in DOMAIN s[m] /\ t[m][a] = s[m][Source(m, a)]
    <3> SUFFICES ASSUME NEW m \in H, NEW a \in DOMAIN t[m]
                 PROVE  Source(m, a) \in DOMAIN s[m] /\ t[m][a] = s[m][Source(m, a)]
      OBVIOUS
    <3>1. CASE m = head
      <4>1. a \in 1..(n - 1)
        BY <1>5, <3>1
      <4>2. From(a) \in 1..n
        BY <1>3, <4>1
      <4>3. t[m][a] = s[head][From(a)] /\ Source(m, a) = From(a) /\ From(a) \in DOMAIN s[head]
        BY <1>2, <1>5, <3>1, <4>1, <4>2
      <4> HIDE DEF From, Source
      <4> QED
        BY <3>1, <4>3
    <3>2. CASE m # head
      BY <1>5, <3>2
    <3> QED
      BY <3>1, <3>2
  <2>2. \A m \in H : \A a, b \in DOMAIN t[m] : Source(m, a) = Source(m, b) => a = b
    BY <1>2, <1>3, <1>5
  <2> HIDE DEF Source, From
  <2>3. l = k /\ Source(l, i) = Source(k, j)
    BY <1>11, <2>1 DEF Holds
  <2> QED
    BY <2>2, <2>3
<1>12. Holds(g, H, t)
  <2>1. \A l \in H : Ring(g, l, t[l])
    BY <1>9, <1>10
  <2> QED
    BY <1>1, <1>4, <1>5, <1>11, <2>1 DEF Holds
<1> QED
  BY <1>12 DEF g, t, x

\* INIT_LIST_HEAD() of elements that are in no list changes no list; of a head, it
\* empties its list.
LEMMA HeadsEmptied ==
  ASSUME NEW h, NEW H, NEW s, Holds(h, H, s), NEW L \in SUBSET list_head,
         \A x \in L : ~Member(H, s, x)
  PROVE  Holds(Emptied(h, L), H, [l \in H |-> IF l \in L THEN <<>> ELSE s[l]])
<1> DEFINE g == Emptied(h, L)
           t == [l \in H |-> IF l \in L THEN <<>> ELSE s[l]]
<1>1. /\ h \in Heap /\ H \subseteq list_head /\ s \in [H -> Seq(list_head \ H)]
  BY DEF Holds
<1>2. g \in Heap /\ \A l \in list_head :
        g.next[l] = (IF l \in L THEN l ELSE h.next[l]) /\ g.prev[l] = (IF l \in L THEN l ELSE h.prev[l])
  BY <1>1 DEF Emptied, Heap
<1>3. t \in [H -> Seq(list_head \ H)]
  BY <1>1, EmptySeq
<1>4. ASSUME NEW l \in H \cap L PROVE Ring(g, l, t[l])
  <2>1. t[l] = <<>> /\ Len(t[l]) = 0 /\ l \in list_head
    BY <1>1
  <2>2. \A i : At(t[l], l, i) = l
    BY <2>1 DEF At
  <2> HIDE DEF g, t
  <2> QED
    BY <1>2, <2>1, <2>2 DEF Ring
<1>5. ASSUME NEW l \in H \ L PROVE Ring(g, l, t[l])
  <2>1. /\ Len(s[l]) \in Nat /\ \A i \in Nat : At(s[l], l, i) \in list_head
        /\ DOMAIN s[l] = 1..Len(s[l])
    <3> HIDE DEF t, g
    <3> QED
      BY Places
  <2>4. t[l] = s[l] /\ Ring(h, l, s[l])
    BY DEF Holds
  <2>2. \A i \in Nat : At(s[l], l, i) \notin L
    BY <2>1 DEF At, Member
  <2>3. \A i \in 0..Len(s[l]) : i \in Nat /\ i + 1 \in Nat
    BY <2>1
  <2> HIDE DEF g, t
  <2> QED
    BY <1>2, <2>1, <2>4, <2>2, <2>3 DEF Ring
<1>6. \A l, k \in H : \A i \in DOMAIN t[l], j \in DOMAIN t[k] : t[l][i] = t[k][j] => l = k /\ i = j
  <2>1. \A l \in H : \A i \in DOMAIN t[l] : i \in DOMAIN s[l] /\ t[l][i] = s[l][i]
    <3>1. DOMAIN <<>> = {}
      OBVIOUS
    <3> QED
      BY <3>1
  <2> HIDE DEF t
  <2> QED
    BY <2>1 DEF Holds
<1> HIDE DEF g, t
<1>7. Holds(g, H, t)
  <2>1. \A l \in H : Ring(g, l, t[l])
    BY <1>4, <1>5
  <2> QED
    BY <1>1, <1>2, <1>3, <1>6, <2>1 DEF Holds
<1> QED
  BY <1>7 DEF g, t

\* f[n][l] is what a walk from l meets before it comes to head, n list heads at most.
Visits(f, next, head) ==
  /\ \A l \in list_head : f[0][l] = <<>>
  /\ \A n \in Nat : \A l \in list_head :
       f[n + 1][l] = IF l = head THEN <<>> ELSE <<l>> \o f[n][next[l]]

\* The recursion of Walk has that solution.
LEMMA WalkSteps ==
  ASSUME NEW next \in [list_head -> list_head], NEW head \in list_head
  PROVE  \E f : /\ Visits(f, next, head)
                /\ Walk(next, head) = f[Cardinality(list_head)][next[head]]
<1> DEFINE S == [list_head -> Seq(list_head)]
           a == [l \in list_head |-> <<>>]
           G == [n \in Nat |-> [g \in S |->
                   [l \in list_head |-> IF l = head THEN <<>> ELSE <<l>> \o g[next[l]]]]]
<1>1. a \in S /\ G \in [Nat -> [S -> S]]
  OBVIOUS
<1>2. PICK f : Iterates(f, S, a, G)
  <2> HIDE DEF S, G, a
  <2> QED
    BY <1>1, RecursionExists
<1>3. f \in [Nat -> S] /\ f[0] = a /\ \A n \in Nat : f[n + 1] = G[n][f[n]]
  BY <1>2 DEF Iterates
<1> DEFINE body(g) == [n \in Nat |-> [l \in list_head |->
                         IF l = head \/ n = 0 THEN <<>> ELSE <<l>> \o g[n - 1][next[l]]]]
<1>4. f = body(f)
  <2>1. \A n \in Nat : f[n] = [l \in list_head |->
                         IF l = head \/ n = 0 THEN <<>> ELSE <<l>> \o f[n - 1][next[l]]]
    <3> TAKE n \in Nat
    <3>1. CASE n = 0
      BY <1>3, <3>1
    <3>2. CASE n # 0
      <4>1. n - 1 \in Nat /\ n = (n - 1) + 1
        BY <3>2
      <4>2. f[n] = G[n - 1][f[n - 1]]
        BY <1>3, <4>1
      <4> QED
        BY <1>3, <3>2, <4>1, <4>2
    <3> QED
      BY <3>1, <3>2
  <2> QED
    BY <1>3, <2>1
<1> DEFINE w == CHOOSE g : g = body(g)
<1>5. w = body(w)
  BY <1>4
<1>6. Walk(next, head) = w[Cardinality(list_head)][next[head]]
  BY DEF Walk
<1> HIDE DEF w
<1>7. \A l \in list_head : w[0][l] = <<>>
  BY <1>5
<1>8. ASSUME NEW n \in Nat, NEW l \in list_head
      PROVE  w[n + 1][l] = IF l = head THEN <<>> ELSE <<l>> \o w[n][next[l]]
  <2>1. n + 1 \in Nat /\ n + 1 # 0 /\ (n + 1) - 1 = n
    OBVIOUS
  <2>2. w[n + 1] = [k \in list_head |->
                      IF k = head \/ n + 1 = 0 THEN <<>> ELSE <<k>> \o w[(n + 1) - 1][next[k]]]
    BY <1>5, <2>1
  <2> QED
    BY <2>1, <2>2
<1>9. Visits(w, next, head)
  BY <1>7, <1>8 DEF Visits
<1> QED
  BY <1>6, <1>9

\* list_for_each() meets the elements of the list, in their order.
LEMMA WalkMeets ==
  ASSUME NEW next \in [list_head -> list_head], NEW head \in list_head,
         NEW s \in Seq(list_head), Chain(next, head, s), \A i \in DOMAIN s : s[i] # head,
         Cardinality(list_head) \in Nat, Len(s) <= Cardinality(list_head)
  PROVE  Walk(next, head) = s
<1> DEFINE c == Cardinality(list_head)
<1>0. PICK f : Visits(f, next, head) /\ Walk(next, head) = f[c][next[head]]
  BY WalkSteps
<1>1. /\ \A l \in list_head : f[0][l] = <<>>
      /\ \A n \in Nat : \A l \in list_head :
           f[n + 1][l] = IF l = head THEN <<>> ELSE <<l>> \o f[n][next[l]]
  BY <1>0 DEF Visits
<1> HIDE DEF c
<1>2. /\ Len(s) \in Nat /\ DOMAIN s = 1..Len(s) /\ \A i \in 1..Len(s) : s[i] \in list_head
      /\ At(s, head, 0) = head /\ At(s, head, Len(s) + 1) = head
      /\ \A i \in 1..Len(s) : At(s, head, i) = s[i]
  BY LenProperties, ElementOfSeq DEF At
<1> DEFINE N == {n \in Nat : \A k \in 1..(Len(s) + 1) :
                   Len(s) + 1 - k <= n => f[n][At(s, head, k)] = SubSeq(s, k, Len(s))}
<1>3. SubSeq(s, Len(s) + 1, Len(s)) = <<>>
  BY <1>2, SubSeqEmpty
<1>4. 0 \in N
  <2>1. \A k \in 1..(Len(s) + 1) : Len(s) + 1 - k <= 0 => k = Len(s) + 1
    BY <1>2
  <2>2. f[0][At(s, head, Len(s) + 1)] = SubSeq(s, Len(s) + 1, Len(s))
    BY <1>1, <1>2, <1>3
  <2> QED
    BY <2>1, <2>2
<1>5. ASSUME NEW n \in Nat, n \in N
      PROVE  n + 1 \in N
  <2> SUFFICES ASSUME NEW k \in 1..(Len(s) + 1), Len(s) + 1 - k <= n + 1
               PROVE  f[n + 1][At(s, head, k)] = SubSeq(s, k, Len(s))
    BY DEF N
  <2>1. CASE k = Len(s) + 1
    BY <1>1, <1>2, <1>3, <2>1
  <2>2. CASE k # Len(s) + 1
    <3>1. k \in 1..Len(s) /\ k \in 0..Len(s) /\ k + 1 \in 1..(Len(s) + 1) /\ Len(s) + 1 - (k + 1) <= n
          /\ Len(s) \in k..Len(s)
      BY <1>2, <2>2
    <3>2. At(s, head, k) = s[k] /\ s[k] # head /\ s[k] \in list_head
      BY <1>2, <3>1
    <3>3. next[s[k]] = At(s, head, k + 1)
      BY <3>1, <3>2 DEF Chain
    <3>4. f[n][At(s, head, k + 1)] = SubSeq(s, k + 1, Len(s))
      BY <1>5, <3>1
    <3>5. SubSeq(s, k, Len(s)) = <<s[k]>> \o SubSeq(s, k + 1, Len(s))
      BY <3>1, SubSeqRecursiveFirst
    <3>6. f[n + 1][s[k]] = <<s[k]>> \o f[n][next[s[k]]]
      BY <1>1, <3>2
    <3> QED
      BY <3>2, <3>3, <3>4, <3>5, <3>6
  <2> QED
    BY <2>1, <2>2
<1>6. c \in N
  <2>1. c \in Nat
    BY DEF c
  <2> HIDE DEF N
  <2> QED
    BY <1>4, <1>5, <2>1, NatInductive
<1>7. f[c][At(s, head, 1)] = SubSeq(s, 1, Len(s))
  BY <1>2, <1>6 DEF c
<1>8. next[head] = At(s, head, 1)
  BY <1>2 DEF Chain
<1> QED
  BY <1>0, <1>7, <1>8, SubSeqFull

\* Both ways the walks meet the elements of the list, fewer than there are list heads.
THEOREM ListsAreWalked ==
  ASSUME NEW h, NEW H, NEW s, Holds(h, H, s), NEW l \in H, IsFiniteSet(list_head)
  PROVE  /\ Walk(h.next, l) = s[l] /\ Walk(h.prev, l) = Reverse(s[l])
         /\ Len(s[l]) < Cardinality(list_head)
<1>1. /\ h.next \in [list_head -> list_head] /\ h.prev \in [list_head -> list_head]
      /\ l \in list_head /\ s[l] \in Seq(list_head) /\ Ring(h, l, s[l])
      /\ s[l] \in Seq(list_head \ H)
  BY DEF Holds, Heap
<1> DEFINE t == s[l]
           r == Reverse(t)
           n == Len(t)
<1>2. /\ n \in Nat /\ DOMAIN t = 1..n /\ \A i \in DOMAIN t : t[i] # l /\ t[i] \in list_head
  BY Places
<1>3. n < Cardinality(list_head) /\ Cardinality(list_head) \in Nat
  <2>1. IsInjective(t)
    BY DEF Holds, IsInjective
  <2>2. IsFiniteSet(ToSet(t)) /\ Cardinality(ToSet(t)) = n
    BY <1>1, <2>1, LengthCounts
  <2>3. ToSet(t) \subseteq list_head \ {l}
    BY <1>2 DEF ToSet
  <2>4. IsFiniteSet(list_head \ {l}) /\ Cardinality(list_head \ {l}) = Cardinality(list_head) - 1
    BY <1>1, FS_RemoveElement
  <2>5. Cardinality(ToSet(t)) <= Cardinality(list_head \ {l})
    BY <2>3, <2>4, FS_Subset
  <2>6. Cardinality(list_head) \in Nat
    BY FS_CardinalityType
  <2> QED
    BY <1>2, <2>2, <2>4, <2>5, <2>6
<1>4. Walk(h.next, l) = t
  <2>1. Chain(h.next, l, t)
    BY <1>1 DEF Chain, Ring
  <2> HIDE DEF t
  <2> QED
    BY <1>1, <1>2, <1>3, <2>1, WalkMeets DEF t
<1>5. r \in Seq(list_head) /\ Len(r) = n /\ DOMAIN r = 1..n /\ \A i \in 1..n : r[i] = t[n - i + 1]
  <2>1. r = [i \in 1..n |-> t[(n - i) + 1]]
    BY DEF Reverse
  <2>2. \A i \in 1..n : t[(n - i) + 1] \in list_head
    BY <1>2
  <2> HIDE DEF r, t
  <2>3. r \in [1..n -> list_head]
    BY <2>1, <2>2
  <2>4. r \in Seq(list_head)
    BY <1>2, <2>3, SeqDef
  <2>5. Len(r) = n
    BY <1>2, <2>3, <2>4, LenProperties
  <2> QED
    BY <2>1, <2>3, <2>4, <2>5
<1>6. \A i \in DOMAIN r : r[i] # l
  <2>1. \A i \in 1..n : n - i + 1 \in 1..n
    BY <1>2
  <2> HIDE DEF r, n
  <2> QED
    BY <1>2, <1>5, <2>1
<1> HIDE DEF r, t, n
<1>7. Walk(h.prev, l) = r
  <2>1. \A i \in 0..(n + 1) : At(r, l, i) = At(t, l, n + 1 - i)
    BY <1>2, <1>5 DEF At
  <2>2. Chain(h.prev, l, r)
    <3> SUFFICES ASSUME NEW i \in 0..n
                 PROVE  h.prev[At(r, l, i)] = At(r, l, i + 1)
      BY <1>5 DEF Chain
    <3>1. n - i \in 0..n /\ i \in 0..(n + 1) /\ i + 1 \in 0..(n + 1)
          /\ n + 1 - i = (n - i) + 1 /\ n + 1 - (i + 1) = n - i
      BY <1>2
    <3>2. h.prev[At(t, l, (n - i) + 1)] = At(t, l, n - i)
      BY <1>1, <3>1 DEF Ring, t, n
    <3> QED
      BY <2>1, <3>1, <3>2
  <2>3. Len(r) <= Cardinality(list_head)
    BY <1>2, <1>3, <1>5
  <2> QED
    BY <1>1, <1>3, <1>5, <1>6, <2>2, <2>3, WalkMeets
<1> QED
  BY <1>3, <1>4, <1>7 DEF r, t, n

\* outProcQ() and searchProcQ() find what is in the list.
LEMMA FoundOnList ==
  ASSUME NEW h, NEW H, NEW s, Holds(h, H, s), NEW l \in H, IsFiniteSet(list_head), NEW x
  PROVE  OnList(h, x, l) <=> \E i \in DOMAIN s[l] : s[l][i] = x
<1>1. Walk(h.next, l) = s[l]
  BY ListsAreWalked
<1> QED
  BY <1>1 DEF OnList, Range

\* What is not linked keeps its pointers, wherever they point.
LEMMA LooseKeepsPointers ==
  ASSUME NEW h, NEW H, NEW s, Holds(h, H, s), NEW y \in list_head \ H, ~Member(H, s, y)
  PROVE  /\ \A head \in H, x \in list_head \ {y} :
              /\ list_add_tail(h, x, head).next[y] = h.next[y]
              /\ list_add_tail(h, x, head).prev[y] = h.prev[y]
         /\ \A head \in H : \A i \in DOMAIN s[head] :
              /\ list_del(h, s[head][i]).next[y] = h.next[y]
              /\ list_del(h, s[head][i]).prev[y] = h.prev[y]
<1>1. h \in Heap /\ H \subseteq list_head
  BY DEF Holds
<1>2. \A l \in H : \A i \in Nat : At(s[l], l, i) # y
  <2> TAKE l \in H
  <2> TAKE i \in Nat
  <2>1. DOMAIN s[l] = 1..Len(s[l])
    BY Places
  <2> QED
    BY <2>1 DEF At, Member
<1>3. ASSUME NEW head \in H, NEW x \in list_head \ {y}
      PROVE  /\ list_add_tail(h, x, head).next[y] = h.next[y]
             /\ list_add_tail(h, x, head).prev[y] = h.prev[y]
  <2>1. h.prev[head] = At(s[head], head, Len(s[head])) /\ Len(s[head]) \in Nat
    BY Ends, Places
  <2>2. h.prev[head] # y /\ head # y /\ head \in list_head
    BY <1>1, <1>2, <2>1
  <2> QED
    BY <1>1, <2>2, AddedFields
<1>4. ASSUME NEW head \in H, NEW i \in DOMAIN s[head]
      PROVE  /\ list_del(h, s[head][i]).next[y] = h.next[y]
             /\ list_del(h, s[head][i]).prev[y] = h.prev[y]
  <2>1. /\ i \in 1..Len(s[head]) /\ Len(s[head]) \in Nat /\ s[head][i] \in list_head
        /\ At(s[head], head, i) = s[head][i] /\ Ring(h, head, s[head])
    BY Places DEF Holds
  <2>2. i - 1 \in 0..Len(s[head]) /\ i \in 0..Len(s[head]) /\ i = (i - 1) + 1 /\ i - 1 \in Nat /\ i + 1 \in Nat
    BY <2>1
  <2>3. /\ h.prev[s[head][i]] = At(s[head], head, i - 1)
        /\ h.next[s[head][i]] = At(s[head], head, i + 1)
    BY <2>1, <2>2 DEF Ring
  <2>4. h.prev[s[head][i]] # y /\ h.next[s[head][i]] # y
    BY <1>2, <2>2, <2>3
  <2> QED
    BY <1>1, <2>1, <2>4, DeletedFields
<1> QED
  BY <1>3, <1>4

-----------------------------------------------------------------------------
(* The lists of phase 1: which list_head is the head of a list, and which   *)
(* fields its elements are linked by.                                       *)
Heads == {l \in list_head : l.at \in {"head", "p_child", "msg_inbox"}}

Field(l) ==
  IF l.at = "p_child" THEN "p_sib"
  ELSE IF l.at = "head" /\ l.of \in ProcQ THEN "p_list" ELSE "m_list"

Contents(h) == [l \in Heads |-> Walk(h.next, l)]

\* Memory h holds the lists s, each of its own kind of elements.
Stands(h, s) ==
  /\ Holds(h, Heads, s)
  /\ \A l \in Heads : \A i \in DOMAIN s[l] : s[l][i].at = Field(l)

Linked(s, x) == \E l \in Heads : x \in ToSet(s[l])

\* The tables are finite, and so is memory.
LEMMA MemoryFinite ==
  ASSUME IsFiniteSet(Pcb), IsFiniteSet(Msg)
  PROVE  IsFiniteSet(list_head)
<1> DEFINE Record(A, B) == [at : A, of : B]
<1>1. ASSUME NEW A, NEW B, IsFiniteSet(A), IsFiniteSet(B)
      PROVE  IsFiniteSet(Record(A, B))
  <2> DEFINE f == [x \in A \X B |-> [at |-> x[1], of |-> x[2]]]
  <2>1. IsFiniteSet(A \X B)
    BY <1>1, FS_Product
  <2>2. f \in [A \X B -> Record(A, B)]
    OBVIOUS
  <2>3. \A y \in Record(A, B) : \E x \in A \X B : f[x] = y
    <3> TAKE y \in Record(A, B)
    <3>1. <<y.at, y.of>> \in A \X B /\ y = [at |-> y.at, of |-> y.of]
      OBVIOUS
    <3>2. f[<<y.at, y.of>>] = y
      BY <3>1
    <3> QED
      BY <3>1, <3>2
  <2> HIDE DEF f, Record
  <2>4. f \in Surjection(A \X B, Record(A, B))
    BY <2>2, <2>3 DEF Surjection
  <2> QED
    BY <2>1, <2>4, FS_Surjection
<1>2. /\ IsFiniteSet({"p_list", "p_child", "p_sib", "msg_inbox"})
      /\ IsFiniteSet({"m_list"}) /\ IsFiniteSet({"head"})
      /\ IsFiniteSet(ProcQ \cup {"msgFree_h"})
  <2>1. ASSUME NEW a, NEW b, NEW c, NEW d PROVE IsFiniteSet({a, b, c, d})
    <3>1. IsFiniteSet({a}) /\ IsFiniteSet({b}) /\ IsFiniteSet({c}) /\ IsFiniteSet({d})
      BY FS_Singleton
    <3>2. IsFiniteSet(({a} \cup {b}) \cup ({c} \cup {d}))
      BY <3>1, FS_Union
    <3>3. {a, b, c, d} = ({a} \cup {b}) \cup ({c} \cup {d})
      OBVIOUS
    <3> QED
      BY <3>2, <3>3
  <2> QED
    BY <2>1, FS_Singleton, FS_Union, FS_AddElement DEF ProcQ
<1>3. /\ IsFiniteSet(Record({"p_list", "p_child", "p_sib", "msg_inbox"}, Pcb))
      /\ IsFiniteSet(Record({"m_list"}, Msg))
      /\ IsFiniteSet(Record({"head"}, ProcQ \cup {"msgFree_h"}))
  <2> HIDE DEF Record
  <2> QED
    BY <1>1, <1>2
<1> QED
  BY <1>3, FS_Union DEF list_head

\* Which fields are which.
LEMMA Fields ==
  /\ \A p \in Pcb : /\ p_list(p) \in list_head \ Heads /\ p_sib(p) \in list_head \ Heads
                    /\ p_child(p) \in Heads /\ msg_inbox(p) \in Heads
                    /\ Field(p_child(p)) = "p_sib" /\ Field(msg_inbox(p)) = "m_list"
  /\ \A m \in Msg : m_list(m) \in list_head \ Heads
  /\ \A q \in ProcQ : head_of(q) \in Heads /\ Field(head_of(q)) = "p_list"
  /\ msgFree_h \in Heads /\ Field(msgFree_h) = "m_list"
  /\ \A x \in list_head :
       /\ x.at = "p_list" => x.of \in Pcb /\ x = p_list(x.of)
       /\ x.at = "p_sib" => x.of \in Pcb /\ x = p_sib(x.of)
       /\ x.at = "m_list" => x.of \in Msg /\ x = m_list(x.of)
       /\ x.at = "p_child" => x.of \in Pcb /\ x = p_child(x.of)
       /\ x.at = "msg_inbox" => x.of \in Pcb /\ x = msg_inbox(x.of)
<1>1. ASSUME NEW p \in Pcb
      PROVE  /\ p_list(p) \in list_head \ Heads /\ p_sib(p) \in list_head \ Heads
             /\ p_child(p) \in Heads /\ msg_inbox(p) \in Heads
             /\ Field(p_child(p)) = "p_sib" /\ Field(msg_inbox(p)) = "m_list"
  BY DEF list_head, Heads, Field, p_list, p_sib, p_child, msg_inbox
<1>2. ASSUME NEW m \in Msg
      PROVE  m_list(m) \in list_head \ Heads
  BY DEF list_head, Heads, m_list
<1>3. ASSUME NEW q \in ProcQ
      PROVE  head_of(q) \in Heads /\ Field(head_of(q)) = "p_list"
  BY DEF list_head, Heads, head_of, Field
<1>4. msgFree_h \in Heads /\ Field(msgFree_h) = "m_list"
  BY DEF list_head, Heads, head_of, Field, msgFree_h, ProcQ
<1>5. ASSUME NEW x \in list_head
      PROVE  /\ x.at = "p_list" => x.of \in Pcb /\ x = p_list(x.of)
             /\ x.at = "p_sib" => x.of \in Pcb /\ x = p_sib(x.of)
             /\ x.at = "m_list" => x.of \in Msg /\ x = m_list(x.of)
             /\ x.at = "p_child" => x.of \in Pcb /\ x = p_child(x.of)
             /\ x.at = "msg_inbox" => x.of \in Pcb /\ x = msg_inbox(x.of)
  BY DEF list_head, p_list, p_sib, m_list, p_child, msg_inbox
<1> QED
  BY <1>1, <1>2, <1>3, <1>4, <1>5


\* A list of a memory is a sequence of what can be linked in it, none twice.
LEMMA ListIs ==
  ASSUME NEW h, NEW s, Stands(h, s), NEW l \in Heads
  PROVE  /\ s[l] \in Seq(list_head \ Heads) /\ DOMAIN s = Heads /\ h \in Heap
         /\ l \in list_head
         /\ IsInjective(s[l]) /\ DOMAIN s[l] = 1..Len(s[l]) /\ Len(s[l]) \in Nat
         /\ \A x \in ToSet(s[l]) : x \in list_head \ Heads /\ x.at = Field(l)
<1>1. /\ s \in [Heads -> Seq(list_head \ Heads)] /\ h \in Heap /\ Heads \subseteq list_head
      /\ \A i, j \in DOMAIN s[l] : s[l][i] = s[l][j] => i = j
      /\ \A i \in DOMAIN s[l] : s[l][i].at = Field(l)
  BY DEF Stands, Holds
<1>2. s[l] \in Seq(list_head \ Heads)
  BY <1>1
<1>3. DOMAIN s[l] = 1..Len(s[l]) /\ Len(s[l]) \in Nat
  BY <1>2, LenProperties
<1>4. \A i \in DOMAIN s[l] : s[l][i] \in list_head \ Heads
  BY <1>2, <1>3, ElementOfSeq
<1> QED
  BY <1>1, <1>2, <1>3, <1>4 DEF IsInjective, ToSet

\* ... and in no other list.
LEMMA OneList ==
  ASSUME NEW h, NEW s, Stands(h, s), NEW l \in Heads, NEW k \in Heads,
         NEW x \in ToSet(s[l]), x \in ToSet(s[k])
  PROVE  l = k
  BY DEF Stands, Holds, ToSet

\* What the functions that read a list find.
LEMMA ListRead ==
  ASSUME NEW h, NEW s, Stands(h, s), NEW l \in Heads, IsFiniteSet(list_head)
  PROVE  /\ Walk(h.next, l) = s[l] /\ Walk(h.prev, l) = Reverse(s[l])
         /\ Len(s[l]) < Cardinality(list_head)
         /\ \A x : OnList(h, x, l) <=> x \in ToSet(s[l])
         /\ list_empty(h, l) <=> s[l] = <<>>
         /\ s[l] # <<>> => h.next[l] = Head(s[l]) /\ Head(s[l]) \in ToSet(s[l])
<1>1. Holds(h, Heads, s)
  BY DEF Stands
<1>2. /\ Walk(h.next, l) = s[l] /\ Walk(h.prev, l) = Reverse(s[l])
      /\ Len(s[l]) < Cardinality(list_head)
  BY <1>1, ListsAreWalked
<1>3. \A x : OnList(h, x, l) <=> x \in ToSet(s[l])
  BY <1>2 DEF OnList, Range, ToSet
<1>4. /\ list_empty(h, l) <=> s[l] = <<>>
      /\ s[l] # <<>> => h.next[l] = s[l][1] /\ 1 \in DOMAIN s[l]
  BY <1>1, Ends
<1>5. s[l] # <<>> => h.next[l] = Head(s[l]) /\ Head(s[l]) \in ToSet(s[l])
  BY <1>4, ListIs, HeadTaken, TailIsRemoval
<1> QED
  BY <1>2, <1>3, <1>4, <1>5

\* Memory holds one family of lists.
LEMMA ContentsAre ==
  ASSUME NEW h, NEW s, Stands(h, s), IsFiniteSet(list_head)
  PROVE  s = Contents(h)
<1>1. DOMAIN s = Heads /\ s = [l \in Heads |-> s[l]]
  BY DEF Stands, Holds
<1>2. \A l \in Heads : s[l] = Walk(h.next, l)
  BY ListRead
<1> QED
  BY <1>1, <1>2 DEF Contents

\* An element that is in no list goes to the end of one.
LEMMA StandsAdded ==
  ASSUME NEW h, NEW s, Stands(h, s), NEW l \in Heads,
         NEW x \in list_head \ Heads, x.at = Field(l), ~Linked(s, x)
  PROVE  Stands(list_add_tail(h, x, l), [s EXCEPT ![l] = Append(@, x)])
<1> DEFINE t == [s EXCEPT ![l] = Append(@, x)]
<1>1. Holds(h, Heads, s) /\ ~Member(Heads, s, x)
  BY DEF Stands, Linked, Member, ToSet
<1>2. Holds(list_add_tail(h, x, l), Heads, t)
  BY <1>1, AddedAtTail
<1>3. \A k \in Heads : \A i \in DOMAIN t[k] : t[k][i].at = Field(k)
  <2> TAKE k \in Heads
  <2>1. CASE k # l
    BY <2>1, ListIs DEF Stands
  <2>2. CASE k = l
    <3>1. t[k] = Append(s[l], x) /\ s[l] \in Seq(list_head \ Heads)
      BY <2>2, ListIs
    <3> HIDE DEF t
    <3>2. ToSet(t[k]) = ToSet(s[l]) \cup {x}
      <4>1. ToSet(Append(s[l], x)) = ToSet(s[l]) \cup {x}
        BY <3>1, AppendAdds
      <4> QED
        BY <3>1, <4>1
    <3>3. \A y \in ToSet(t[k]) : y.at = Field(l)
      BY <3>2, ListIs
    <3> QED
      BY <2>2, <3>3 DEF ToSet
  <2> QED
    BY <2>1, <2>2
<1> QED
  BY <1>2, <1>3 DEF Stands

\* What list_del() leaves of a list.
LEMMA StandsDeleted ==
  ASSUME NEW h, NEW s, Stands(h, s), NEW l \in Heads, NEW x \in ToSet(s[l])
  PROVE  /\ Stands(list_del(h, x), [s EXCEPT ![l] = Without(@, {x})])
         /\ ~Linked([s EXCEPT ![l] = Without(@, {x})], x)
<1> DEFINE t == [s EXCEPT ![l] = Without(@, {x})]
<1>1. Holds(h, Heads, s)
  BY DEF Stands
<1>2. PICK p \in DOMAIN s[l] : s[l][p] = x
  BY DEF ToSet
<1>3. RemoveAt(s[l], p) = Without(s[l], {x})
  BY <1>2, ListIs, RemoveAtIsWithout
<1>4. Holds(list_del(h, x), Heads, t)
  <2>1. Holds(list_del(h, s[l][p]), Heads, [s EXCEPT ![l] = RemoveAt(@, p)])
    BY <1>1, Deleted
  <2>2. [s EXCEPT ![l] = RemoveAt(@, p)] = t
    BY <1>3
  <2> QED
    BY <1>2, <2>1, <2>2
<1>5. DOMAIN s = Heads /\ s[l] \in Seq(list_head \ Heads)
  BY ListIs
<1>6. ToSet(t[l]) = ToSet(s[l]) \ {x}
  BY <1>5, WithoutKeepsOthers
<1>7. \A k \in Heads : k # l => t[k] = s[k]
  BY <1>5
<1>8. \A k \in Heads : ToSet(t[k]) \subseteq ToSet(s[k])
  BY <1>6, <1>7
<1>9. \A k \in Heads : \A i \in DOMAIN t[k] : t[k][i].at = Field(k)
  <2> HIDE DEF t
  <2> TAKE k \in Heads
  <2> TAKE i \in DOMAIN t[k]
  <2>1. t[k][i] \in ToSet(t[k])
    BY DEF ToSet
  <2> QED
    BY <1>8, <2>1, ListIs
<1>10. ~Linked(t, x)
  BY <1>6, <1>7, OneList DEF Linked
<1> QED
  BY <1>4, <1>9, <1>10 DEF Stands

\* The first element is unlinked.
LEMMA StandsTail ==
  ASSUME NEW h, NEW s, Stands(h, s), NEW l \in Heads, s[l] # <<>>, IsFiniteSet(list_head)
  PROVE  /\ Stands(list_del(h, h.next[l]), [s EXCEPT ![l] = Tail(@)])
         /\ ~Linked([s EXCEPT ![l] = Tail(@)], h.next[l])
         /\ Tail(s[l]) = Without(s[l], {h.next[l]})
         /\ h.next[l] = Head(s[l]) /\ h.next[l] \in ToSet(s[l])
<1>1. h.next[l] = Head(s[l]) /\ Head(s[l]) \in ToSet(s[l])
  BY ListRead
<1>2. Tail(s[l]) = Without(s[l], {Head(s[l])})
  <2>1. s[l] \in Seq(list_head \ Heads) /\ IsInjective(s[l])
    BY ListIs
  <2>2. 1 \in DOMAIN s[l] /\ Head(s[l]) = s[l][1] /\ Tail(s[l]) = RemoveAt(s[l], 1)
    BY <2>1, TailIsRemoval
  <2>3. RemoveAt(s[l], 1) = Without(s[l], {s[l][1]})
    BY <2>1, <2>2, RemoveAtIsWithout
  <2> QED
    BY <2>2, <2>3
<1> QED
  BY <1>1, <1>2, StandsDeleted

\* Heads and elements that are in no list are emptied.
LEMMA StandsEmptied ==
  ASSUME NEW h, NEW s, Stands(h, s), NEW L \in SUBSET list_head, \A x \in L : ~Linked(s, x)
  PROVE  Stands(Emptied(h, L), [l \in Heads |-> IF l \in L THEN <<>> ELSE s[l]])
<1> DEFINE t == [l \in Heads |-> IF l \in L THEN <<>> ELSE s[l]]
<1>1. Holds(h, Heads, s) /\ \A x \in L : ~Member(Heads, s, x)
  BY DEF Stands, Linked, Member, ToSet
<1>2. Holds(Emptied(h, L), Heads, t)
  BY <1>1, HeadsEmptied
<1>3. DOMAIN <<>> = {}
  OBVIOUS
<1>4. \A l \in Heads : \A i \in DOMAIN t[l] : t[l][i].at = Field(l)
  BY <1>3 DEF Stands
<1> QED
  BY <1>2, <1>4 DEF Stands


-----------------------------------------------------------------------------
(* The functions of pcb.c and msg.c on the lists. *)

\* insertProcQ() of a PCB that is in no queue.
LEMMA QueueInserted ==
  ASSUME NEW h, NEW s, Stands(h, s), NEW q \in ProcQ, NEW p \in Pcb, ~Linked(s, p_list(p))
  PROVE  Stands(insertProcQ(h, head_of(q), p), [s EXCEPT ![head_of(q)] = Append(@, p_list(p))])
<1>1. head_of(q) \in Heads /\ p_list(p) \in list_head \ Heads /\ p_list(p).at = Field(head_of(q))
  BY Fields DEF p_list
<1> QED
  BY <1>1, StandsAdded DEF insertProcQ

\* outProcQ() takes the PCB out of the queue, or finds that it is not there.
LEMMA QueueLeft ==
  ASSUME NEW h, NEW s, Stands(h, s), NEW q \in ProcQ, NEW p \in Pcb, IsFiniteSet(list_head)
  PROVE  Stands(outProcQ(h, head_of(q), p), [s EXCEPT ![head_of(q)] = Without(@, {p_list(p)})])
<1> DEFINE l == head_of(q)
<1>1. l \in Heads /\ (OnList(h, p_list(p), l) <=> p_list(p) \in ToSet(s[l]))
  BY Fields, ListRead
<1> HIDE DEF l
<1>2. CASE p_list(p) \in ToSet(s[l])
  BY <1>1, <1>2, StandsDeleted DEF outProcQ, l
<1>3. CASE p_list(p) \notin ToSet(s[l])
  <2>1. Without(s[l], {p_list(p)}) = s[l]
    BY <1>1, <1>3, ListIs, WithoutNone
  <2>2. s \in [Heads -> Seq(list_head \ Heads)]
    BY DEF Stands, Holds
  <2>3. [s EXCEPT ![l] = Without(@, {p_list(p)})] = s
    BY <1>1, <2>1, <2>2
  <2> QED
    BY <1>1, <1>3, <2>3 DEF outProcQ, l
<1> QED
  BY <1>2, <1>3

\* removeProcQ() takes the first PCB, if there is one.
LEMMA QueueRemoved ==
  ASSUME NEW h, NEW s, Stands(h, s), NEW q \in ProcQ, IsFiniteSet(list_head),
         s[head_of(q)] # <<>>
  PROVE  /\ Stands(removeProcQ(h, head_of(q)), [s EXCEPT ![head_of(q)] = Tail(@)])
         /\ First(h, head_of(q)) \in Pcb /\ p_list(First(h, head_of(q))) = Head(s[head_of(q)])
         /\ p_list(First(h, head_of(q))) \in ToSet(s[head_of(q)])
         /\ ~Linked([s EXCEPT ![head_of(q)] = Tail(@)], p_list(First(h, head_of(q))))
         /\ Tail(s[head_of(q)]) = Without(s[head_of(q)], {p_list(First(h, head_of(q)))})
<1> DEFINE l == head_of(q)
           t == [s EXCEPT ![l] = Tail(@)]
<1>1. l \in Heads /\ Field(l) = "p_list"
  BY Fields
<1>2. ~list_empty(h, l)
  BY <1>1, ListRead
<1>3. /\ Stands(list_del(h, h.next[l]), t) /\ ~Linked(t, h.next[l])
      /\ h.next[l] = Head(s[l]) /\ h.next[l] \in ToSet(s[l])
      /\ Tail(s[l]) = Without(s[l], {h.next[l]})
  BY <1>1, StandsTail
<1>4. h.next[l] \in list_head /\ h.next[l].at = "p_list"
  BY <1>1, <1>3, ListIs
<1>5. h.next[l].of \in Pcb /\ h.next[l] = p_list(h.next[l].of)
  BY <1>4, Fields
<1> QED
  BY <1>2, <1>3, <1>5 DEF removeProcQ, First

\* An empty queue stays as it is.
LEMMA QueueNotRemoved ==
  ASSUME NEW h, NEW s, Stands(h, s), NEW q \in ProcQ, IsFiniteSet(list_head),
         s[head_of(q)] = <<>>
  PROVE  removeProcQ(h, head_of(q)) = h /\ list_empty(h, head_of(q))
<1>1. list_empty(h, head_of(q))
  BY Fields, ListRead
<1> QED
  BY <1>1 DEF removeProcQ

\* MAXPROC + 2 elements are enough: searchProcQ() finds what is there.
LEMMA QueueSearched ==
  ASSUME NEW h, NEW s, Stands(h, s), NEW q \in ProcQ, NEW p \in Pcb,
         IsFiniteSet(list_head), IsFiniteSet(Pcb)
  PROVE  searchProcQ(h, p, head_of(q)) <=> p_list(p) \in ToSet(s[head_of(q)])
<1> DEFINE l == head_of(q)
           r == s[l]
<1>1. l \in Heads /\ Field(l) = "p_list" /\ Walk(h.next, l) = r
  BY Fields, ListRead
<1>2. /\ r \in Seq(list_head \ Heads) /\ IsInjective(r) /\ DOMAIN r = 1..Len(r) /\ Len(r) \in Nat
      /\ \A x \in ToSet(r) : x \in list_head \ Heads /\ x.at = Field(l)
  BY <1>1, ListIs
<1> HIDE DEF l, r
<1>3. IsFiniteSet(ToSet(r)) /\ Cardinality(ToSet(r)) = Len(r)
  BY <1>2, LengthCounts
<1> DEFINE f == [x \in ToSet(r) |-> x.of]
<1>4. f \in Injection(ToSet(r), Pcb)
  <2>1. \A x \in ToSet(r) : x.of \in Pcb /\ x = p_list(x.of)
    BY <1>1, <1>2, Fields
  <2>2. \A x, y \in ToSet(r) : f[x] = f[y] => x = y
    BY <2>1
  <2>3. f \in [ToSet(r) -> Pcb]
    BY <2>1
  <2> QED
    BY <2>2, <2>3 DEF Injection, IsInjective
<1>5. Cardinality(ToSet(r)) <= Cardinality(Pcb)
  BY <1>4, FS_Injection
<1>6. Cardinality(Pcb) \in Nat
  BY FS_CardinalityType
<1>7. \A i \in DOMAIN r : i <= Cardinality(Pcb) + 2
  BY <1>2, <1>3, <1>5, <1>6
<1>8. searchProcQ(h, p, l) <=> \E i \in DOMAIN r : i <= Cardinality(Pcb) + 2 /\ r[i] = p_list(p)
  BY <1>1 DEF searchProcQ
<1> QED
  BY <1>7, <1>8 DEF ToSet, l, r

\* The lists when p, the first free PCB, has its fields initialised.
Allocated(s, p) ==
  [l \in Heads |-> IF l \in {p_child(p), msg_inbox(p)} THEN <<>>
                   ELSE IF l = pcbFree_h THEN Tail(s[l]) ELSE s[l]]

\* allocPcb() of a PCB whose p_sib is in no list: a free PCB has no siblings.
LEMMA PcbAllocated ==
  ASSUME NEW h, NEW s, Stands(h, s), IsFiniteSet(list_head), s[pcbFree_h] # <<>>,
         ~Linked(s, p_sib(First(h, pcbFree_h)))
  PROVE  /\ Stands(allocPcb(h), Allocated(s, First(h, pcbFree_h)))
         /\ First(h, pcbFree_h) \in Pcb /\ p_list(First(h, pcbFree_h)) = Head(s[pcbFree_h])
         /\ p_list(First(h, pcbFree_h)) \in ToSet(s[pcbFree_h])
         /\ ~Linked([s EXCEPT ![pcbFree_h] = Tail(@)], p_list(First(h, pcbFree_h)))
         /\ Tail(s[pcbFree_h]) = Without(s[pcbFree_h], {p_list(First(h, pcbFree_h))})
<1> DEFINE p == First(h, pcbFree_h)
           t == [s EXCEPT ![pcbFree_h] = Tail(@)]
           L == {p_list(p), p_child(p), p_sib(p), msg_inbox(p)}
           u == Allocated(s, p)
<1>1. "pcbFree_h" \in ProcQ /\ pcbFree_h = head_of("pcbFree_h") /\ pcbFree_h \in Heads
  BY Fields DEF ProcQ, pcbFree_h
<1>2. /\ Stands(removeProcQ(h, pcbFree_h), t) /\ p \in Pcb /\ p_list(p) = Head(s[pcbFree_h])
      /\ p_list(p) \in ToSet(s[pcbFree_h]) /\ ~Linked(t, p_list(p))
      /\ Tail(s[pcbFree_h]) = Without(s[pcbFree_h], {p_list(p)})
  BY <1>1, QueueRemoved
<1> HIDE DEF p
<1>3. removeProcQ(h, pcbFree_h) = list_del(h, p_list(p))
  BY <1>1, <1>2, ListRead DEF removeProcQ
<1>4. L \in SUBSET list_head
  BY <1>2, Fields DEF Heads
<1>5. \A l \in Heads : ToSet(t[l]) \subseteq ToSet(s[l])
  <2> TAKE l \in Heads
  <2>1. DOMAIN s = Heads /\ s[pcbFree_h] \in Seq(list_head \ Heads)
    BY <1>1, ListIs
  <2>2. ToSet(s[pcbFree_h]) = ToSet(Tail(s[pcbFree_h])) \cup {Head(s[pcbFree_h])}
    BY <2>1, HeadTaken
  <2> QED
    BY <2>1, <2>2
<1>6. \A x \in L : ~Linked(t, x)
  <2>1. ~Linked(t, p_sib(p))
    BY <1>5 DEF Linked, p
  <2>2. \A l \in Heads : \A x \in ToSet(t[l]) : x \notin Heads
    BY <1>5, ListIs
  <2>3. ~Linked(t, p_child(p)) /\ ~Linked(t, msg_inbox(p))
    BY <1>2, <2>2, Fields DEF Linked
  <2> HIDE DEF t
  <2> QED
    BY <1>2, <2>1, <2>3
<1>7. Stands(Emptied(list_del(h, p_list(p)), L), [l \in Heads |-> IF l \in L THEN <<>> ELSE t[l]])
  <2> HIDE DEF L, t
  <2> QED
    BY <1>2, <1>3, <1>4, <1>6, StandsEmptied
<1>8. [l \in Heads |-> IF l \in L THEN <<>> ELSE t[l]] = u
  <2>1. p_list(p) \notin Heads /\ p_sib(p) \notin Heads /\ DOMAIN s = Heads
    BY <1>1, <1>2, Fields, ListIs
  <2>2. \A l \in Heads : (IF l \in L THEN <<>> ELSE t[l]) = u[l]
    BY <1>1, <2>1 DEF Allocated
  <2> QED
    BY <2>2 DEF Allocated
<1>9. allocPcb(h) = Emptied(list_del(h, p_list(p)), L)
  BY DEF allocPcb, p
<1> QED
  BY <1>2, <1>7, <1>8, <1>9 DEF p


\* allocMsg() takes the first free message.
LEMMA MessageAllocated ==
  ASSUME NEW h, NEW s, Stands(h, s), IsFiniteSet(list_head), s[msgFree_h] # <<>>
  PROVE  /\ Stands(allocMsg(h), [s EXCEPT ![msgFree_h] = Tail(@)])
         /\ First(h, msgFree_h) \in Msg /\ m_list(First(h, msgFree_h)) = Head(s[msgFree_h])
         /\ ~Linked([s EXCEPT ![msgFree_h] = Tail(@)], m_list(First(h, msgFree_h)))
<1> DEFINE m == First(h, msgFree_h)
           t == [s EXCEPT ![msgFree_h] = Tail(@)]
           L == {m_list(m)}
<1>1. msgFree_h \in Heads /\ Field(msgFree_h) = "m_list"
  BY Fields
<1>2. /\ Stands(list_del(h, h.next[msgFree_h]), t) /\ ~Linked(t, h.next[msgFree_h])
      /\ h.next[msgFree_h] = Head(s[msgFree_h]) /\ h.next[msgFree_h] \in ToSet(s[msgFree_h])
  BY <1>1, StandsTail
<1>3. h.next[msgFree_h] \in list_head \ Heads /\ h.next[msgFree_h].at = "m_list"
  BY <1>1, <1>2, ListIs
<1>4. m \in Msg /\ h.next[msgFree_h] = m_list(m)
  BY <1>3, Fields DEF First
<1> HIDE DEF m
<1>5. Stands(Emptied(list_del(h, m_list(m)), L), [l \in Heads |-> IF l \in L THEN <<>> ELSE t[l]])
  <2>1. L \in SUBSET list_head /\ \A x \in L : ~Linked(t, x)
    BY <1>2, <1>3, <1>4
  <2> HIDE DEF L, t
  <2> QED
    BY <1>2, <1>4, <2>1, StandsEmptied
<1>6. [l \in Heads |-> IF l \in L THEN <<>> ELSE t[l]] = t
  <2>1. \A l \in Heads : l \notin L
    BY <1>3, <1>4
  <2>2. t = [l \in Heads |-> t[l]]
    BY <1>1, ListIs
  <2> HIDE DEF t, L
  <2>3. [l \in Heads |-> IF l \in L THEN <<>> ELSE t[l]] = [l \in Heads |-> t[l]]
    BY <2>1
  <2> QED
    BY <2>2, <2>3
<1>7. allocMsg(h) = Emptied(list_del(h, m_list(m)), L)
  BY DEF allocMsg, m
<1> QED
  BY <1>2, <1>4, <1>5, <1>6, <1>7 DEF m

\* A free message, allocated and put at the end of an inbox.
LEMMA MessageDelivered ==
  ASSUME NEW h, NEW s, Stands(h, s), IsFiniteSet(list_head), s[msgFree_h] # <<>>, NEW p \in Pcb
  PROVE  /\ Stands(insertMessage(allocMsg(h), msg_inbox(p), First(h, msgFree_h)),
                   [s EXCEPT ![msgFree_h] = Tail(@), ![msg_inbox(p)] = Append(@, Head(s[msgFree_h]))])
         /\ First(h, msgFree_h) \in Msg /\ m_list(First(h, msgFree_h)) = Head(s[msgFree_h])
<1> DEFINE m == First(h, msgFree_h)
           t == [s EXCEPT ![msgFree_h] = Tail(@)]
           u == [s EXCEPT ![msgFree_h] = Tail(@), ![msg_inbox(p)] = Append(@, Head(s[msgFree_h]))]
<1>1. /\ Stands(allocMsg(h), t) /\ m \in Msg /\ m_list(m) = Head(s[msgFree_h])
      /\ ~Linked(t, m_list(m))
  BY MessageAllocated
<1>2. /\ msg_inbox(p) \in Heads /\ Field(msg_inbox(p)) = "m_list" /\ msg_inbox(p) # msgFree_h
      /\ msgFree_h \in Heads
  BY Fields DEF msg_inbox, msgFree_h, head_of
<1>3. m_list(m) \in list_head \ Heads /\ m_list(m).at = "m_list"
  BY <1>1, Fields DEF m_list
<1>4. u = [t EXCEPT ![msg_inbox(p)] = Append(@, m_list(m))]
  BY <1>1, <1>2, ListIs
<1> HIDE DEF m, t, u
<1>5. Stands(list_add_tail(allocMsg(h), m_list(m), msg_inbox(p)), u)
  BY <1>1, <1>2, <1>3, <1>4, StandsAdded
<1> QED
  BY <1>1, <1>5 DEF insertMessage, m, u

\* popMessage() and freeMsg(): the message goes from the inbox to the end of the free
\* list.
LEMMA MessageFreed ==
  ASSUME NEW h, NEW s, Stands(h, s), NEW p \in Pcb, NEW m \in Msg,
         m_list(m) \in ToSet(s[msg_inbox(p)])
  PROVE  Stands(freeMsg(popMessage(h, m), m),
                [s EXCEPT ![msg_inbox(p)] = Without(@, {m_list(m)}), ![msgFree_h] = Append(@, m_list(m))])
<1> DEFINE t == [s EXCEPT ![msg_inbox(p)] = Without(@, {m_list(m)})]
           u == [s EXCEPT ![msg_inbox(p)] = Without(@, {m_list(m)}),
                          ![msgFree_h] = Append(@, m_list(m))]
<1>1. /\ msg_inbox(p) \in Heads /\ msg_inbox(p) # msgFree_h
      /\ msgFree_h \in Heads /\ Field(msgFree_h) = "m_list"
      /\ m_list(m) \in list_head \ Heads /\ m_list(m).at = "m_list"
  BY Fields DEF msg_inbox, msgFree_h, head_of, m_list
<1>2. Stands(popMessage(h, m), t) /\ ~Linked(t, m_list(m))
  BY <1>1, StandsDeleted DEF popMessage
<1>3. h \in Heap
  BY <1>1, ListIs
<1>4. u = [t EXCEPT ![msgFree_h] = Append(@, m_list(m))]
  BY <1>1, ListIs
<1> HIDE DEF t, u
<1>5. Stands(list_add_tail(popMessage(h, m), m_list(m), msgFree_h), u)
  BY <1>1, <1>2, <1>4, StandsAdded
<1> QED
  BY <1>3, <1>5, ReceivedIsFreed DEF u

\* Where a search stops.
LEMMA FirstFound ==
  ASSUME NEW K, NULL \notin K, NEW S, NEW path \in Seq(S)
  PROVE  \/ FirstIn(K, path) = NULL /\ \A i \in DOMAIN path : path[i] \notin K
         \/ \E i \in DOMAIN path : /\ FirstIn(K, path) = path[i] /\ path[i] \in K
                                   /\ \A j \in DOMAIN path : j < i => path[j] \notin K
<1> DEFINE found == {i \in DOMAIN path : path[i] \in K}
<1>1. DOMAIN path = 1..Len(path) /\ Len(path) \in Nat
  BY LenProperties
<1>2. CASE found = {}
  BY <1>2 DEF FirstIn
<1>3. CASE found # {}
  <2>1. found \in SUBSET Nat
    BY <1>1
  <2>2. PICK n \in found : n = Min(found) /\ \A i \in found : n <= i
    BY <1>3, <2>1, FirstPosition
  <2>3. FirstIn(K, path) = path[n]
    BY <1>3, <2>2 DEF FirstIn
  <2>4. ASSUME NEW j \in DOMAIN path, j < n
        PROVE  path[j] \notin K
    <3>1. j \in Int /\ n \in Int /\ ~(n <= j)
      BY <1>1, <2>1, <2>4
    <3> QED
      BY <2>2, <3>1
  <2> QED
    BY <2>3, <2>4
<1> QED
  BY <1>2, <1>3

\* container_of() of each element.
LEMMA OwnersAre ==
  ASSUME NEW S, NEW r \in Seq(list_head), \A x \in ToSet(r) : x.of \in S
  PROVE  /\ Owners(r) \in Seq(S) /\ DOMAIN Owners(r) = DOMAIN r /\ Len(Owners(r)) = Len(r)
         /\ \A i \in DOMAIN r : Owners(r)[i] = r[i].of
<1>1. DOMAIN r = 1..Len(r) /\ Len(r) \in Nat
  BY LenProperties
<1>2. \A i \in DOMAIN r : r[i].of \in S
  BY DEF ToSet
<1>3. Owners(r) \in [1..Len(r) -> S]
  BY <1>1, <1>2 DEF Owners
<1>4. Owners(r) \in Seq(S)
  BY <1>1, <1>3, SeqDef
<1>5. DOMAIN Owners(r) = DOMAIN r /\ \A i \in DOMAIN r : Owners(r)[i] = r[i].of
  BY DEF Owners
<1>6. Len(Owners(r)) = Len(r)
  BY <1>1, <1>3, <1>4, LenProperties
<1> QED
  BY <1>4, <1>5, <1>6

\* insertChild() of a PCB that is in no list of children.
LEMMA ChildInserted ==
  ASSUME NEW h, NEW s, Stands(h, s), NEW prnt \in Pcb, NEW p \in Pcb, ~Linked(s, p_sib(p))
  PROVE  Stands(insertChild(h, prnt, p), [s EXCEPT ![p_child(prnt)] = Append(@, p_sib(p))])
<1>1. /\ p_child(prnt) \in Heads /\ p_sib(p) \in list_head \ Heads
      /\ p_sib(p).at = Field(p_child(prnt))
  BY Fields DEF p_sib
<1> QED
  BY <1>1, StandsAdded DEF insertChild

\* removeChild() takes the first child, whose fields go on pointing to the head and to
\* the child that is now first.
LEMMA ChildRemoved ==
  ASSUME NEW h, NEW s, Stands(h, s), NEW p \in Pcb, IsFiniteSet(list_head), s[p_child(p)] # <<>>
  PROVE  /\ Stands(removeChild(h, p), [s EXCEPT ![p_child(p)] = Tail(@)])
         /\ ~emptyChild(h, p)
         /\ First(h, p_child(p)) \in Pcb /\ p_sib(First(h, p_child(p))) = Head(s[p_child(p)])
         /\ p_sib(First(h, p_child(p))) \in ToSet(s[p_child(p)])
         /\ ~Linked([s EXCEPT ![p_child(p)] = Tail(@)], p_sib(First(h, p_child(p))))
         /\ Tail(s[p_child(p)]) = Without(s[p_child(p)], {p_sib(First(h, p_child(p)))})
         /\ removeChild(h, p).prev[p_sib(First(h, p_child(p)))] = p_child(p)
         /\ removeChild(h, p).next[p_sib(First(h, p_child(p)))] = removeChild(h, p).next[p_child(p)]
<1> DEFINE l == p_child(p)
           t == [s EXCEPT ![l] = Tail(@)]
           x == h.next[l]
<1>1. l \in Heads /\ Field(l) = "p_sib"
  BY Fields
<1>2. ~list_empty(h, l)
  BY <1>1, ListRead
<1>3. /\ Stands(list_del(h, x), t) /\ ~Linked(t, x)
      /\ x = Head(s[l]) /\ x \in ToSet(s[l]) /\ Tail(s[l]) = Without(s[l], {x})
  BY <1>1, StandsTail
<1>4. x \in list_head /\ x.at = "p_sib" /\ x \notin Heads
  BY <1>1, <1>3, ListIs
<1>5. x.of \in Pcb /\ x = p_sib(x.of)
  BY <1>4, Fields
<1>6. removeChild(h, p) = list_del(h, x)
  BY <1>2 DEF removeChild, emptyChild
<1>7. list_del(h, x).prev[x] = l /\ list_del(h, x).next[x] = list_del(h, x).next[l]
  <2>1. h \in Heap /\ l \in list_head
    BY <1>1, ListIs
  <2>2. h.prev[x] = l /\ h.next[x] # x /\ h.next[x] \in list_head
    <3>1. /\ Len(s[l]) \in Nat /\ DOMAIN s[l] = 1..Len(s[l]) /\ 1 \in DOMAIN s[l]
          /\ s[l][1] = x
      BY <1>1, <1>3, ListIs, TailIsRemoval
    <3>2. Ring(h, l, s[l]) /\ Holds(h, Heads, s)
      BY <1>1 DEF Stands, Holds
    <3>3. At(s[l], l, 0) = l /\ At(s[l], l, 1) = x
      BY <3>1 DEF At
    <3>4. h.prev[x] = l /\ h.next[x] = At(s[l], l, 2)
      <4>1. 0 \in 0..Len(s[l]) /\ 1 \in 0..Len(s[l]) /\ 0 + 1 = 1 /\ 1 + 1 = 2
        BY <3>1
      <4> QED
        BY <3>2, <3>3, <4>1 DEF Ring
    <3>5. At(s[l], l, 2) # x
      <4>1. CASE 2 \in 1..Len(s[l])
        BY <1>1, <3>1, <4>1, ListIs DEF At, IsInjective
      <4>2. CASE 2 \notin 1..Len(s[l])
        BY <1>1, <1>4, <4>2 DEF At
      <4> QED
        BY <4>1, <4>2
    <3>6. h.next[x] \in list_head
      BY <1>4, <2>1 DEF Heap
    <3> QED
      BY <3>4, <3>5, <3>6
  <2>3. l # x
    BY <1>1, <1>4
  <2> QED
    BY <1>4, <2>1, <2>2, <2>3, DeletedFields
<1> QED
  BY <1>2, <1>3, <1>5, <1>6, <1>7 DEF First, emptyChild


-----------------------------------------------------------------------------
(* terminateProcess(): the tree is taken apart. *)

\* Each PCB is in the list of children of its p_parent.
Tree(s, par) == \A p, c \in Pcb : p_sib(c) \in ToSet(s[p_child(p)]) <=> par[c] = p

\* Going from parent to parent leaves every set of PCBs.
Acyclic(par) == \A S \in SUBSET Pcb : S # {} => \E x \in S : par[x] \notin S

\* D is closed downwards from p, and its PCBs are in no queue but the pseudo-clock's.
Doomed(s, par, p, D) ==
  /\ D \subseteq Pcb /\ p \in D
  /\ \A c \in Pcb : par[c] \in D => c \in D
  /\ \A x \in D : \A q \in ProcQ \ {"pseudoClockQueue"} : p_list(x) \notin ToSet(s[head_of(q)])

\* Fields of the PCBs of a set and of a sequence.
PList(K)  == {p_list(y) : y \in K}
PSib(K)   == {p_sib(y) : y \in K}
PLists(r) == [i \in DOMAIN r |-> p_list(r[i])]

\* The lists once the PCBs of the sequence freed are free and those of the set gone are
\* in no list of children.
KillLists(s, freed, gone) ==
  [l \in Heads |->
     CASE l = pcbFree_h        -> s[l] \o PLists(freed)
       [] l = pseudoClockQueue -> Without(s[l], PList(ToSet(freed)))
       [] l.at = "p_child"     -> Without(s[l], PSib(gone))
       [] OTHER                -> s[l]]

Gone(k, p) == ToSet(k.freed) \cup (ToSet(k.stack) \ {p})

\* The PCBs on the stack have left the list of their parent, the next one on the stack,
\* and still point to its head and to its first element.
Stale(h, stack) ==
  \A i \in 1..(Len(stack) - 1) :
    /\ h.prev[p_sib(stack[i])] = p_child(stack[i + 1])
    /\ h.next[p_sib(stack[i])] = h.next[p_child(stack[i + 1])]

Killing(k, s, par, p, D) ==
  /\ k \in [heap : Heap, parent : [Pcb -> Pcb \cup {NULL}], stack : Seq(Pcb), freed : Seq(Pcb),
            awake : Nat]
  /\ Stands(k.heap, KillLists(s, k.freed, Gone(k, p)))
  /\ \A x \in Pcb : k.parent[x] = IF x \in ToSet(k.freed) THEN NULL ELSE par[x]
  /\ IsInjective(k.stack) /\ IsInjective(k.freed)
  /\ ToSet(k.stack) \subseteq D /\ ToSet(k.freed) \subseteq D
  /\ ToSet(k.stack) \cap ToSet(k.freed) = {}
  /\ k.stack = <<>> => p \in ToSet(k.freed)
  /\ k.stack # <<>> => k.stack[Len(k.stack)] = p
  /\ \A i \in 1..(Len(k.stack) - 1) : par[k.stack[i]] = k.stack[i + 1]
  /\ Stale(k.heap, k.stack)
  /\ \A c \in Pcb : par[c] \in ToSet(k.freed) => c \in ToSet(k.freed)

\* Where the head of a list points depends on the list only.
LEMMA HeadKept ==
  ASSUME NEW h, NEW s, Stands(h, s), NEW g, NEW t, Stands(g, t), NEW l \in Heads, t[l] = s[l]
  PROVE  g.next[l] = h.next[l] /\ g.prev[g.next[l]] = l
<1>1. Holds(h, Heads, s) /\ Holds(g, Heads, t)
  BY DEF Stands
<1>2. h.next[l] = At(s[l], l, 1) /\ g.next[l] = At(t[l], l, 1)
  BY <1>1, Ends
<1>3. Ring(g, l, t[l]) /\ Len(t[l]) \in Nat /\ At(t[l], l, 0) = l
  <2>1. Ring(g, l, t[l])
    BY <1>1 DEF Holds
  <2>2. Len(t[l]) \in Nat /\ At(t[l], l, 0) = l
    BY <1>1, Places
  <2> QED
    BY <2>1, <2>2
<1>4. g.prev[At(t[l], l, 1)] = l
  <2>1. 0 \in 0..Len(t[l]) /\ 0 + 1 = 1
    BY <1>3
  <2> QED
    BY <1>3, <2>1 DEF Ring
<1> QED
  BY <1>2, <1>4

\* What is in no list points where it did.
LEMMA LooseKept ==
  ASSUME NEW h, NEW s, Stands(h, s), NEW y \in list_head \ Heads, ~Linked(s, y), NEW l \in Heads
  PROVE  /\ \A x \in list_head \ {y} :
              /\ list_add_tail(h, x, l).next[y] = h.next[y]
              /\ list_add_tail(h, x, l).prev[y] = h.prev[y]
         /\ \A x \in ToSet(s[l]) :
              /\ list_del(h, x).next[y] = h.next[y]
              /\ list_del(h, x).prev[y] = h.prev[y]
<1>1. Holds(h, Heads, s) /\ ~Member(Heads, s, y)
  BY DEF Stands, Linked, Member, ToSet
<1>2. ASSUME NEW x \in ToSet(s[l])
      PROVE  list_del(h, x).next[y] = h.next[y] /\ list_del(h, x).prev[y] = h.prev[y]
  <2>1. PICK i \in DOMAIN s[l] : s[l][i] = x
    BY DEF ToSet
  <2> QED
    BY <1>1, <2>1, LooseKeepsPointers
<1>3. \A x \in list_head \ {y} :
        /\ list_add_tail(h, x, l).next[y] = h.next[y]
        /\ list_add_tail(h, x, l).prev[y] = h.prev[y]
  BY <1>1, LooseKeepsPointers
<1> QED
  BY <1>2, <1>3

\* outProcQ() changes no pointer of what is in no list.
LEMMA LooseKeptOut ==
  ASSUME NEW h, NEW s, Stands(h, s), NEW y \in list_head \ Heads, ~Linked(s, y),
         NEW q \in ProcQ, NEW p \in Pcb, IsFiniteSet(list_head)
  PROVE  /\ outProcQ(h, head_of(q), p).next[y] = h.next[y]
         /\ outProcQ(h, head_of(q), p).prev[y] = h.prev[y]
<1>1. head_of(q) \in Heads
      /\ (OnList(h, p_list(p), head_of(q)) <=> p_list(p) \in ToSet(s[head_of(q)]))
  BY Fields, ListRead
<1>2. p_list(p) \in ToSet(s[head_of(q)]) =>
        /\ list_del(h, p_list(p)).next[y] = h.next[y]
        /\ list_del(h, p_list(p)).prev[y] = h.prev[y]
  BY <1>1, LooseKept
<1> QED
  BY <1>1, <1>2 DEF outProcQ

\* The lists in the middle of it, by their elements: the queues ...
LEMMA KillListsAre ==
  ASSUME NEW h, NEW s, Stands(h, s), NEW freed \in Seq(Pcb), NEW gone,
         NEW t, t = KillLists(s, freed, gone)
  PROVE  /\ t[pcbFree_h] = s[pcbFree_h] \o PLists(freed)
         /\ t[pcbFree_h] \in Seq(list_head)
         /\ ToSet(t[pcbFree_h]) = ToSet(s[pcbFree_h]) \cup PList(ToSet(freed))
         /\ t[pseudoClockQueue] = Without(s[pseudoClockQueue], PList(ToSet(freed)))
         /\ t[pseudoClockQueue] \in Seq(list_head)
         /\ ToSet(t[pseudoClockQueue]) = ToSet(s[pseudoClockQueue]) \ PList(ToSet(freed))
         /\ \A l \in Heads : l.at # "p_child" /\ l \notin {pcbFree_h, pseudoClockQueue} => t[l] = s[l]
<1> DEFINE r == PLists(freed)
<1>1. /\ pcbFree_h \in Heads /\ pseudoClockQueue \in Heads /\ pcbFree_h # pseudoClockQueue
      /\ pcbFree_h.at # "p_child" /\ pseudoClockQueue.at # "p_child"
  BY Fields DEF pcbFree_h, pseudoClockQueue, head_of, ProcQ
<1>3. \A l \in Heads : t[l] =
        CASE l = pcbFree_h        -> s[l] \o r
          [] l = pseudoClockQueue -> Without(s[l], PList(ToSet(freed)))
          [] l.at = "p_child"     -> Without(s[l], PSib(gone))
          [] OTHER                -> s[l]
  BY DEF KillLists
<1>4. \A l \in Heads : s[l] \in Seq(list_head)
  <2> TAKE l \in Heads
  <2>1. s[l] \in Seq(list_head \ Heads)
    BY ListIs
  <2> QED
    BY <2>1
<1>5. r \in Seq(list_head) /\ ToSet(r) = PList(ToSet(freed))
  <2>1. DOMAIN freed = 1..Len(freed) /\ Len(freed) \in Nat
    BY LenProperties
  <2>2. \A i \in DOMAIN freed : freed[i] \in Pcb /\ p_list(freed[i]) \in list_head
    BY <2>1, ElementOfSeq, Fields
  <2>3. r \in [1..Len(freed) -> list_head]
    BY <2>1, <2>2 DEF PLists
  <2>4. r \in Seq(list_head)
    BY <2>1, <2>3, SeqDef
  <2> QED
    BY <2>4 DEF ToSet, PLists, PList
<1> HIDE DEF r
<1>6. /\ t[pcbFree_h] = s[pcbFree_h] \o r
      /\ t[pseudoClockQueue] = Without(s[pseudoClockQueue], PList(ToSet(freed)))
      /\ \A l \in Heads : l.at # "p_child" /\ l \notin {pcbFree_h, pseudoClockQueue} => t[l] = s[l]
  BY <1>1, <1>3
<1>7. t[pcbFree_h] \in Seq(list_head)
      /\ ToSet(t[pcbFree_h]) = ToSet(s[pcbFree_h]) \cup PList(ToSet(freed))
  BY <1>1, <1>4, <1>5, <1>6, ConcatAdds
<1>8. t[pseudoClockQueue] \in Seq(list_head)
      /\ ToSet(t[pseudoClockQueue]) = ToSet(s[pseudoClockQueue]) \ PList(ToSet(freed))
  BY <1>1, <1>4, <1>6, WithoutKeepsOthers
<1>9. t[pcbFree_h] = s[pcbFree_h] \o PLists(freed)
  BY <1>6 DEF r
<1> QED
  BY <1>6, <1>7, <1>8, <1>9

\* ... and the lists of children.
LEMMA KillChildrenAre ==
  ASSUME NEW h, NEW s, Stands(h, s), NEW freed, NEW gone, NEW t, t = KillLists(s, freed, gone),
         NEW p \in Pcb
  PROVE  /\ t[p_child(p)] = Without(s[p_child(p)], PSib(gone))
         /\ t[p_child(p)] \in Seq(list_head)
         /\ ToSet(t[p_child(p)]) = ToSet(s[p_child(p)]) \ PSib(gone)
<1>1. /\ p_child(p) \in Heads /\ p_child(p).at = "p_child"
      /\ p_child(p) # pcbFree_h /\ p_child(p) # pseudoClockQueue
  BY Fields DEF pcbFree_h, pseudoClockQueue, head_of, p_child
<1>2. t[p_child(p)] = Without(s[p_child(p)], PSib(gone))
  BY <1>1 DEF KillLists
<1>3. s[p_child(p)] \in Seq(list_head)
  <2>1. s[p_child(p)] \in Seq(list_head \ Heads)
    BY <1>1, ListIs
  <2> QED
    BY <2>1
<1> QED
  BY <1>2, <1>3, WithoutKeepsOthers

\* One PCB more that is in no list of children.
ChildOut(t, x, c) == [t EXCEPT ![p_child(x)] = Without(@, {p_sib(c)})]

\* What is left of the lists when one PCB more has gone.
LEMMA SiblingGone ==
  ASSUME NEW h, NEW s, Stands(h, s), NEW freed \in Seq(Pcb), NEW gone \in SUBSET Pcb, NEW c \in Pcb,
         NEW t, t = KillLists(s, freed, gone), NEW z \in Pcb
  PROVE  /\ p_sib(c) \in ToSet(s[p_child(z)]) =>
              KillLists(s, freed, gone \cup {c}) = ChildOut(t, z, c)
         /\ (\A x \in Pcb : p_sib(c) \notin ToSet(s[p_child(x)])) =>
              KillLists(s, freed, gone \cup {c}) = t
<1> DEFINE v == KillLists(s, freed, gone \cup {c})
<1>1. PSib(gone \cup {c}) = PSib(gone) \cup {p_sib(c)}
  BY DEF PSib
<1>2. /\ t = [l \in Heads |-> t[l]] /\ v = [l \in Heads |-> v[l]]
      /\ \A l \in Heads : l.at # "p_child" => v[l] = t[l]
  BY DEF KillLists
<1> HIDE DEF v
<1>3. ASSUME NEW x \in Pcb
      PROVE  /\ v[p_child(x)] = Without(t[p_child(x)], {p_sib(c)})
             /\ p_sib(c) \notin ToSet(s[p_child(x)]) => v[p_child(x)] = t[p_child(x)]
  <2> DEFINE r == s[p_child(x)]
             K == PSib(gone)
  <2>1. r \in Seq(list_head \ Heads)
    BY Fields, ListIs
  <2>2. t[p_child(x)] = Without(r, K) /\ v[p_child(x)] = Without(r, K \cup {p_sib(c)})
    <3>1. t[p_child(x)] = Without(r, K)
      BY KillChildrenAre
    <3>2. v = KillLists(s, freed, gone \cup {c})
      BY DEF v
    <3>3. v[p_child(x)] = Without(r, PSib(gone \cup {c}))
      BY <3>2, KillChildrenAre
    <3> QED
      BY <1>1, <3>1, <3>3
  <2> HIDE DEF r, K
  <2>3. Without(Without(r, K), {p_sib(c)}) = Without(r, K \cup {p_sib(c)})
    BY <2>1, WithoutTwice
  <2>4. Without(r, K) \in Seq(list_head \ Heads) /\ ToSet(Without(r, K)) \subseteq ToSet(r)
    BY <2>1, WithoutKeepsOthers
  <2>5. ASSUME p_sib(c) \notin ToSet(r)
        PROVE  Without(Without(r, K), {p_sib(c)}) = Without(r, K)
    BY <2>4, <2>5, WithoutNone
  <2> QED
    BY <2>2, <2>3, <2>5 DEF r
<1>4. \A l \in Heads : l.at = "p_child" => l.of \in Pcb /\ l = p_child(l.of)
  BY Fields DEF Heads
<1>5. \A x \in Pcb : p_child(x) \in Heads /\ p_child(x).at = "p_child"
  BY Fields DEF p_child
<1>6. ASSUME NEW x \in Pcb, p_sib(c) \in ToSet(s[p_child(x)])
      PROVE  v = [t EXCEPT ![p_child(x)] = Without(@, {p_sib(c)})]
  <2>1. \A y \in Pcb : p_sib(c) \in ToSet(s[p_child(y)]) => p_child(y) = p_child(x)
    BY <1>5, <1>6, OneList
  <2>2. \A l \in Heads : v[l] = IF l = p_child(x) THEN Without(t[l], {p_sib(c)}) ELSE t[l]
    <3> TAKE l \in Heads
    <3>1. CASE l.at # "p_child"
      BY <1>2, <1>5, <3>1
    <3>2. CASE l.at = "p_child"
      BY <1>3, <1>4, <2>1, <3>2
    <3> QED
      BY <3>1, <3>2
  <2> QED
    BY <1>2, <1>5, <2>2
<1>7. ASSUME \A x \in Pcb : p_sib(c) \notin ToSet(s[p_child(x)])
      PROVE  v = t
  <2>1. \A l \in Heads : v[l] = t[l]
    <3> TAKE l \in Heads
    <3>1. CASE l.at # "p_child"
      BY <1>2, <3>1
    <3>2. CASE l.at = "p_child"
      BY <1>3, <1>4, <1>7, <3>2
    <3> QED
      BY <3>1, <3>2
  <2> QED
    BY <1>2, <2>1
<1> QED
  BY <1>6, <1>7 DEF v, ChildOut

\* What the loop has on its hands: what it is made of ...
LEMMA KillingTypes ==
  ASSUME NEW s, NEW par, NEW p, NEW D, Doomed(s, par, p, D), NEW k, Killing(k, s, par, p, D)
  PROVE  /\ k.heap \in Heap /\ k.stack \in Seq(Pcb) /\ k.freed \in Seq(Pcb) /\ k.awake \in Nat
         /\ k.parent \in [Pcb -> Pcb \cup {NULL}]
         /\ Gone(k, p) \in SUBSET Pcb /\ p \in Pcb
         /\ ToSet(k.stack) \subseteq Pcb /\ ToSet(k.freed) \subseteq Pcb
         /\ ToSet(k.stack) \subseteq D /\ ToSet(k.freed) \subseteq D /\ D \subseteq Pcb
         /\ ToSet(k.stack) \cap ToSet(k.freed) = {}
         /\ Len(k.stack) \in Nat /\ DOMAIN k.stack = 1..Len(k.stack)
         /\ \A i \in 1..Len(k.stack) : k.stack[i] \in Pcb
<1>1. /\ k.heap \in Heap /\ k.stack \in Seq(Pcb) /\ k.freed \in Seq(Pcb) /\ k.awake \in Nat
      /\ k.parent \in [Pcb -> Pcb \cup {NULL}]
  BY DEF Killing
<1>2. /\ D \subseteq Pcb /\ p \in D /\ ToSet(k.stack) \subseteq D /\ ToSet(k.freed) \subseteq D
      /\ ToSet(k.stack) \cap ToSet(k.freed) = {}
  BY DEF Doomed, Killing
<1>3. Len(k.stack) \in Nat /\ DOMAIN k.stack = 1..Len(k.stack)
  BY <1>1, LenProperties
<1>4. \A i \in 1..Len(k.stack) : k.stack[i] \in Pcb
  BY <1>1, <1>3, ElementOfSeq
<1>9. Gone(k, p) \in SUBSET Pcb /\ ToSet(k.stack) \subseteq Pcb /\ ToSet(k.freed) \subseteq Pcb
  BY <1>2 DEF Gone
<1> QED
  BY <1>1, <1>2, <1>3, <1>4, <1>9

\* ... and what is on its stack.
LEMMA KillingStack ==
  ASSUME NEW s, NEW par, NEW p, NEW D, Doomed(s, par, p, D), NEW k, Killing(k, s, par, p, D)
  PROVE  /\ k.stack # <<>> => /\ Len(k.stack) >= 1 /\ Head(k.stack) = k.stack[1]
                              /\ Head(k.stack) \in ToSet(k.stack) /\ Head(k.stack) \in Pcb
                              /\ p \in ToSet(k.stack) /\ k.stack[Len(k.stack)] = p
         /\ \A i, j \in 1..Len(k.stack) : k.stack[i] = k.stack[j] => i = j
         /\ \A i \in 1..(Len(k.stack) - 1) :
              /\ par[k.stack[i]] = k.stack[i + 1]
              /\ k.heap.prev[p_sib(k.stack[i])] = p_child(k.stack[i + 1])
              /\ k.heap.next[p_sib(k.stack[i])] = k.heap.next[p_child(k.stack[i + 1])]
<1>1. /\ k.stack \in Seq(Pcb) /\ Len(k.stack) \in Nat /\ DOMAIN k.stack = 1..Len(k.stack)
      /\ ToSet(k.stack) \subseteq Pcb
  BY KillingTypes
<1>5. ASSUME k.stack # <<>>
      PROVE  /\ Len(k.stack) >= 1 /\ Head(k.stack) = k.stack[1]
             /\ Head(k.stack) \in ToSet(k.stack) /\ Head(k.stack) \in Pcb
             /\ p \in ToSet(k.stack) /\ k.stack[Len(k.stack)] = p
  <2>1. 1 \in DOMAIN k.stack /\ Head(k.stack) = k.stack[1]
    BY <1>1, <1>5, TailIsRemoval
  <2>2. k.stack[Len(k.stack)] = p /\ Len(k.stack) \in DOMAIN k.stack
    BY <1>1, <1>5, <2>1 DEF Killing
  <2> QED
    BY <1>1, <2>1, <2>2 DEF ToSet
<1>7. \A i \in 1..(Len(k.stack) - 1) :
        /\ par[k.stack[i]] = k.stack[i + 1]
        /\ k.heap.prev[p_sib(k.stack[i])] = p_child(k.stack[i + 1])
        /\ k.heap.next[p_sib(k.stack[i])] = k.heap.next[p_child(k.stack[i + 1])]
  BY DEF Killing, Stale
<1>8. \A i, j \in 1..Len(k.stack) : k.stack[i] = k.stack[j] => i = j
  BY <1>1 DEF Killing, IsInjective
<1> QED
  BY <1>5, <1>7, <1>8


\* What is on the stack or free is in no list of children, and a PCB on the stack in no
\* queue but the pseudo-clock's.
LEMMA KillingLoose ==
  ASSUME NEW h, NEW s, Stands(h, s), NEW par \in [Pcb -> Pcb \cup {NULL}], NULL \notin Pcb,
         NEW p, NEW D, Doomed(s, par, p, D), NEW k, Killing(k, s, par, p, D),
         NEW t, t = KillLists(s, k.freed, Gone(k, p))
  PROVE  /\ \A y \in Gone(k, p) : p_sib(y) \in list_head \ Heads /\ ~Linked(t, p_sib(y))
         /\ \A y \in ToSet(k.stack) : p_list(y) \in list_head \ Heads
              /\ \A l \in Heads \ {pseudoClockQueue} : p_list(y) \notin ToSet(t[l])
<1>0. /\ k.freed \in Seq(Pcb) /\ Gone(k, p) \in SUBSET Pcb
      /\ ToSet(k.stack) \subseteq Pcb /\ ToSet(k.freed) \subseteq Pcb
      /\ ToSet(k.stack) \subseteq D /\ ToSet(k.stack) \cap ToSet(k.freed) = {}
  BY KillingTypes
<1>4. Stands(k.heap, t)
  BY DEF Killing
<1>1. /\ \A l \in Heads : \A x \in ToSet(t[l]) : x.at = Field(l)
      /\ \A l \in Heads : l.at = "p_child" => l.of \in Pcb /\ l = p_child(l.of)
      /\ \A y \in Pcb : p_sib(y) \in list_head \ Heads /\ p_list(y) \in list_head \ Heads
  <2>1. \A l \in Heads : l.at = "p_child" => l.of \in Pcb /\ l = p_child(l.of)
    BY Fields DEF Heads
  <2>2. \A y \in Pcb : p_sib(y) \in list_head \ Heads /\ p_list(y) \in list_head \ Heads
    BY Fields
  <2>3. \A l \in Heads : \A x \in ToSet(t[l]) : x.at = Field(l)
    BY <1>4, ListIs
  <2> QED
    BY <2>1, <2>2, <2>3
<1>2. ASSUME NEW y \in Gone(k, p), Linked(t, p_sib(y))
      PROVE  FALSE
  <2>1. PICK l \in Heads : p_sib(y) \in ToSet(t[l])
    BY <1>2 DEF Linked
  <2>2. l.at = "p_child"
    BY <1>1, <2>1 DEF Field, p_sib
  <2>3. l.of \in Pcb /\ l = p_child(l.of)
    BY <1>1, <2>2
  <2>4. ToSet(t[p_child(l.of)]) = ToSet(s[p_child(l.of)]) \ PSib(Gone(k, p))
    BY <2>3, KillChildrenAre
  <2>5. p_sib(y) \in PSib(Gone(k, p))
    BY DEF PSib
  <2> QED
    BY <2>1, <2>3, <2>4, <2>5
<1>3. ASSUME NEW y \in ToSet(k.stack), NEW l \in Heads \ {pseudoClockQueue},
             p_list(y) \in ToSet(t[l])
      PROVE  FALSE
  <2>1. Field(l) = "p_list"
    BY <1>1, <1>3 DEF p_list
  <2>2. l.at = "head" /\ l.of \in ProcQ
    BY <2>1 DEF Field
  <2>3. l = head_of(l.of) /\ l.of \in ProcQ \ {"pseudoClockQueue"} /\ l.at # "p_child"
    BY <2>2, <1>3 DEF head_of, pseudoClockQueue, Heads, list_head
  <2>4. p_list(y) \notin ToSet(s[l])
    BY <1>0, <2>3, <1>3 DEF Doomed
  <2>5. CASE l = pcbFree_h
    <3>1. p_list(y) \in PList(ToSet(k.freed))
      BY <1>0, <1>3, <2>4, <2>5, KillListsAre
    <3>2. y \in ToSet(k.freed)
      BY <3>1 DEF PList, p_list
    <3> QED
      BY <1>0, <3>2
  <2>6. CASE l # pcbFree_h
    <3>1. t[l] = s[l]
      BY <1>0, <1>3, <2>3, <2>6, KillListsAre
    <3> QED
      BY <1>3, <2>4, <3>1
  <2> QED
    BY <2>5, <2>6
<1> QED
  BY <1>0, <1>1, <1>2, <1>3

\* A level down: the first child leaves the list of the PCB on the stack, and its turn
\* comes.
LEMMA KillPushes ==
  ASSUME NEW h, NEW s, Stands(h, s), NEW par \in [Pcb -> Pcb \cup {NULL}], NULL \notin Pcb,
         IsFiniteSet(list_head), Tree(s, par), Acyclic(par),
         NEW p, NEW D, Doomed(s, par, p, D), NEW k, Killing(k, s, par, p, D),
         k.stack # <<>>, ~emptyChild(k.heap, Head(k.stack))
  PROVE  /\ Killing(Kill(k), s, par, p, D)
         /\ Len(Kill(k).stack) = Len(k.stack) + 1 /\ Kill(k).freed = k.freed
<1> DEFINE top == Head(k.stack)
           t == KillLists(s, k.freed, Gone(k, p))
           c == First(k.heap, p_child(top))
           u == [t EXCEPT ![p_child(top)] = Tail(@)]
           g == removeChild(k.heap, top)
           m == [heap |-> g, parent |-> k.parent, stack |-> <<c>> \o k.stack, freed |-> k.freed,
                 awake |-> k.awake]
<1>1. /\ k.heap \in Heap /\ k.stack \in Seq(Pcb) /\ k.freed \in Seq(Pcb) /\ k.awake \in Nat
      /\ k.parent \in [Pcb -> Pcb \cup {NULL}]
      /\ Gone(k, p) \in SUBSET Pcb /\ p \in Pcb /\ ToSet(k.stack) \subseteq Pcb
      /\ Len(k.stack) \in Nat /\ DOMAIN k.stack = 1..Len(k.stack) /\ Len(k.stack) >= 1
      /\ \A i \in 1..Len(k.stack) : k.stack[i] \in Pcb
      /\ top = k.stack[1] /\ top \in ToSet(k.stack) /\ top \in Pcb /\ p \in ToSet(k.stack)
      /\ k.stack[Len(k.stack)] = p
      /\ \A i, j \in 1..Len(k.stack) : k.stack[i] = k.stack[j] => i = j
      /\ ToSet(k.stack) \subseteq D
  BY KillingTypes, KillingStack
<1>18. /\ IsInjective(k.stack)
       /\ k = [heap |-> k.heap, parent |-> k.parent, stack |-> k.stack, freed |-> k.freed,
               awake |-> k.awake]
  BY DEF Killing
<1>16. /\ \A i \in 1..(Len(k.stack) - 1) :
            /\ par[k.stack[i]] = k.stack[i + 1]
            /\ k.heap.prev[p_sib(k.stack[i])] = p_child(k.stack[i + 1])
            /\ k.heap.next[p_sib(k.stack[i])] = k.heap.next[p_child(k.stack[i + 1])]
  BY KillingStack
<1>2. Kill(k) = m
  BY <1>18 DEF Kill
<1>3. Stands(k.heap, t)
  BY DEF Killing
<1>4. p_child(top) \in Heads /\ t[p_child(top)] # <<>>
  BY <1>1, <1>3, Fields, ListRead DEF emptyChild
<1> HIDE DEF top
<1>5. /\ Stands(g, u) /\ c \in Pcb /\ p_sib(c) = Head(t[p_child(top)])
      /\ p_sib(c) \in ToSet(t[p_child(top)]) /\ ~Linked(u, p_sib(c))
      /\ Tail(t[p_child(top)]) = Without(t[p_child(top)], {p_sib(c)})
      /\ g.prev[p_sib(c)] = p_child(top)
      /\ g.next[p_sib(c)] = g.next[p_child(top)]
  <2> HIDE DEF t
  <2> DEFINE hh == k.heap
             v == [t EXCEPT ![p_child(top)] = Tail(@)]
             z == First(hh, p_child(top))
  <2>1. top \in Pcb /\ Stands(hh, t)
    BY <1>1, <1>3
  <2> HIDE DEF hh, z
  <2>2. /\ Stands(removeChild(hh, top), v) /\ First(hh, p_child(top)) \in Pcb
        /\ p_sib(First(hh, p_child(top))) = Head(t[p_child(top)])
        /\ p_sib(First(hh, p_child(top))) \in ToSet(t[p_child(top)])
        /\ ~Linked(v, p_sib(First(hh, p_child(top))))
        /\ Tail(t[p_child(top)]) = Without(t[p_child(top)], {p_sib(First(hh, p_child(top)))})
        /\ removeChild(hh, top).prev[p_sib(First(hh, p_child(top)))] = p_child(top)
        /\ removeChild(hh, top).next[p_sib(First(hh, p_child(top)))]
              = removeChild(hh, top).next[p_child(top)]
    BY <1>4, <2>1, ChildRemoved
  <2> QED
    BY <2>2 DEF hh
<1>6. ToSet(t[p_child(top)]) = ToSet(s[p_child(top)]) \ PSib(Gone(k, p))
  BY <1>1, KillChildrenAre
<1> HIDE DEF c, g
<1>7. par[c] = top /\ c \in D /\ c \notin Gone(k, p)
  <2>1. par[c] = top
    BY <1>1, <1>5, <1>6 DEF Tree
  <2>2. c \in D
    BY <1>1, <1>5, <2>1 DEF Doomed
  <2>3. c \notin Gone(k, p)
    BY <1>5, <1>6 DEF PSib
  <2> QED
    BY <2>1, <2>2, <2>3
<1>8. c \notin ToSet(k.stack) /\ c \notin ToSet(k.freed)
  <2>1. \A y \in ToSet(k.stack) : y # p => par[y] \in ToSet(k.stack)
    <3> TAKE y \in ToSet(k.stack)
    <3>1. PICK i \in 1..Len(k.stack) : k.stack[i] = y
      BY <1>1 DEF ToSet
    <3>2. ASSUME y # p PROVE i \in 1..(Len(k.stack) - 1) /\ i + 1 \in 1..Len(k.stack)
      BY <1>1, <3>1, <3>2
    <3> QED
      BY <1>1, <1>16, <3>1, <3>2 DEF ToSet
  <2>2. c # p
    <3>1. ASSUME c = p PROVE FALSE
      <4>1. \A y \in ToSet(k.stack) : par[y] \in ToSet(k.stack)
        BY <1>1, <1>7, <2>1, <3>1
      <4> QED
        BY <1>1, <4>1 DEF Acyclic
    <3> QED
      BY <3>1
  <2> QED
    BY <1>7, <2>2 DEF Gone
<1> DEFINE r == <<c>> \o k.stack
<1>9. /\ r \in Seq(Pcb) /\ Len(r) = Len(k.stack) + 1 /\ DOMAIN r = 1..(Len(k.stack) + 1)
      /\ r[1] = c /\ r # <<>> /\ \A i \in 1..Len(k.stack) : r[i + 1] = k.stack[i]
      /\ ToSet(r) = ToSet(k.stack) \cup {c} /\ IsInjective(r)
      /\ \A i \in DOMAIN r : i # 1 => i - 1 \in DOMAIN k.stack /\ r[i] = k.stack[i - 1]
  <2> HIDE DEF r
  <2>1. r = <<c>> \o k.stack
    BY DEF r
  <2> QED
    <3> DEFINE w == k.stack
    <3>1. /\ w \in Seq(Pcb) /\ c \in Pcb /\ c \notin ToSet(w) /\ IsInjective(w) /\ Prepended(r, c, w)
          /\ DOMAIN w = 1..Len(w)
      BY <1>1, <1>5, <1>8, <1>18, <2>1 DEF Prepended
    <3> HIDE DEF w
    <3>2. /\ r \in Seq(Pcb) /\ Len(r) = Len(w) + 1 /\ DOMAIN r = 1..(Len(w) + 1)
          /\ r[1] = c /\ r # <<>> /\ \A i \in 1..Len(w) : r[i + 1] = w[i]
          /\ \A i \in DOMAIN r : i # 1 => i - 1 \in DOMAIN w /\ r[i] = w[i - 1]
          /\ ToSet(r) = ToSet(w) \cup {c} /\ IsInjective(r)
      BY <3>1, PrependIs
    <3> QED
      BY <3>2 DEF w
<1> HIDE DEF r
<1>10. r[Len(r)] = p
  BY <1>1, <1>9
<1>11. Gone(m, p) = Gone(k, p) \cup {c}
  <2>1. m.freed = k.freed /\ m.stack = r
    BY DEF r
  <2> HIDE DEF m
  <2> QED
    BY <1>1, <1>8, <1>9, <2>1 DEF Gone
<1>12. u = KillLists(s, k.freed, Gone(k, p) \cup {c})
  <2>1. p_sib(c) \in ToSet(s[p_child(top)])
    BY <1>5, <1>6
  <2>2. u = [t EXCEPT ![p_child(top)] = Without(@, {p_sib(c)})]
    BY <1>5
  <2> HIDE DEF u
  <2>4. t = KillLists(s, k.freed, Gone(k, p))
    OBVIOUS
  <2> HIDE DEF t
  <2>3. KillLists(s, k.freed, Gone(k, p) \cup {c}) = [t EXCEPT ![p_child(top)] = Without(@, {p_sib(c)})]
    <3> DEFINE f == k.freed
               G == Gone(k, p)
    <3>1. /\ f \in Seq(Pcb) /\ G \in SUBSET Pcb /\ c \in Pcb /\ top \in Pcb
          /\ t = KillLists(s, f, G)
      BY <1>1, <1>5, <2>4
    <3> HIDE DEF f, G
    <3>2. KillLists(s, f, G \cup {c}) = ChildOut(t, top, c)
      BY <2>1, <3>1, SiblingGone
    <3> QED
      BY <3>2 DEF f, G, ChildOut
  <2> QED
    BY <2>2, <2>3
<1>17. ASSUME NEW i \in 1..(Len(r) - 1)
       PROVE  \/ r[i] = c /\ r[i + 1] = top
              \/ \E j \in 1..(Len(k.stack) - 1) :
                   /\ j \in 1..Len(k.stack) /\ j + 1 \in 1..Len(k.stack) /\ j # Len(k.stack) /\ j + 1 # 1
                   /\ r[i] = k.stack[j] /\ r[i + 1] = k.stack[j + 1]
  <2>1. CASE i = 1
    <3>1. 1 \in 1..Len(k.stack)
      BY <1>1
    <3>2. r[1 + 1] = k.stack[1]
      BY <1>9, <3>1
    <3> QED
      BY <1>1, <1>9, <2>1, <3>2
  <2>2. CASE i # 1
    <3>1. i \in DOMAIN r /\ i \in 1..Len(k.stack) /\ i - 1 \in 1..(Len(k.stack) - 1)
          /\ i - 1 \in 1..Len(k.stack) /\ (i - 1) + 1 = i /\ i - 1 # Len(k.stack)
      BY <1>1, <1>9, <2>2
    <3>2. r[i] = k.stack[i - 1] /\ r[i + 1] = k.stack[i]
      BY <1>9, <2>2, <3>1
    <3> QED
      BY <2>2, <3>1, <3>2
  <2> QED
    BY <2>1, <2>2
<1>13. \A i \in 1..(Len(r) - 1) : par[r[i]] = r[i + 1]
  BY <1>7, <1>16, <1>17
<1>14. Stale(g, r)
  <2> SUFFICES ASSUME NEW i \in 1..(Len(r) - 1)
               PROVE  /\ g.prev[p_sib(r[i])] = p_child(r[i + 1])
                      /\ g.next[p_sib(r[i])] = g.next[p_child(r[i + 1])]
    BY DEF Stale
  <2>1. CASE r[i] = c /\ r[i + 1] = top
    BY <1>5, <2>1
  <2>2. ASSUME NEW j \in 1..(Len(k.stack) - 1),
               j \in 1..Len(k.stack), j + 1 \in 1..Len(k.stack), j # Len(k.stack), j + 1 # 1,
               r[i] = k.stack[j], r[i + 1] = k.stack[j + 1]
        PROVE  /\ g.prev[p_sib(r[i])] = p_child(r[i + 1])
               /\ g.next[p_sib(r[i])] = g.next[p_child(r[i + 1])]
    <3> DEFINE y == k.stack[j]
               x == k.stack[j + 1]
    <3>1. 1 \in 1..Len(k.stack) /\ Len(k.stack) \in 1..Len(k.stack)
      BY <1>1
    <3>2. r[i] = y /\ r[i + 1] = x /\ x \in Pcb /\ y \in ToSet(k.stack) /\ x # top /\ y # p
      <4>1. r[i] = y /\ r[i + 1] = x /\ x \in Pcb /\ y \in ToSet(k.stack)
        BY <1>1, <2>2 DEF ToSet
      <4>2. x # top /\ y # p
        BY <1>1, <2>2, <3>1
      <4> QED
        BY <4>1, <4>2
    <3>3. /\ k.heap.prev[p_sib(y)] = p_child(x)
          /\ k.heap.next[p_sib(y)] = k.heap.next[p_child(x)]
      BY <1>16
    <3> HIDE DEF x, y
    <3>4. y \in Gone(k, p)
      BY <3>2 DEF Gone
    <3>5. p_sib(y) \in list_head \ Heads /\ ~Linked(t, p_sib(y))
      BY <3>4, KillingLoose
    <3>6. g.next[p_sib(y)] = k.heap.next[p_sib(y)] /\ g.prev[p_sib(y)] = k.heap.prev[p_sib(y)]
      <4>1. g = list_del(k.heap, p_sib(c))
        BY <1>3, <1>4, <1>5, ListRead DEF removeChild, emptyChild, g
      <4> HIDE DEF t
      <4> QED
        BY <1>3, <1>4, <1>5, <3>5, <4>1, LooseKept
    <3>7. g.next[p_child(x)] = k.heap.next[p_child(x)]
      <4>1. p_child(x) \in Heads /\ p_child(x) # p_child(top)
        BY <3>2, Fields DEF p_child
      <4>2. u[p_child(x)] = t[p_child(x)]
        BY <1>3, <4>1, ListIs
      <4> HIDE DEF t, u
      <4> QED
        BY <1>3, <1>5, <4>1, <4>2, HeadKept
    <3> QED
      BY <3>2, <3>3, <3>6, <3>7
  <2> QED
    BY <1>17, <2>1, <2>2
<1>15. Killing(m, s, par, p, D)
  <2>1. /\ m.heap = g /\ m.parent = k.parent /\ m.stack = r /\ m.freed = k.freed /\ m.awake = k.awake
        /\ m = [heap |-> g, parent |-> k.parent, stack |-> r, freed |-> k.freed, awake |-> k.awake]
    BY DEF r
  <2>2. g \in Heap
    BY <1>4, <1>5, ListIs
  <2>3. m \in [heap : Heap, parent : [Pcb -> Pcb \cup {NULL}], stack : Seq(Pcb), freed : Seq(Pcb),
               awake : Nat]
    BY <1>1, <1>9, <2>1, <2>2
  <2> HIDE DEF m
  <2>4. Stands(m.heap, KillLists(s, m.freed, Gone(m, p)))
    BY <1>5, <1>11, <1>12, <2>1
  <2>5. /\ IsInjective(m.stack) /\ IsInjective(m.freed)
        /\ ToSet(m.stack) \subseteq D /\ ToSet(m.freed) \subseteq D
        /\ ToSet(m.stack) \cap ToSet(m.freed) = {}
    BY <1>7, <1>8, <1>9, <1>10, <2>1 DEF Killing
  <2>6. /\ \A x \in Pcb : m.parent[x] = IF x \in ToSet(m.freed) THEN NULL ELSE par[x]
        /\ \A x \in Pcb : par[x] \in ToSet(m.freed) => x \in ToSet(m.freed)
    BY <2>1 DEF Killing
  <2> QED
    <3>1. m.stack # <<>> /\ m.stack[Len(m.stack)] = p
      BY <1>9, <1>10, <2>1
    <3>2. \A i \in 1..(Len(m.stack) - 1) : par[m.stack[i]] = m.stack[i + 1]
      BY <1>13, <2>1
    <3>3. Stale(m.heap, m.stack)
      BY <1>14, <2>1
    <3> QED
      BY <2>3, <2>4, <2>5, <2>6, <3>1, <3>2, <3>3 DEF Killing
<1> QED
  BY <1>2, <1>9, <1>15 DEF r

\* The pointers of c are those that removeChild() left in the first child of x, as far
\* as that list goes.
StaleChild(h, c, x) ==
  h.prev[p_sib(c)] = p_child(x) /\ h.next[p_sib(c)] = h.next[p_child(x)]

\* The pointers of what is in no list, and of the heads of children, are those they were.
Untouched(g, h, t) ==
  /\ \A y \in list_head \ Heads : ~Linked(t, y) => g.next[y] = h.next[y] /\ g.prev[y] = h.prev[y]
  /\ \A x \in Pcb : g.next[p_child(x)] = h.next[p_child(x)]

QueueOut(t, c) == [t EXCEPT ![pseudoClockQueue] = Without(@, {p_list(c)})]

\* outProcQ() of the pseudo-clock's queue.
LEMMA ClockLeft ==
  ASSUME NEW h, NEW t, Stands(h, t), NEW c \in Pcb, IsFiniteSet(list_head)
  PROVE  /\ Stands(outProcQ(h, pseudoClockQueue, c), QueueOut(t, c))
         /\ Untouched(outProcQ(h, pseudoClockQueue, c), h, t)
<1> DEFINE g == outProcQ(h, pseudoClockQueue, c)
           u == QueueOut(t, c)
<1>1. "pseudoClockQueue" \in ProcQ /\ pseudoClockQueue = head_of("pseudoClockQueue")
      /\ pseudoClockQueue \in Heads
  BY Fields DEF ProcQ, pseudoClockQueue
<1>2. Stands(g, u)
  BY <1>1, QueueLeft DEF QueueOut
<1>3. ASSUME NEW y \in list_head \ Heads, ~Linked(t, y)
      PROVE  g.next[y] = h.next[y] /\ g.prev[y] = h.prev[y]
  BY <1>1, <1>3, LooseKeptOut
<1>4. ASSUME NEW x \in Pcb
      PROVE  g.next[p_child(x)] = h.next[p_child(x)]
  <2>1. p_child(x) \in Heads /\ p_child(x) # pseudoClockQueue
    BY Fields DEF p_child, pseudoClockQueue, head_of
  <2>2. u[p_child(x)] = t[p_child(x)]
    BY <2>1, ListIs DEF QueueOut
  <2> HIDE DEF g, u
  <2> QED
    BY <1>2, <2>1, <2>2, HeadKept
<1> HIDE DEF g
<1> QED
  BY <1>2, <1>3, <1>4 DEF Untouched, g

\* outChild() in the middle of it: it does nothing, or takes the child out.
LEMMA ChildLeft ==
  ASSUME NEW h, NEW t, Stands(h, t), NEW c \in Pcb, NEW par, NULL \notin Pcb
  PROVE  /\ par[c] = NULL => outChild(h, par, c) = h
         /\ \A x \in Pcb : par[c] = x /\ StaleChild(h, c, x) => outChild(h, par, c) = h
         /\ \A x \in Pcb : par[c] = x /\ p_sib(c) \in ToSet(t[p_child(x)]) =>
              Stands(outChild(h, par, c), ChildOut(t, x, c))
<1>1. h \in Heap
  BY DEF Stands, Holds
<1>2. ASSUME NEW x \in Pcb, par[c] = x, StaleChild(h, c, x)
      PROVE  outChild(h, par, c) = h
  <2>1. /\ p_child(x) \in Heads /\ p_sib(c) \in list_head
        /\ h.prev[p_sib(c)] = p_child(x) /\ h.next[p_sib(c)] = h.next[p_child(x)]
    BY <1>2, Fields DEF StaleChild
  <2>2. h.prev[h.next[p_child(x)]] = p_child(x)
    BY <2>1, HeadKept
  <2>3. list_del(h, p_sib(c)) = h
    BY <1>1, <2>1, <2>2, Unlinked
  <2> QED
    BY <1>2, <2>3 DEF outChild
<1>3. ASSUME NEW x \in Pcb, par[c] = x, p_sib(c) \in ToSet(t[p_child(x)])
      PROVE  Stands(outChild(h, par, c), ChildOut(t, x, c))
  <2>1. p_child(x) \in Heads
    BY Fields
  <2>2. Stands(list_del(h, p_sib(c)), [t EXCEPT ![p_child(x)] = Without(@, {p_sib(c)})])
    BY <1>3, <2>1, StandsDeleted
  <2>3. outChild(h, par, c) = list_del(h, p_sib(c))
    BY <1>3 DEF outChild
  <2> QED
    BY <2>2, <2>3 DEF ChildOut
<1> QED
  BY <1>2, <1>3 DEF outChild

FreeIn(u, c) == [u EXCEPT ![pcbFree_h] = Append(@, p_list(c))]

\* freePcb() of a PCB that is in no queue.
LEMMA PcbFreed ==
  ASSUME NEW h, NEW u, Stands(h, u), NEW c \in Pcb, ~Linked(u, p_list(c))
  PROVE  /\ Stands(freePcb(h, c), FreeIn(u, c))
         /\ \A y \in list_head \ Heads : ~Linked(u, y) /\ y # p_list(c) =>
              freePcb(h, c).next[y] = h.next[y] /\ freePcb(h, c).prev[y] = h.prev[y]
         /\ \A x \in Pcb : freePcb(h, c).next[p_child(x)] = h.next[p_child(x)]
<1> DEFINE g == freePcb(h, c)
           v == FreeIn(u, c)
<1>1. /\ pcbFree_h \in Heads /\ p_list(c) \in list_head \ Heads
      /\ p_list(c).at = Field(pcbFree_h)
  BY Fields DEF ProcQ, pcbFree_h, p_list
<1>2. Stands(g, v)
  BY <1>1, StandsAdded DEF freePcb, FreeIn
<1>3. ASSUME NEW y \in list_head \ Heads, ~Linked(u, y), y # p_list(c)
      PROVE  g.next[y] = h.next[y] /\ g.prev[y] = h.prev[y]
  BY <1>1, <1>3, LooseKept DEF freePcb
<1>4. ASSUME NEW x \in Pcb
      PROVE  g.next[p_child(x)] = h.next[p_child(x)]
  <2>1. p_child(x) \in Heads /\ p_child(x) # pcbFree_h
    BY Fields DEF p_child, pcbFree_h, head_of
  <2>2. v[p_child(x)] = u[p_child(x)]
    BY <2>1, ListIs DEF FreeIn
  <2> HIDE DEF g, v
  <2> QED
    BY <1>2, <2>1, <2>2, HeadKept
<1> HIDE DEF g
<1> QED
  BY <1>2, <1>3, <1>4 DEF g

\* The lists with one PCB more that is free.
LEMMA KillListsFreed ==
  ASSUME NEW h, NEW s, Stands(h, s), NEW freed \in Seq(Pcb), NEW gone, NEW c \in Pcb,
         NEW v, v = KillLists(s, freed, gone)
  PROVE  KillLists(s, Append(freed, c), gone) = FreeIn(QueueOut(v, c), c)
<1> DEFINE f == Append(freed, c)
           w == KillLists(s, f, gone)
           u == FreeIn(QueueOut(v, c), c)
<1>1. /\ pcbFree_h \in Heads /\ pseudoClockQueue \in Heads /\ pcbFree_h # pseudoClockQueue
      /\ pcbFree_h.at # "p_child" /\ pseudoClockQueue.at # "p_child"
  BY Fields DEF pcbFree_h, pseudoClockQueue, head_of, ProcQ
<1>2. f \in Seq(Pcb) /\ ToSet(f) = ToSet(freed) \cup {c}
  BY AppendAdds
<1>3. DOMAIN v = Heads /\ DOMAIN w = Heads /\ DOMAIN u = Heads
      /\ \A l \in Heads : l.at = "p_child" => w[l] = v[l]
  <2>1. DOMAIN v = Heads /\ DOMAIN w = Heads
    BY DEF KillLists
  <2>2. \A l \in Heads : l.at = "p_child" => w[l] = v[l]
    BY <1>1 DEF KillLists
  <2> QED
    BY <2>1, <2>2 DEF FreeIn, QueueOut
<1>4. /\ v[pcbFree_h] = s[pcbFree_h] \o PLists(freed)
      /\ v[pseudoClockQueue] = Without(s[pseudoClockQueue], PList(ToSet(freed)))
      /\ \A l \in Heads : l.at # "p_child" /\ l \notin {pcbFree_h, pseudoClockQueue} => v[l] = s[l]
  BY KillListsAre
<1> HIDE DEF f
<1>5. /\ w[pcbFree_h] = s[pcbFree_h] \o PLists(f)
      /\ w[pseudoClockQueue] = Without(s[pseudoClockQueue], PList(ToSet(f)))
      /\ \A l \in Heads : l.at # "p_child" /\ l \notin {pcbFree_h, pseudoClockQueue} => w[l] = s[l]
  BY <1>1 DEF KillLists
<1>6. /\ u[pcbFree_h] = Append(v[pcbFree_h], p_list(c))
      /\ u[pseudoClockQueue] = Without(v[pseudoClockQueue], {p_list(c)})
      /\ \A l \in Heads : l \notin {pcbFree_h, pseudoClockQueue} => u[l] = v[l]
  BY <1>1, <1>3 DEF FreeIn, QueueOut
<1> HIDE DEF u, w
<1>7. w[pcbFree_h] = u[pcbFree_h]
  <2>1. PLists(f) = Append(PLists(freed), p_list(c)) /\ PLists(freed) \in Seq(list_head)
    <3>1. Len(freed) \in Nat /\ DOMAIN freed = 1..Len(freed) /\ \A i \in 1..Len(freed) : freed[i] \in Pcb
      BY LenProperties, ElementOfSeq
    <3>2. /\ Len(f) = Len(freed) + 1 /\ DOMAIN f = 1..(Len(freed) + 1)
          /\ \A i \in 1..(Len(freed) + 1) : f[i] = IF i = Len(freed) + 1 THEN c ELSE freed[i]
      BY <3>1, AppendProperties DEF f
    <3>3. PLists(freed) \in [1..Len(freed) -> list_head]
      BY <3>1, Fields DEF PLists
    <3>4. PLists(freed) \in Seq(list_head) /\ Len(PLists(freed)) = Len(freed)
      <4>1. PLists(freed) \in Seq(list_head)
        BY <3>1, <3>3, SeqDef
      <4> QED
        BY <3>1, <3>3, <4>1, LenProperties
    <3>5. DOMAIN PLists(f) = 1..(Len(freed) + 1)
          /\ \A i \in 1..(Len(freed) + 1) : PLists(f)[i] = p_list(f[i])
      BY <3>2 DEF PLists
    <3>8. \A i \in 1..Len(freed) : PLists(freed)[i] = p_list(freed[i])
      BY <3>1 DEF PLists
    <3> DEFINE a == PLists(freed)
               b == PLists(f)
               d == Append(a, p_list(c))
    <3>6. p_list(c) \in list_head
      BY Fields
    <3>7. DOMAIN d = 1..(Len(freed) + 1)
          /\ \A i \in 1..(Len(freed) + 1) : d[i] = IF i = Len(freed) + 1 THEN p_list(c) ELSE a[i]
      <4> HIDE DEF a
      <4>1. a \in Seq(list_head) /\ Len(a) = Len(freed)
        BY <3>4 DEF a
      <4> QED
        BY <3>1, <3>6, <4>1, AppendProperties
    <3>9. b = [i \in DOMAIN b |-> b[i]] /\ d = [i \in DOMAIN d |-> d[i]]
      <4>1. b = [i \in DOMAIN b |-> b[i]]
        BY DEF PLists
      <4>2. d \in Seq(list_head)
        BY <3>4, <3>6, AppendProperties
      <4>3. d \in [1..Len(d) -> list_head] /\ DOMAIN d = 1..Len(d)
        <5> HIDE DEF d
        <5> QED
          BY <4>2, LenProperties
      <4> HIDE DEF d
      <4> QED
        BY <4>1, <4>3
    <3> HIDE DEF a, b, d
    <3>10. \A i \in 1..(Len(freed) + 1) : b[i] = d[i]
      <4> TAKE i \in 1..(Len(freed) + 1)
      <4>1. CASE i = Len(freed) + 1
        BY <3>2, <3>5, <3>7, <4>1 DEF b
      <4>2. CASE i # Len(freed) + 1
        <5>1. i \in 1..Len(freed)
          BY <3>1, <4>2
        <5> QED
          BY <3>2, <3>5, <3>7, <3>8, <4>2, <5>1 DEF a, b
      <4> QED
        BY <4>1, <4>2
    <3>11. b = d
      BY <3>5, <3>7, <3>9, <3>10 DEF b
    <3> QED
      BY <3>4, <3>11 DEF a, b, d
  <2>2. s[pcbFree_h] \in Seq(list_head)
    <3>1. s[pcbFree_h] \in Seq(list_head \ Heads)
      BY <1>1, ListIs
    <3> QED
      BY <3>1
  <2> DEFINE a == PLists(freed)
             r == s[pcbFree_h]
  <2>3. p_list(c) \in list_head
    BY Fields
  <2>4. r \o Append(a, p_list(c)) = Append(r \o a, p_list(c))
    <3> HIDE DEF a, r
    <3>1. a \in Seq(list_head) /\ r \in Seq(list_head)
      BY <2>1, <2>2 DEF a, r
    <3> QED
      BY <2>3, <3>1, AppendIsConcat, ConcatAssociative, ConcatProperties
  <2> QED
    BY <1>4, <1>5, <1>6, <2>1, <2>4
<1>8. w[pseudoClockQueue] = u[pseudoClockQueue]
  <2>1. PList(ToSet(f)) = PList(ToSet(freed)) \cup {p_list(c)}
    BY <1>2 DEF PList
  <2>2. s[pseudoClockQueue] \in Seq(list_head \ Heads)
    BY <1>1, ListIs
  <2> DEFINE r == s[pseudoClockQueue]
             K == PList(ToSet(freed))
  <2>3. r \in Seq(list_head \ Heads)
    BY <2>2
  <2> HIDE DEF r, K
  <2>4. Without(Without(r, K), {p_list(c)}) = Without(r, K \cup {p_list(c)})
    BY <2>3, WithoutTwice
  <2> QED
    BY <1>4, <1>5, <1>6, <2>1, <2>4 DEF r, K
<1>9. \A l \in Heads : w[l] = u[l]
  <2> TAKE l \in Heads
  <2>1. CASE l \in {pcbFree_h, pseudoClockQueue}
    BY <1>7, <1>8, <2>1
  <2>2. CASE l \notin {pcbFree_h, pseudoClockQueue}
    BY <1>3, <1>4, <1>5, <1>6, <2>2
  <2> QED
    BY <2>1, <2>2
<1>10. w = [l \in Heads |-> w[l]] /\ u = [l \in Heads |-> u[l]]
  <2>1. w = [l \in Heads |-> w[l]] /\ v = [l \in Heads |-> v[l]]
    BY DEF w, KillLists
  <2>2. u = [l \in DOMAIN v |-> u[l]]
    BY DEF u, FreeIn, QueueOut
  <2> QED
    BY <1>3, <2>1, <2>2
<1> QED
  BY <1>9, <1>10 DEF f, w, u
\* What becomes of the lists when a PCB without children left is unlinked and freed.
Popped(g, s, k, p, top) ==
  /\ Stands(g, KillLists(s, Append(k.freed, top), Gone(k, p) \cup {top}))
  /\ top # p =>
       /\ \A y \in ToSet(k.stack) \ {p} :
            g.next[p_sib(y)] = k.heap.next[p_sib(y)] /\ g.prev[p_sib(y)] = k.heap.prev[p_sib(y)]
       /\ \A x \in Pcb : g.next[p_child(x)] = k.heap.next[p_child(x)]

\* terminateProcess() frees the PCB on the stack: its lists are those without it.
LEMMA KillPopsLists ==
  ASSUME NEW h, NEW s, Stands(h, s), NEW par \in [Pcb -> Pcb \cup {NULL}], NULL \notin Pcb,
         IsFiniteSet(list_head), Tree(s, par),
         NEW p, NEW D, Doomed(s, par, p, D), NEW k, Killing(k, s, par, p, D),
         k.stack # <<>>, NEW top, top = Head(k.stack),
         NEW f, f = outProcQ(k.heap, pseudoClockQueue, top), NEW e, e = outChild(f, k.parent, top)
  PROVE  Popped(freePcb(e, top), s, k, p, top)
<1> DEFINE t == KillLists(s, k.freed, Gone(k, p))
           v == KillLists(s, k.freed, Gone(k, p) \cup {top})
           hh == k.heap
<1>1. /\ k.freed \in Seq(Pcb) /\ Gone(k, p) \in SUBSET Pcb /\ p \in Pcb
      /\ ToSet(k.stack) \subseteq Pcb /\ ToSet(k.stack) \cap ToSet(k.freed) = {}
      /\ Len(k.stack) \in Nat /\ Len(k.stack) >= 1 /\ \A i \in 1..Len(k.stack) : k.stack[i] \in Pcb
      /\ top = k.stack[1] /\ top \in ToSet(k.stack) /\ top \in Pcb /\ p \in ToSet(k.stack)
      /\ k.stack[Len(k.stack)] = p
  <2>1. /\ k.freed \in Seq(Pcb) /\ Gone(k, p) \in SUBSET Pcb /\ p \in Pcb
        /\ ToSet(k.stack) \subseteq Pcb /\ ToSet(k.stack) \cap ToSet(k.freed) = {}
        /\ Len(k.stack) \in Nat /\ \A i \in 1..Len(k.stack) : k.stack[i] \in Pcb
    BY KillingTypes
  <2>2. /\ Len(k.stack) >= 1 /\ top = k.stack[1] /\ top \in ToSet(k.stack) /\ top \in Pcb
        /\ p \in ToSet(k.stack) /\ k.stack[Len(k.stack)] = p
    BY KillingStack
  <2> QED
    BY <2>1, <2>2
<1>2. Stands(hh, t)
  BY DEF Killing
<1>3. /\ \A y \in Gone(k, p) : p_sib(y) \in list_head \ Heads /\ ~Linked(t, p_sib(y))
      /\ p_list(top) \in list_head \ Heads
      /\ \A l \in Heads \ {pseudoClockQueue} : p_list(top) \notin ToSet(t[l])
  BY <1>1, KillingLoose
<1>4. k.parent[top] = par[top]
  BY <1>1 DEF Killing
<1>5. \A y \in ToSet(k.stack) \ {p} : y \in Gone(k, p)
  BY DEF Gone
<1>20. t = KillLists(s, k.freed, Gone(k, p)) /\ v = KillLists(s, k.freed, Gone(k, p) \cup {top})
  OBVIOUS
<1>21. Gone(k, p) \cup {top} \in SUBSET Pcb
  BY <1>1
<1>22. \A x \in Pcb : ToSet(t[p_child(x)]) = ToSet(s[p_child(x)]) \ PSib(Gone(k, p))
  BY KillChildrenAre
<1> HIDE DEF t, v
<1>6. Stands(f, QueueOut(t, top)) /\ Untouched(f, hh, t)
  <2>1. f = outProcQ(hh, pseudoClockQueue, top)
    OBVIOUS
  <2> HIDE DEF hh
  <2> QED
    BY <1>1, <1>2, <2>1, ClockLeft
<1>7. ASSUME top # p
      PROVE  e = f /\ v = t
  <2>1. 1 \in 1..(Len(k.stack) - 1)
    <3>1. Len(k.stack) # 1
      BY <1>1, <1>7
    <3> DEFINE n == Len(k.stack)
    <3>2. n \in Nat /\ n >= 1 /\ n # 1
      BY <1>1, <3>1
    <3> HIDE DEF n
    <3>3. 1 \in 1..(n - 1)
      BY <3>2
    <3> QED
      BY <3>3 DEF n
  <2>2. /\ par[k.stack[1]] = k.stack[1 + 1]
        /\ k.heap.prev[p_sib(k.stack[1])] = p_child(k.stack[1 + 1])
        /\ k.heap.next[p_sib(k.stack[1])] = k.heap.next[p_child(k.stack[1 + 1])]
    BY <2>1, KillingStack
  <2> DEFINE x == k.stack[1 + 1]
  <2>3. x \in Pcb /\ par[top] = x /\ StaleChild(k.heap, top, x)
    <3>1. x \in Pcb
      BY <1>1, <2>1
    <3> QED
      BY <1>1, <2>2, <3>1 DEF StaleChild
  <2> HIDE DEF x
  <2>4. top \in Gone(k, p)
    BY <1>1, <1>5, <1>7
  <2>5. StaleChild(f, top, x)
    BY <1>3, <1>6, <2>3, <2>4 DEF StaleChild, Untouched
  <2>6. outChild(f, k.parent, top) = f
    <3> DEFINE pp == k.parent
    <3>1. pp[top] = x
      BY <1>4, <2>3
    <3> HIDE DEF pp
    <3>2. outChild(f, pp, top) = f
      BY <1>1, <1>6, <2>3, <2>5, <3>1, ChildLeft
    <3> QED
      BY <3>2 DEF pp
  <2>7. Gone(k, p) \cup {top} = Gone(k, p)
    BY <2>4
  <2> QED
    BY <1>20, <2>6, <2>7
<1>8. Stands(e, QueueOut(v, top))
  <2>1. CASE top # p
    BY <1>6, <1>7, <2>1
  <2>2. CASE top = p /\ par[top] \notin Pcb
    <3> DEFINE pp == k.parent
    <3>1. pp[top] = NULL
      BY <1>1, <1>4, <2>2
    <3> HIDE DEF pp
    <3>2. outChild(f, pp, top) = f
      BY <1>1, <1>6, <3>1, ChildLeft
    <3>3. \A x \in Pcb : p_sib(top) \notin ToSet(s[p_child(x)])
      BY <1>1, <2>2 DEF Tree
    <3>4. v = t
      BY <1>1, <1>20, <3>3, SiblingGone
    <3> QED
      BY <1>6, <3>2, <3>4 DEF pp
  <2>3. CASE top = p /\ par[top] \in Pcb
    <3> DEFINE pp == k.parent
               x == par[top]
               t1 == QueueOut(t, top)
    <3>1. pp[top] = x /\ x \in Pcb /\ p_sib(top) \in ToSet(s[p_child(x)])
      BY <1>1, <1>4, <2>3 DEF Tree
    <3> HIDE DEF pp, x
    <3>2. v = ChildOut(t, x, top)
      BY <1>1, <1>20, <3>1, SiblingGone
    <3>3. p_sib(top) \in ToSet(t[p_child(x)])
      <4>1. top \notin Gone(k, p)
        BY <1>1, <2>3 DEF Gone
      <4>2. p_sib(top) \notin PSib(Gone(k, p))
        BY <4>1 DEF PSib, p_sib
      <4>3. ToSet(t[p_child(x)]) = ToSet(s[p_child(x)]) \ PSib(Gone(k, p))
        BY <1>22, <3>1
      <4> QED
        BY <3>1, <4>2, <4>3
    <3>4. p_child(x) \in Heads /\ pseudoClockQueue \in Heads /\ p_child(x) # pseudoClockQueue
          /\ DOMAIN t = Heads
      BY <1>2, <3>1, Fields, ListIs DEF p_child, pseudoClockQueue, head_of, ProcQ
    <3>5. p_sib(top) \in ToSet(t1[p_child(x)])
      BY <3>3, <3>4 DEF QueueOut
    <3>6. t1 = QueueOut(t, top)
      OBVIOUS
    <3> HIDE DEF t1
    <3>7. Stands(outChild(f, pp, top), ChildOut(t1, x, top))
      BY <1>1, <1>6, <3>1, <3>5, <3>6, ChildLeft
    <3>8. ChildOut(t1, x, top) = QueueOut(v, top)
      BY <3>2, <3>4, <3>6 DEF ChildOut, QueueOut
    <3> QED
      BY <3>7, <3>8 DEF pp
  <2> QED
    BY <2>1, <2>2, <2>3
<1>9. ~Linked(QueueOut(v, top), p_list(top))
  <2> SUFFICES ASSUME NEW l \in Heads, p_list(top) \in ToSet(QueueOut(v, top)[l])
               PROVE  FALSE
    BY DEF Linked
  <2>1. pseudoClockQueue \in Heads /\ pseudoClockQueue.at # "p_child"
    BY Fields DEF pseudoClockQueue, head_of, ProcQ
  <2>2. l.at # "p_child"
    <3>1. p_list(top).at = Field(l)
      BY <1>8, ListIs
    <3> QED
      BY <3>1 DEF Field, p_list
  <2>3. CASE l = pseudoClockQueue
    <3>1. v[l] \in Seq(list_head)
      BY <1>1, <1>20, <2>1, <2>3, KillListsAre
    <3>2. QueueOut(v, top)[l] = Without(v[l], {p_list(top)})
      BY <1>20, <2>1, <2>3 DEF QueueOut, KillLists
    <3> QED
      BY <3>1, <3>2, WithoutKeepsOthers
  <2>4. CASE l # pseudoClockQueue
    <3>1. QueueOut(v, top)[l] = v[l]
      BY <1>20, <2>1, <2>4 DEF QueueOut, KillLists
    <3>2. v[l] = t[l]
      BY <1>20, <2>2 DEF KillLists
    <3> QED
      BY <1>3, <2>4, <3>1, <3>2
  <2> QED
    BY <2>3, <2>4
<1> DEFINE u == QueueOut(v, top)
<1>10. u = QueueOut(v, top)
  OBVIOUS
<1> HIDE DEF u
<1>11. /\ Stands(freePcb(e, top), FreeIn(u, top))
       /\ \A y \in list_head \ Heads : ~Linked(u, y) /\ y # p_list(top) =>
            freePcb(e, top).next[y] = e.next[y] /\ freePcb(e, top).prev[y] = e.prev[y]
       /\ \A x \in Pcb : freePcb(e, top).next[p_child(x)] = e.next[p_child(x)]
  <2>1. Stands(e, u) /\ ~Linked(u, p_list(top)) /\ top \in Pcb
    BY <1>1, <1>8, <1>9, <1>10
  <2> QED
    BY <2>1, PcbFreed
<1>12. FreeIn(u, top) = KillLists(s, Append(k.freed, top), Gone(k, p) \cup {top})
  BY <1>1, <1>10, <1>20, KillListsFreed
<1>13. ASSUME top # p, NEW y \in ToSet(k.stack) \ {p}
       PROVE  /\ freePcb(e, top).next[p_sib(y)] = k.heap.next[p_sib(y)]
              /\ freePcb(e, top).prev[p_sib(y)] = k.heap.prev[p_sib(y)]
  <2>1. p_sib(y) \in list_head \ Heads /\ ~Linked(t, p_sib(y)) /\ p_sib(y) # p_list(top)
    BY <1>3, <1>5 DEF p_sib, p_list
  <2>2. ~Linked(u, p_sib(y))
    <3>1. \A l \in Heads : ToSet(QueueOut(t, top)[l]) \subseteq ToSet(t[l])
      <4> TAKE l \in Heads
      <4>1. DOMAIN t = Heads /\ t[l] \in Seq(list_head \ Heads)
        BY <1>2, ListIs
      <4>2. ToSet(Without(t[l], {p_list(top)})) = ToSet(t[l]) \ {p_list(top)}
        BY <4>1, WithoutKeepsOthers
      <4> QED
        BY <4>1, <4>2 DEF QueueOut
    <3> QED
      BY <1>7, <1>10, <1>13, <2>1, <3>1 DEF Linked
  <2>3. e = f
    BY <1>7, <1>13
  <2> QED
    BY <1>6, <1>11, <2>1, <2>2, <2>3 DEF Untouched
<1>14. ASSUME top # p, NEW x \in Pcb
       PROVE  freePcb(e, top).next[p_child(x)] = k.heap.next[p_child(x)]
  BY <1>6, <1>7, <1>11, <1>14 DEF Untouched
<1> QED
  BY <1>11, <1>12, <1>13, <1>14 DEF Popped

\* The rest of the stack, when the PCB on it has no children left.
LEMMA KillPops ==
  ASSUME NEW h, NEW s, Stands(h, s), NEW par \in [Pcb -> Pcb \cup {NULL}], NULL \notin Pcb,
         IsFiniteSet(list_head), Tree(s, par),
         NEW p, NEW D, Doomed(s, par, p, D), NEW k, Killing(k, s, par, p, D),
         k.stack # <<>>, emptyChild(k.heap, Head(k.stack))
  PROVE  /\ Killing(Kill(k), s, par, p, D)
         /\ Len(Kill(k).stack) = Len(k.stack) - 1 /\ Kill(k).freed = Append(k.freed, Head(k.stack))
<1> DEFINE top == Head(k.stack)
           f == outProcQ(k.heap, pseudoClockQueue, top)
           e == outChild(f, k.parent, top)
           g == freePcb(e, top)
           r == Tail(k.stack)
           w == IF OnList(k.heap, p_list(top), pseudoClockQueue) THEN k.awake + 1 ELSE k.awake
           q == [k.parent EXCEPT ![top] = NULL]
           z == Append(k.freed, top)
           m == [heap |-> g, parent |-> q, stack |-> r, freed |-> z, awake |-> w]
           t == KillLists(s, k.freed, Gone(k, p))
<1>1. /\ k.freed \in Seq(Pcb) /\ Gone(k, p) \in SUBSET Pcb /\ p \in Pcb /\ k.stack \in Seq(Pcb)
      /\ ToSet(k.stack) \subseteq D /\ ToSet(k.freed) \subseteq D
      /\ ToSet(k.stack) \cap ToSet(k.freed) = {} /\ k.awake \in Nat
      /\ k.parent \in [Pcb -> Pcb \cup {NULL}]
  BY KillingTypes
<1>2. /\ Len(k.stack) \in Nat /\ DOMAIN k.stack = 1..Len(k.stack)
      /\ \A i \in 1..Len(k.stack) : k.stack[i] \in Pcb
  BY KillingTypes
<1>3. /\ Len(k.stack) >= 1 /\ top = k.stack[1] /\ top \in ToSet(k.stack) /\ top \in Pcb
      /\ p \in ToSet(k.stack) /\ k.stack[Len(k.stack)] = p
  BY KillingStack
<1>4. /\ \A i, j \in 1..Len(k.stack) : k.stack[i] = k.stack[j] => i = j
      /\ \A i \in 1..(Len(k.stack) - 1) :
           /\ par[k.stack[i]] = k.stack[i + 1]
           /\ k.heap.prev[p_sib(k.stack[i])] = p_child(k.stack[i + 1])
           /\ k.heap.next[p_sib(k.stack[i])] = k.heap.next[p_child(k.stack[i + 1])]
  BY KillingStack
<1>5. /\ IsInjective(k.stack) /\ IsInjective(k.freed)
      /\ \A x \in Pcb : k.parent[x] = IF x \in ToSet(k.freed) THEN NULL ELSE par[x]
      /\ \A c \in Pcb : par[c] \in ToSet(k.freed) => c \in ToSet(k.freed)
      /\ k = [heap |-> k.heap, parent |-> k.parent, stack |-> k.stack, freed |-> k.freed,
              awake |-> k.awake]
  BY DEF Killing
<1>6. Kill(k) = m
  BY <1>5 DEF Kill
<1>7. /\ Stands(g, KillLists(s, z, Gone(k, p) \cup {top}))
      /\ top # p =>
           /\ \A y \in ToSet(k.stack) \ {p} :
                g.next[p_sib(y)] = k.heap.next[p_sib(y)] /\ g.prev[p_sib(y)] = k.heap.prev[p_sib(y)]
           /\ \A x \in Pcb : g.next[p_child(x)] = k.heap.next[p_child(x)]
  <2>1. /\ top = Head(k.stack) /\ f = outProcQ(k.heap, pseudoClockQueue, top)
        /\ e = outChild(f, k.parent, top)
    OBVIOUS
  <2> HIDE DEF top, f, e, t
  <2>2. Popped(freePcb(e, top), s, k, p, top)
    BY <2>1, KillPopsLists
  <2> QED
    BY <2>2 DEF Popped
<1>8. \A c \in Pcb : par[c] = top => c \in Gone(k, p)
  <2> TAKE c \in Pcb
  <2> HAVE par[c] = top
  <2>1. Stands(k.heap, t)
    BY DEF Killing
  <2>2. p_child(top) \in Heads
    BY <1>3, Fields
  <2>3. t[p_child(top)] = <<>>
    <3> HIDE DEF t
    <3> QED
      BY <2>1, <2>2, ListRead DEF emptyChild
  <2>4. ToSet(t[p_child(top)]) = ToSet(s[p_child(top)]) \ PSib(Gone(k, p))
    BY <1>3, KillChildrenAre
  <2>5. p_sib(c) \in ToSet(s[p_child(top)])
    BY <1>3 DEF Tree
  <2>6. p_sib(c) \in PSib(Gone(k, p))
    BY <2>3, <2>4, <2>5 DEF ToSet
  <2> QED
    BY <2>6 DEF PSib, p_sib
<1> HIDE DEF top, g
<1>9. \A c \in Pcb : par[c] = top => c \in ToSet(k.freed)
  <2> TAKE c \in Pcb
  <2> HAVE par[c] = top
  <2>1. c \in ToSet(k.freed) \/ (c \in ToSet(k.stack) /\ c # p)
    BY <1>8 DEF Gone
  <2>2. ASSUME c \in ToSet(k.stack), c # p
        PROVE  FALSE
    <3> DEFINE n == Len(k.stack)
    <3>1. PICK i \in 1..n : k.stack[i] = c
      BY <1>2, <2>2 DEF ToSet
    <3>2. i # n /\ n \in Nat /\ i \in 1..n
      BY <1>2, <1>3, <2>2, <3>1
    <3> HIDE DEF n
    <3>3. i \in 1..(n - 1) /\ i + 1 \in 1..n /\ 1 \in 1..n /\ i + 1 # 1
      BY <3>2
    <3>4. k.stack[i + 1] = k.stack[1]
      BY <1>3, <1>4, <3>1, <3>3 DEF n
    <3> QED
      BY <1>4, <3>3, <3>4 DEF n
  <2> QED
    BY <2>1, <2>2
<1>10. /\ z \in Seq(Pcb) /\ ToSet(z) = ToSet(k.freed) \cup {top} /\ IsInjective(z)
  <2> DEFINE a == k.freed
  <2>1. a \in Seq(Pcb) /\ top \in Pcb /\ IsInjective(a) /\ top \notin ToSet(a)
    BY <1>1, <1>3, <1>5
  <2> HIDE DEF a
  <2>2. /\ Append(a, top) \in Seq(Pcb) /\ ToSet(Append(a, top)) = ToSet(a) \cup {top}
        /\ IsInjective(Append(a, top))
    BY <2>1, AppendAdds, AppendDistinct
  <2> QED
    BY <2>2 DEF a
<1>11. /\ r \in Seq(Pcb) /\ ToSet(k.stack) = ToSet(r) \cup {top} /\ IsInjective(r)
       /\ top \notin ToSet(r) /\ Len(r) = Len(k.stack) - 1
       /\ \A i \in 1..(Len(k.stack) - 1) : r[i] = k.stack[i + 1]
  <2> DEFINE a == k.stack
  <2>1. a \in Seq(Pcb) /\ a # <<>> /\ IsInjective(a)
    BY <1>1, <1>5
  <2> HIDE DEF a
  <2>2. /\ Tail(a) \in Seq(Pcb) /\ ToSet(a) = ToSet(Tail(a)) \cup {Head(a)} /\ IsInjective(Tail(a))
        /\ Head(a) \notin ToSet(Tail(a))
    BY <2>1, HeadTaken, TailDistinct
  <2>3. Len(Tail(a)) = Len(a) - 1 /\ \A i \in 1..(Len(a) - 1) : Tail(a)[i] = a[i + 1]
    BY <2>1, HeadTailProperties
  <2> QED
    BY <2>2, <2>3 DEF a, top
<1> HIDE DEF z, r, w, q
<1>12. Gone(m, p) = Gone(k, p) \cup {top}
  <2>1. m.freed = z /\ m.stack = r
    OBVIOUS
  <2>2. (ToSet(r) \ {p}) \cup {top} = (ToSet(k.stack) \ {p}) \cup {top}
    BY <1>11
  <2> HIDE DEF m
  <2> QED
    BY <1>10, <2>1, <2>2 DEF Gone
<1>13. /\ r = <<>> => p = top
       /\ r # <<>> => r[Len(r)] = p
       /\ \A i \in 1..(Len(r) - 1) : par[r[i]] = r[i + 1]
  <2> DEFINE n == Len(k.stack)
  <2>1. n \in Nat /\ n >= 1 /\ Len(r) = n - 1 /\ \A i \in 1..(n - 1) : r[i] = k.stack[i + 1]
    BY <1>2, <1>3, <1>11
  <2>2. r # <<>> <=> Len(r) # 0
    BY <1>11, EmptySeq
  <2>3. top = k.stack[1] /\ k.stack[n] = p
        /\ \A i \in 1..(n - 1) : par[k.stack[i]] = k.stack[i + 1]
    BY <1>3, <1>4
  <2> HIDE DEF n
  <2>4. ASSUME r = <<>> PROVE p = top
    <3>1. n = 1
      BY <2>1, <2>2, <2>4
    <3> QED
      BY <2>3, <3>1
  <2>5. ASSUME r # <<>> PROVE r[Len(r)] = p
    <3>1. n - 1 \in 1..(n - 1) /\ (n - 1) + 1 = n
      BY <2>1, <2>2, <2>5
    <3>2. r[n - 1] = k.stack[(n - 1) + 1]
      BY <2>1, <3>1
    <3> QED
      BY <2>1, <2>3, <3>1, <3>2
  <2>6. ASSUME NEW i \in 1..(Len(r) - 1) PROVE par[r[i]] = r[i + 1]
    <3>1. i \in 1..(n - 1) /\ i + 1 \in 1..(n - 1)
      BY <2>1
    <3>2. r[i] = k.stack[i + 1] /\ r[i + 1] = k.stack[(i + 1) + 1]
      BY <2>1, <3>1
    <3> QED
      BY <2>3, <3>1, <3>2
  <2> QED
    BY <2>4, <2>5, <2>6
<1>14. Stale(g, r)
  <2> SUFFICES ASSUME NEW i \in 1..(Len(r) - 1)
               PROVE  /\ g.prev[p_sib(r[i])] = p_child(r[i + 1])
                      /\ g.next[p_sib(r[i])] = g.next[p_child(r[i + 1])]
    BY DEF Stale
  <2> DEFINE n == Len(k.stack)
  <2>1. n \in Nat /\ n >= 1 /\ Len(r) = n - 1
    BY <1>2, <1>3, <1>11
  <2> HIDE DEF n
  <2>2. /\ i \in 1..(n - 1) /\ i + 1 \in 1..(n - 1) /\ (i + 1) \in 1..n /\ (i + 1) + 1 \in 1..n
        /\ i + 1 # n /\ n \in 1..n /\ 1 \in 1..n /\ 1 # n
    BY <2>1
  <2> DEFINE y == k.stack[i + 1]
             x == k.stack[(i + 1) + 1]
  <2>3. r[i] = y /\ r[i + 1] = x
    BY <1>11, <2>2 DEF n
  <2>4. top # p /\ y # p
    BY <1>3, <1>4, <2>2 DEF n
  <2>5. y \in ToSet(k.stack) /\ x \in Pcb
    BY <1>2, <2>2 DEF n, ToSet
  <2>6. k.heap.prev[p_sib(y)] = p_child(x) /\ k.heap.next[p_sib(y)] = k.heap.next[p_child(x)]
    BY <1>4, <2>2 DEF n
  <2> HIDE DEF x, y
  <2> QED
    BY <1>7, <2>3, <2>4, <2>5, <2>6
<1>15. Killing(m, s, par, p, D)
  <2>1. m.heap = g /\ m.parent = q /\ m.stack = r /\ m.freed = z /\ m.awake = w
    OBVIOUS
  <2>2. Stands(g, KillLists(s, z, Gone(k, p) \cup {top}))
    BY <1>7 DEF z
  <2>3. g \in Heap
    BY <2>2 DEF Stands, Holds
  <2>4. q \in [Pcb -> Pcb \cup {NULL}]
        /\ \A x \in Pcb : q[x] = IF x \in ToSet(z) THEN NULL ELSE par[x]
    BY <1>1, <1>3, <1>5, <1>10 DEF q
  <2>5. w \in Nat
    BY <1>1 DEF w
  <2>6. m \in [heap : Heap, parent : [Pcb -> Pcb \cup {NULL}], stack : Seq(Pcb), freed : Seq(Pcb),
               awake : Nat]
    BY <1>10, <1>11, <2>3, <2>4, <2>5
  <2> HIDE DEF m
  <2>7. Stands(m.heap, KillLists(s, m.freed, Gone(m, p)))
    BY <1>12, <2>1, <2>2
  <2>8. /\ ToSet(r) \subseteq D /\ ToSet(z) \subseteq D /\ ToSet(r) \cap ToSet(z) = {}
        /\ r = <<>> => p \in ToSet(z)
        /\ \A c \in Pcb : par[c] \in ToSet(z) => c \in ToSet(z)
    BY <1>1, <1>3, <1>5, <1>9, <1>10, <1>11, <1>13
  <2> QED
    BY <1>10, <1>11, <1>13, <1>14, <2>1, <2>4, <2>6, <2>7, <2>8 DEF Killing
<1> QED
  BY <1>6, <1>11, <1>15 DEF z, top

\* Before the first PCB is looked at.
Begun(h, par, p) == [heap |-> h, parent |-> par, stack |-> <<p>>, freed |-> <<>>, awake |-> 0]

\* Then the PCB is on the stack, and nothing has gone.
LEMMA KillingStarts ==
  ASSUME NEW h, NEW s, Stands(h, s), NEW par \in [Pcb -> Pcb \cup {NULL}], NULL \notin Pcb,
         NEW p, NEW D, Doomed(s, par, p, D)
  PROVE  Killing(Begun(h, par, p), s, par, p, D)
<1> DEFINE k == Begun(h, par, p)
           one == <<p>>
           e == <<>>
<1>1. k.heap = h /\ k.parent = par /\ k.stack = one /\ k.freed = e /\ k.awake = 0
  BY DEF Begun
<1>2. /\ p \in Pcb /\ p \in D /\ h \in Heap
  BY DEF Doomed, Stands, Holds
<1>3. /\ e \in Seq(Pcb) /\ ToSet(e) = {} /\ IsInjective(e) /\ DOMAIN e = {}
  BY DEF ToSet, IsInjective
<1>4. /\ one \in Seq(Pcb) /\ Len(one) = 1 /\ one[1] = p /\ ToSet(one) = {p} /\ IsInjective(one)
      /\ one # <<>>
  BY <1>2 DEF ToSet, IsInjective
<1>5. k \in [heap : Heap, parent : [Pcb -> Pcb \cup {NULL}], stack : Seq(Pcb), freed : Seq(Pcb),
             awake : Nat]
  BY <1>2, <1>3, <1>4 DEF Begun
<1> HIDE DEF k, one, e
<1>6. Gone(k, p) = {}
  BY <1>1, <1>3, <1>4 DEF Gone
<1>7. KillLists(s, e, {}) = s
  <2>1. PLists(e) = <<>> /\ PList(ToSet(e)) = {} /\ PSib({}) = {}
    BY <1>3 DEF PLists, PList, PSib, e
  <2>2. ASSUME NEW l \in Heads
        PROVE  s[l] \o <<>> = s[l] /\ Without(s[l], {}) = s[l]
    <3>1. s[l] \in Seq(list_head \ Heads)
      BY ListIs
    <3>2. s[l] \o <<>> = s[l]
      BY <3>1, ConcatEmptySeq
    <3> QED
      BY <3>1, <3>2, WithoutNone
  <2>3. \A l \in Heads : KillLists(s, e, {})[l] = s[l]
    BY <2>1, <2>2 DEF KillLists
  <2>4. s = [l \in Heads |-> s[l]]
    BY DEF Stands, Holds
  <2> QED
    BY <2>3, <2>4 DEF KillLists
<1>8. Stale(k.heap, k.stack) /\ \A i \in 1..(Len(k.stack) - 1) : par[k.stack[i]] = k.stack[i + 1]
  BY <1>1, <1>4 DEF Stale
<1>9. Stands(k.heap, KillLists(s, k.freed, Gone(k, p)))
  BY <1>1, <1>6, <1>7
<1> QED
  BY <1>1, <1>2, <1>3, <1>4, <1>5, <1>8, <1>9 DEF Killing, k

\* A PCB is on the stack or freed, once.
LEMMA KillingFits ==
  ASSUME NEW s, NEW par, NEW p, NEW D, Doomed(s, par, p, D), NEW k, Killing(k, s, par, p, D),
         IsFiniteSet(Pcb)
  PROVE  /\ Len(k.stack) \in Nat /\ Len(k.freed) \in Nat /\ Cardinality(Pcb) \in Nat
         /\ Len(k.stack) + Len(k.freed) <= Cardinality(Pcb)
         /\ k.stack # <<>> => Len(k.stack) >= 1
<1> DEFINE a == k.stack
           b == k.freed
<1>1. /\ a \in Seq(Pcb) /\ b \in Seq(Pcb) /\ IsInjective(a) /\ IsInjective(b)
      /\ ToSet(a) \cap ToSet(b) = {} /\ ToSet(a) \subseteq Pcb /\ ToSet(b) \subseteq Pcb
      /\ Len(a) \in Nat
  <2>1. IsInjective(a) /\ IsInjective(b)
    BY DEF Killing
  <2> QED
    BY <2>1, KillingTypes
<1>5. k.stack # <<>> => Len(k.stack) >= 1
  BY KillingStack
<1> HIDE DEF a, b
<1>2. /\ IsFiniteSet(ToSet(a)) /\ Cardinality(ToSet(a)) = Len(a)
      /\ IsFiniteSet(ToSet(b)) /\ Cardinality(ToSet(b)) = Len(b)
  BY <1>1, LengthCounts
<1>3. /\ Cardinality(ToSet(a) \cup ToSet(b)) <= Cardinality(Pcb)
      /\ Cardinality(Pcb) \in Nat
  BY <1>1, FS_Subset, FS_CardinalityType
<1>4. Cardinality(ToSet(a) \cup ToSet(b)) =
        Cardinality(ToSet(a)) + Cardinality(ToSet(b)) - Cardinality(ToSet(a) \cap ToSet(b))
  BY <1>2, FS_Union
<1>6. Cardinality(ToSet(a) \cap ToSet(b)) = 0
  BY <1>1, FS_EmptySet
<1>7. Len(b) \in Nat
  BY <1>1, LenProperties
<1>8. Len(a) + Len(b) <= Cardinality(Pcb)
  BY <1>1, <1>2, <1>3, <1>4, <1>6, <1>7
<1> QED
  BY <1>1, <1>3, <1>5, <1>7, <1>8 DEF a, b

\* Each PCB is pushed once and popped once.
Work(k) == 2 * Len(k.freed) + Len(k.stack)

\* One step of it, which does nothing once the stack is empty and makes progress until then.
LEMMA KillingSteps ==
  ASSUME NEW h, NEW s, Stands(h, s), NEW par \in [Pcb -> Pcb \cup {NULL}], NULL \notin Pcb,
         IsFiniteSet(list_head), Tree(s, par), Acyclic(par),
         NEW p, NEW D, Doomed(s, par, p, D), NEW k, Killing(k, s, par, p, D)
  PROVE  /\ Killing(Kill(k), s, par, p, D)
         /\ k.stack = <<>> => Kill(k) = k
         /\ k.stack # <<>> => Work(Kill(k)) = Work(k) + 1
<1>1. CASE k.stack = <<>>
  BY <1>1 DEF Kill
<1>2. CASE k.stack # <<>> /\ ~emptyChild(k.heap, Head(k.stack))
  <2>1. /\ Killing(Kill(k), s, par, p, D)
        /\ Len(Kill(k).stack) = Len(k.stack) + 1 /\ Kill(k).freed = k.freed
    BY <1>2, KillPushes
  <2>2. Len(k.stack) \in Nat /\ Len(k.freed) \in Nat
    BY KillingTypes, LenProperties
  <2> DEFINE x == Len(k.freed)
             y == Len(k.stack)
  <2>3. Work(Kill(k)) = 2 * x + (y + 1) /\ Work(k) = 2 * x + y /\ x \in Nat /\ y \in Nat
    BY <2>1, <2>2 DEF Work
  <2> HIDE DEF x, y
  <2>4. Work(Kill(k)) = Work(k) + 1
    BY <2>3
  <2> QED
    BY <1>2, <2>1, <2>4
<1>3. CASE k.stack # <<>> /\ emptyChild(k.heap, Head(k.stack))
  <2>1. /\ Killing(Kill(k), s, par, p, D)
        /\ Len(Kill(k).stack) = Len(k.stack) - 1 /\ Kill(k).freed = Append(k.freed, Head(k.stack))
    BY <1>3, KillPops
  <2>2. Len(k.stack) \in Nat /\ k.freed \in Seq(Pcb) /\ Head(k.stack) \in Pcb
    BY <1>3, KillingTypes, KillingStack
  <2>3. Len(Append(k.freed, Head(k.stack))) = Len(k.freed) + 1 /\ Len(k.freed) \in Nat
    BY <2>2, AppendProperties, LenProperties
  <2> DEFINE x == Len(k.freed)
             y == Len(k.stack)
  <2>4. /\ Work(Kill(k)) = 2 * (x + 1) + (y - 1) /\ Work(k) = 2 * x + y /\ x \in Nat /\ y \in Nat
    BY <2>1, <2>2, <2>3 DEF Work
  <2> HIDE DEF x, y
  <2>5. Work(Kill(k)) = Work(k) + 1
    BY <2>4
  <2> QED
    BY <1>3, <2>1, <2>5
<1> QED
  BY <1>1, <1>2, <1>3

\* f[n] is what terminateProcess() has after n steps.
Kills(f, h, par, p) ==
  f[0] = Begun(h, par, p) /\ \A n \in Nat : f[n + 1] = Kill(f[n])

\* The recursion of Terminated has a solution.
LEMMA TerminatedSteps ==
  ASSUME NEW h, NEW s, Stands(h, s), NEW par \in [Pcb -> Pcb \cup {NULL}], NULL \notin Pcb,
         IsFiniteSet(list_head), Tree(s, par), Acyclic(par),
         NEW p, NEW D, Doomed(s, par, p, D)
  PROVE  \E f : Kills(f, h, par, p) /\ Terminated(h, par, p) = f[2 * Cardinality(Pcb)]
<1> DEFINE S == {k \in [heap : Heap, parent : [Pcb -> Pcb \cup {NULL}], stack : Seq(Pcb),
                        freed : Seq(Pcb), awake : Nat] : Killing(k, s, par, p, D)}
           a == Begun(h, par, p)
           G == [n \in Nat |-> [k \in S |-> Kill(k)]]
<1>1. \A k : Killing(k, s, par, p, D) => k \in S
  BY DEF Killing
<1>2. a \in S
  BY <1>1, KillingStarts
<1>3. \A k \in S : Kill(k) \in S
  <2> TAKE k \in S
  <2>1. Killing(k, s, par, p, D)
    OBVIOUS
  <2>2. Killing(Kill(k), s, par, p, D)
    BY <2>1, KillingSteps
  <2> QED
    BY <1>1, <2>2
<1>4. G \in [Nat -> [S -> S]]
  <2> HIDE DEF S
  <2> QED
    BY <1>3
<1>5. PICK f : Iterates(f, S, a, G)
  <2> HIDE DEF S, G, a
  <2> QED
    BY <1>2, <1>4, RecursionExists
<1> HIDE DEF S
<1>6. f \in [Nat -> S] /\ f[0] = a /\ \A n \in Nat : f[n + 1] = Kill(f[n])
  BY <1>5 DEF Iterates
<1> DEFINE body(g) == [n \in Nat |->
             IF n = 0
             THEN [heap |-> h, parent |-> par, stack |-> <<p>>, freed |-> <<>>, awake |-> 0]
             ELSE Kill(g[n - 1])]
<1>7. f = body(f)
  <2>1. \A n \in Nat : f[n] = IF n = 0 THEN a ELSE Kill(f[n - 1])
    <3> TAKE n \in Nat
    <3>1. CASE n = 0
      BY <1>6, <3>1
    <3>2. CASE n # 0
      <4>1. n - 1 \in Nat /\ n = (n - 1) + 1
        BY <3>2
      <4>2. f[n] = Kill(f[n - 1])
        BY <1>6, <4>1
      <4> QED
        BY <3>2, <4>2
    <3> QED
      BY <3>1, <3>2
  <2> QED
    BY <1>6, <2>1 DEF Begun
<1> DEFINE w == CHOOSE g : g = body(g)
<1>8. w = body(w)
  BY <1>7
<1>9. Terminated(h, par, p) = w[2 * Cardinality(Pcb)]
  BY DEF Terminated
<1> HIDE DEF w
<1>10. w[0] = a
  BY <1>8 DEF Begun
<1>11. ASSUME NEW n \in Nat
       PROVE  w[n + 1] = Kill(w[n])
  <2>1. n + 1 \in Nat /\ n + 1 # 0 /\ (n + 1) - 1 = n
    OBVIOUS
  <2>2. w[n + 1] = Kill(w[(n + 1) - 1])
    BY <1>8, <2>1
  <2> QED
    BY <2>1, <2>2
<1>12. Kills(w, h, par, p)
  BY <1>10, <1>11 DEF Kills
<1> QED
  BY <1>9, <1>12

\* All PCBs below p are freed, once each, when terminateProcess() is done.
LEMMA TerminatedAre ==
  ASSUME NEW h, NEW s, Stands(h, s), NEW par \in [Pcb -> Pcb \cup {NULL}], NULL \notin Pcb,
         IsFiniteSet(Pcb), IsFiniteSet(list_head), Tree(s, par), Acyclic(par),
         NEW p, NEW D, Doomed(s, par, p, D)
  PROVE  Killing(Terminated(h, par, p), s, par, p, D) /\ Terminated(h, par, p).stack = <<>>
<1>1. PICK f : Kills(f, h, par, p) /\ Terminated(h, par, p) = f[2 * Cardinality(Pcb)]
  BY TerminatedSteps
<1>2. f[0] = Begun(h, par, p) /\ \A n \in Nat : f[n + 1] = Kill(f[n])
  BY <1>1 DEF Kills
<1> DEFINE Spent(k, n) == k.stack = <<>> \/ Work(k) = n + 1
           N == {n \in Nat : Killing(f[n], s, par, p, D) /\ Spent(f[n], n)}
<1>3. 0 \in N
  <2>1. Killing(f[0], s, par, p, D)
    BY <1>2, KillingStarts
  <2>2. Work(f[0]) = 0 + 1
    BY <1>2 DEF Begun, Work
  <2> QED
    BY <2>1, <2>2
<1>4. ASSUME NEW n \in Nat, n \in N
      PROVE  n + 1 \in N
  <2> DEFINE k == f[n]
  <2>1. Killing(k, s, par, p, D) /\ Spent(k, n) /\ f[n + 1] = Kill(k)
    BY <1>2, <1>4
  <2> HIDE DEF k
  <2>2. /\ Killing(Kill(k), s, par, p, D)
        /\ k.stack = <<>> => Kill(k) = k
        /\ k.stack # <<>> => Work(Kill(k)) = Work(k) + 1
    BY <2>1, KillingSteps
  <2>3. Spent(Kill(k), n + 1)
    <3>1. CASE k.stack = <<>>
      BY <2>2, <3>1
    <3>2. CASE k.stack # <<>>
      BY <2>1, <2>2, <3>2
    <3> QED
      BY <3>1, <3>2
  <2> QED
    BY <2>1, <2>2, <2>3
<1> DEFINE m == 2 * Cardinality(Pcb)
<1>5. Cardinality(Pcb) \in Nat /\ m \in Nat
  BY FS_CardinalityType
<1>6. Nat \subseteq N
  <2> HIDE DEF N
  <2> QED
    BY <1>3, <1>4, NatInductive
<1>7. Killing(f[m], s, par, p, D) /\ Spent(f[m], m)
  BY <1>5, <1>6
<1> DEFINE k == f[m]
<1>8. Killing(k, s, par, p, D) /\ Spent(k, m)
  BY <1>7
<1> HIDE DEF k
<1>9. /\ Len(k.stack) \in Nat /\ Len(k.freed) \in Nat /\ Cardinality(Pcb) \in Nat
      /\ Len(k.stack) + Len(k.freed) <= Cardinality(Pcb)
      /\ k.stack # <<>> => Len(k.stack) >= 1
  <2>1. Killing(k, s, par, p, D)
    BY <1>8
  <2> QED
    BY <2>1, KillingFits
<1>10. k.stack = <<>>
  <2> SUFFICES ASSUME k.stack # <<>> PROVE FALSE
    OBVIOUS
  <2> DEFINE x == Len(k.freed)
             y == Len(k.stack)
             c == Cardinality(Pcb)
  <2>1. /\ 2 * x + y = 2 * c + 1 /\ x \in Nat /\ y \in Nat /\ c \in Nat
        /\ y + x <= c /\ y >= 1
    BY <1>8, <1>9 DEF Work
  <2> HIDE DEF x, y, c
  <2> QED
    BY <2>1
<1> QED
  BY <1>1, <1>8, <1>10 DEF k

-----------------------------------------------------------------------------
(* Memory seen from behind: next and prev change places.                    *)
Mirror(h)         == [next |-> h.prev, prev |-> h.next]
Backwards(H, s)   == [l \in H |-> Reverse(s[l])]

Reversed(r, t) ==
  /\ Len(r) = Len(t) /\ DOMAIN r = 1..Len(t)
  /\ \A i \in 1..Len(t) : r[i] = t[(Len(t) - i) + 1]

\* It holds the lists backwards.
LEMMA MirrorHolds ==
  ASSUME NEW h, NEW H, NEW s, Holds(h, H, s)
  PROVE  /\ Holds(Mirror(h), H, Backwards(H, s))
         /\ \A l \in H : Reversed(Reverse(s[l]), s[l])
         /\ \A x \in list_head : Member(H, Backwards(H, s), x) => Member(H, s, x)
<1> DEFINE g == Mirror(h)
           r == Backwards(H, s)
<1>1. /\ h \in Heap /\ H \subseteq list_head /\ \A l \in H : Ring(h, l, s[l])
      /\ \A l, k \in H : \A i \in DOMAIN s[l], j \in DOMAIN s[k] :
           s[l][i] = s[k][j] => l = k /\ i = j
  BY DEF Holds
<1>2. \A l \in H : /\ Len(s[l]) \in Nat /\ DOMAIN s[l] = 1..Len(s[l])
                   /\ \A i \in DOMAIN s[l] : s[l][i] \in list_head \ H
  BY Places
<1>3. ASSUME NEW l \in H
      PROVE  /\ r[l] \in Seq(list_head \ H) /\ Len(r[l]) = Len(s[l])
             /\ DOMAIN r[l] = 1..Len(s[l]) /\ r[l] = Reverse(s[l])
             /\ \A i \in 1..Len(s[l]) : /\ (Len(s[l]) - i) + 1 \in DOMAIN s[l]
                                        /\ r[l][i] = s[l][(Len(s[l]) - i) + 1]
  <2> DEFINE n == Len(s[l])
  <2>1. r[l] = [i \in 1..n |-> s[l][(n - i) + 1]]
    BY DEF Backwards, Reverse
  <2>2. n \in Nat /\ DOMAIN s[l] = 1..n
    BY <1>2
  <2> HIDE DEF n, r
  <2>3. \A i \in 1..n : (n - i) + 1 \in 1..n
    BY <2>2
  <2>4. \A i \in 1..n : (n - i) + 1 \in DOMAIN s[l] /\ r[l][i] = s[l][(n - i) + 1]
    BY <2>1, <2>2, <2>3
  <2>5. r[l] \in [1..n -> list_head \ H]
    BY <1>2, <2>1, <2>4
  <2>6. r[l] \in Seq(list_head \ H)
    BY <2>2, <2>5, SeqDef
  <2>7. Len(r[l]) = n
    BY <2>2, <2>5, <2>6, LenProperties
  <2>8. r[l] = Reverse(s[l])
    BY DEF r, Backwards
  <2> QED
    BY <2>4, <2>5, <2>6, <2>7, <2>8 DEF n
<1>4. g.next = h.prev /\ g.prev = h.next /\ g \in Heap
  BY <1>1 DEF Mirror, Heap
<1>5. r = [l \in H |-> r[l]]
  BY DEF Backwards
<1> HIDE DEF g, r
<1>6. r \in [H -> Seq(list_head \ H)]
  BY <1>3, <1>5
<1>7. ASSUME NEW l \in H, NEW i \in 0..(Len(s[l]) + 1)
      PROVE  At(r[l], l, i) = At(s[l], l, (Len(s[l]) + 1) - i)
  <2> DEFINE n == Len(s[l])
  <2>1. n \in Nat /\ Len(r[l]) = n
    BY <1>2, <1>3
  <2>2. CASE i \in 1..n
    <3>1. r[l][i] = s[l][(n - i) + 1]
      BY <1>3, <2>2
    <3> HIDE DEF n
    <3>2. (n - i) + 1 \in 1..n /\ (n + 1) - i = (n - i) + 1
      BY <2>1, <2>2
    <3> QED
      BY <2>1, <2>2, <3>1, <3>2 DEF At, n
  <2>3. CASE i \notin 1..n
    <3> HIDE DEF n
    <3>1. (n + 1) - i \notin 1..n
      BY <1>7, <2>1, <2>3 DEF n
    <3> QED
      BY <2>1, <2>3, <3>1 DEF At, n
  <2> QED
    BY <2>2, <2>3
<1>8. ASSUME NEW l \in H PROVE Ring(g, l, r[l])
  <2> DEFINE n == Len(s[l])
  <2> SUFFICES ASSUME NEW i \in 0..n
               PROVE  /\ g.next[At(r[l], l, i)] = At(r[l], l, i + 1)
                      /\ g.prev[At(r[l], l, i + 1)] = At(r[l], l, i)
    BY <1>3 DEF Ring
  <2>1. n \in Nat
    BY <1>2
  <2> DEFINE j == n - i
  <2> HIDE DEF n
  <2>2. /\ j \in 0..n /\ i \in 0..(n + 1) /\ i + 1 \in 0..(n + 1)
        /\ (n + 1) - i = j + 1 /\ (n + 1) - (i + 1) = j
    BY <2>1
  <2> HIDE DEF j
  <2>3. At(r[l], l, i) = At(s[l], l, j + 1) /\ At(r[l], l, i + 1) = At(s[l], l, j)
    <3>1. At(r[l], l, i) = At(s[l], l, (n + 1) - i)
      BY <1>7, <2>2 DEF n
    <3>2. At(r[l], l, i + 1) = At(s[l], l, (n + 1) - (i + 1))
      BY <1>7, <2>2 DEF n
    <3> QED
      BY <2>2, <3>1, <3>2
  <2>4. /\ h.next[At(s[l], l, j)] = At(s[l], l, j + 1)
        /\ h.prev[At(s[l], l, j + 1)] = At(s[l], l, j)
    BY <1>1, <2>2 DEF Ring, n
  <2> QED
    BY <1>4, <2>3, <2>4
<1>9. ASSUME NEW l \in H, NEW k \in H, NEW i \in DOMAIN r[l], NEW j \in DOMAIN r[k], r[l][i] = r[k][j]
      PROVE  l = k /\ i = j
  <2> DEFINE n == Len(s[l])
             m == Len(s[k])
  <2>1. /\ n \in Nat /\ m \in Nat /\ i \in 1..n /\ j \in 1..m
        /\ (n - i) + 1 \in DOMAIN s[l] /\ (m - j) + 1 \in DOMAIN s[k]
        /\ r[l][i] = s[l][(n - i) + 1] /\ r[k][j] = s[k][(m - j) + 1]
    BY <1>2, <1>3
  <2> HIDE DEF n, m
  <2>2. l = k /\ (n - i) + 1 = (m - j) + 1
    <3> DEFINE a == (n - i) + 1
               b == (m - j) + 1
    <3>1. a \in DOMAIN s[l] /\ b \in DOMAIN s[k] /\ s[l][a] = s[k][b]
      BY <1>9, <2>1
    <3> HIDE DEF a, b
    <3>2. l = k /\ a = b
      BY <1>1, <3>1
    <3> QED
      BY <3>2 DEF a, b
  <2>3. n = m
    BY <2>2 DEF n, m
  <2> QED
    BY <2>1, <2>2, <2>3
<1>10. Holds(g, H, r)
  BY <1>1, <1>4, <1>6, <1>8, <1>9 DEF Holds
<1>11. ASSUME NEW x, Member(H, r, x)
       PROVE  Member(H, s, x)
  <2>1. PICK l \in H : \E i \in DOMAIN r[l] : r[l][i] = x
    BY <1>11 DEF Member
  <2>2. PICK i \in DOMAIN r[l] : r[l][i] = x
    BY <2>1
  <2> DEFINE j == (Len(s[l]) - i) + 1
  <2>3. j \in DOMAIN s[l] /\ s[l][j] = x
    BY <1>3, <2>2
  <2> QED
    BY <2>3 DEF Member
<1>12. \A l \in H : Reversed(Reverse(s[l]), s[l])
  <2> TAKE l \in H
  <2>1. r[l] = Reverse(s[l])
    BY <1>3
  <2> QED
    BY <1>3, <2>1 DEF Reversed
<1> QED
  BY <1>10, <1>11, <1>12 DEF g, r

\* u has x in front of what s has for head.
InFront(u, H, s, head, x) ==
  /\ u \in [H -> Seq(list_head \ H)] /\ \A l \in H \ {head} : u[l] = s[l]
  /\ Len(u[head]) = Len(s[head]) + 1 /\ u[head][1] = x
  /\ \A i \in 1..Len(s[head]) : u[head][i + 1] = s[head][i]

\* list_add() of an element that is in no list: list_add_tail(), seen from behind.
LEMMA AddedAtHead ==
  ASSUME NEW h, NEW H, NEW s, Holds(h, H, s), NEW head \in H,
         NEW x \in list_head \ H, ~Member(H, s, x)
  PROVE  \E u : Holds(list_add(h, x, head), H, u) /\ InFront(u, H, s, head, x)
<1> DEFINE g == Mirror(h)
           r == Backwards(H, s)
           k == list_add_tail(g, x, head)
           q == [r EXCEPT ![head] = Append(@, x)]
           u == Backwards(H, q)
           n == Len(s[head])
<1>1. Holds(g, H, r) /\ ~Member(H, r, x)
  BY MirrorHolds
<1>2. Holds(k, H, q)
  <2> HIDE DEF g, r
  <2> QED
    BY <1>1, AddedAtTail
<1>3. /\ Holds(Mirror(k), H, Backwards(H, q))
      /\ \A l \in H : Reversed(Reverse(q[l]), q[l])
  <2> HIDE DEF k, q
  <2> QED
    BY <1>2, MirrorHolds
<1>4. Mirror(k) = list_add(h, x, head)
  <2> DEFINE m == Mirror(k)
             z == list_add(h, x, head)
  <2>1. h \in Heap /\ head \in list_head /\ x \in list_head /\ x # head
    BY DEF Holds
  <2>2. g \in Heap /\ g.next = h.prev /\ g.prev = h.next
    BY <2>1 DEF Mirror, Heap
  <2>3. h.next[head] # x
    <3>1. h.next[head] = At(s[head], head, 1)
      BY Ends
    <3>2. \A i \in DOMAIN s[head] : s[head][i] # x
      BY DEF Member
    <3> QED
      BY <2>1, <3>1, <3>2, Places DEF At
  <2>4. /\ z \in Heap
        /\ \A l \in list_head :
             /\ z.next[l] = IF l = head THEN x ELSE IF l = x THEN h.next[head] ELSE h.next[l]
             /\ z.prev[l] = IF l = x THEN head ELSE IF l = h.next[head] THEN x ELSE h.prev[l]
    BY <2>1 DEF Heap, list_add, AddBetween
  <2> HIDE DEF g
  <2>5. /\ k \in Heap
        /\ \A l \in list_head :
             /\ k.next[l] = IF l = g.prev[head] THEN x ELSE IF l = x THEN head ELSE g.next[l]
             /\ k.prev[l] = IF l = x THEN g.prev[head] ELSE IF l = head THEN x ELSE g.prev[l]
    <3>1. g \in Heap
      BY <2>2
    <3> QED
      BY <2>1, <3>1, AddedFields
  <2> HIDE DEF k, z
  <2>6. m.next = k.prev /\ m.prev = k.next /\ m \in Heap
    BY <2>5 DEF Mirror, Heap
  <2> HIDE DEF m
  <2>7. \A l \in list_head : m.next[l] = z.next[l] /\ m.prev[l] = z.prev[l]
    BY <2>1, <2>2, <2>3, <2>4, <2>5, <2>6
  <2>8. m.next = z.next /\ m.prev = z.prev
    BY <2>4, <2>6, <2>7 DEF Heap
  <2>9. m = z
    BY <2>4, <2>6, <2>8 DEF Heap
  <2> QED
    BY <2>9 DEF m, z
<1> HIDE DEF g, k
<1>5. r = [l \in H |-> Reverse(s[l])] /\ u = [l \in H |-> Reverse(q[l])]
  BY DEF Backwards
<1>6. u \in [H -> Seq(list_head \ H)]
  BY <1>3 DEF Holds
<1>7. \A l \in H : /\ Len(s[l]) \in Nat /\ DOMAIN s[l] = 1..Len(s[l]) /\ Len(r[l]) = Len(s[l])
                   /\ r[l] \in Seq(list_head \ H)
                   /\ \A i \in 1..Len(s[l]) : r[l][i] = s[l][(Len(s[l]) - i) + 1]
  <2> TAKE l \in H
  <2>1. r[l] = Reverse(s[l])
    BY <1>5
  <2>2. r[l] \in Seq(list_head \ H)
    BY <1>1 DEF Holds
  <2> HIDE DEF r
  <2>3. Reversed(Reverse(s[l]), s[l])
    BY MirrorHolds
  <2>4. Len(s[l]) \in Nat /\ DOMAIN s[l] = 1..Len(s[l])
    BY Places
  <2> QED
    BY <2>1, <2>2, <2>3, <2>4 DEF Reversed
<1>8. \A l \in H : /\ Len(u[l]) = Len(q[l])
                   /\ \A i \in 1..Len(q[l]) : u[l][i] = q[l][(Len(q[l]) - i) + 1]
  <2> HIDE DEF q
  <2>1. \A l \in H : u[l] = Reverse(q[l])
    BY <1>5
  <2> QED
    BY <1>3, <2>1 DEF Reversed
<1>9. q[head] = Append(r[head], x) /\ \A l \in H \ {head} : q[l] = r[l]
  BY <1>5
<1>10. /\ Len(q[head]) = n + 1 /\ q[head][n + 1] = x
       /\ \A i \in 1..n : q[head][i] = r[head][i]
  BY <1>7, <1>9, AppendProperties
<1> HIDE DEF q, r, u
<1>11. Len(u[head]) = n + 1 /\ u[head][1] = x
  <2>1. 1 \in 1..(n + 1) /\ ((n + 1) - 1) + 1 = n + 1
    BY <1>7
  <2> QED
    BY <1>8, <1>10, <2>1
<1>12. ASSUME NEW i \in 1..n
       PROVE  u[head][i + 1] = s[head][i]
  <2> DEFINE j == (n - i) + 1
  <2>1. n \in Nat
    BY <1>7
  <2> HIDE DEF n
  <2>2. /\ i + 1 \in 1..(n + 1) /\ ((n + 1) - (i + 1)) + 1 = j
        /\ j \in 1..n /\ (n - j) + 1 = i
    BY <2>1
  <2> HIDE DEF j
  <2>3. u[head][i + 1] = q[head][j]
    BY <1>8, <1>10, <2>2
  <2>4. q[head][j] = r[head][j] /\ r[head][j] = s[head][i]
    BY <1>7, <1>10, <2>2 DEF n
  <2> QED
    BY <2>3, <2>4
<1>13. ASSUME NEW l \in H \ {head}
       PROVE  u[l] = s[l]
  <2> DEFINE m == Len(s[l])
  <2>1. m \in Nat /\ DOMAIN s[l] = 1..m /\ Len(q[l]) = m /\ s[l] \in Seq(list_head \ H)
        /\ u[l] \in Seq(list_head \ H) /\ Len(u[l]) = m
    BY <1>6, <1>7, <1>8, <1>9 DEF Holds
  <2>2. ASSUME NEW i \in 1..m
        PROVE  u[l][i] = s[l][i]
    <3> DEFINE j == (m - i) + 1
    <3>1. u[l][i] = q[l][j]
      BY <1>8, <2>1
    <3>2. q[l][j] = r[l][j]
      BY <1>9
    <3> HIDE DEF m
    <3>3. j \in 1..m /\ (m - j) + 1 = i
      BY <2>1
    <3> HIDE DEF j
    <3>4. r[l][j] = s[l][i]
      BY <1>7, <3>3 DEF m
    <3> QED
      BY <3>1, <3>2, <3>4
  <2> HIDE DEF m
  <2> QED
    BY <2>1, <2>2, SeqEqual
<1>14. InFront(u, H, s, head, x)
  <2>1. \A l \in H \ {head} : u[l] = s[l]
    BY <1>13
  <2>2. \A i \in 1..Len(s[head]) : u[head][i + 1] = s[head][i]
    BY <1>12
  <2>3. Len(u[head]) = Len(s[head]) + 1 /\ u[head][1] = x
    BY <1>11
  <2> QED
    BY <1>6, <2>1, <2>2, <2>3, Zenon DEF InFront
<1> QED
  BY <1>3, <1>4, <1>14 DEF u

\* list_add() of all of e, one after the other, to the list l of memory h.
AddsAll(w, h, e, l) ==
  w = [n \in 0..Len(e) |-> IF n = 0 THEN h ELSE list_add(w[n - 1], e[n], l)]

\* What is in the list after n of them.
Filled(u, s, e, l, n) ==
  /\ DOMAIN u = Heads /\ \A k \in Heads \ {l} : u[k] = s[k]
  /\ Len(u[l]) = n /\ \A i \in 1..n : u[l][i] = e[(n - i) + 1]

\* One more.
LEMMA FillsOne ==
  ASSUME NEW l \in Heads, NEW e \in Seq(list_head \ Heads), IsInjective(e),
         \A i \in DOMAIN e : e[i].at = Field(l),
         NEW h, NEW s, Stands(h, s), \A i \in DOMAIN e : ~Linked(s, e[i]), s[l] = <<>>,
         NEW n \in Nat, n + 1 <= Len(e), NEW g, NEW u, Stands(g, u), Filled(u, s, e, l, n)
  PROVE  \E v : Stands(list_add(g, e[n + 1], l), v) /\ Filled(v, s, e, l, n + 1)
<1> DEFINE x == e[n + 1]
<1>1. Len(e) \in Nat /\ DOMAIN e = 1..Len(e)
  BY LenProperties
<1>2. n + 1 \in DOMAIN e /\ x \in list_head \ Heads /\ x.at = Field(l) /\ ~Linked(s, x)
  <2>1. n + 1 \in DOMAIN e
    BY <1>1
  <2> QED
    BY <2>1, <1>1, ElementOfSeq
<1>3. /\ Holds(g, Heads, u) /\ \A k \in Heads : \A i \in DOMAIN u[k] : u[k][i].at = Field(k)
  BY DEF Stands
<1>4. \A i \in 1..n : u[l][i] = e[(n - i) + 1]
  BY DEF Filled
<1>5. Len(u[l]) = n /\ \A k \in Heads \ {l} : u[k] = s[k]
  BY DEF Filled
<1>6. DOMAIN u[l] = 1..n
  BY <1>3, <1>5, Places
<1>7. ~Member(Heads, u, x)
  <2> SUFFICES ASSUME NEW k \in Heads, NEW i \in DOMAIN u[k], u[k][i] = x
               PROVE  FALSE
    BY DEF Member
  <2>1. CASE k = l
    <3> DEFINE j == (n - i) + 1
    <3>1. i \in 1..n /\ u[l][i] = e[j]
      BY <1>4, <1>6, <2>1
    <3>2. j \in DOMAIN e /\ j # n + 1
      BY <1>1, <3>1
    <3> HIDE DEF j
    <3>3. e[j] = e[n + 1]
      BY <2>1, <3>1
    <3> QED
      BY <1>2, <3>2, <3>3 DEF IsInjective
  <2>2. CASE k # l
    BY <1>2, <1>5, <2>2 DEF Linked, ToSet
  <2> QED
    BY <2>1, <2>2
<1>8. PICK v : Holds(list_add(g, x, l), Heads, v) /\ InFront(v, Heads, u, l, x)
  <2> HIDE DEF x
  <2> QED
    BY <1>2, <1>3, <1>7, AddedAtHead
<1>9. /\ v \in [Heads -> Seq(list_head \ Heads)] /\ \A k \in Heads \ {l} : v[k] = u[k]
      /\ Len(v[l]) = n + 1 /\ v[l][1] = x /\ \A i \in 1..n : v[l][i + 1] = u[l][i]
  BY <1>5, <1>8 DEF InFront
<1>10. ASSUME NEW i \in 1..(n + 1)
       PROVE  v[l][i] = e[((n + 1) - i) + 1]
  <2>1. CASE i = 1
    <3>1. ((n + 1) - 1) + 1 = n + 1
      OBVIOUS
    <3> QED
      BY <1>9, <2>1, <3>1
  <2>2. CASE i # 1
    <3> DEFINE j == i - 1
    <3>1. j \in 1..n /\ j + 1 = i /\ (n - j) + 1 = ((n + 1) - i) + 1
      BY <2>2
    <3> HIDE DEF j
    <3>2. v[l][j + 1] = e[(n - j) + 1]
      BY <1>4, <1>9, <3>1
    <3> QED
      BY <3>1, <3>2
  <2> QED
    BY <2>1, <2>2
<1>11. Filled(v, s, e, l, n + 1)
  <2>1. DOMAIN v = Heads /\ \A k \in Heads \ {l} : v[k] = s[k]
    BY <1>5, <1>9
  <2>2. \A i \in 1..(n + 1) : v[l][i] = e[((n + 1) - i) + 1]
    BY <1>10
  <2> QED
    BY <1>9, <2>1, <2>2 DEF Filled
<1>12. \A k \in Heads : \A i \in DOMAIN v[k] : v[k][i].at = Field(k)
  <2> TAKE k \in Heads
  <2> TAKE i \in DOMAIN v[k]
  <2>1. CASE k = l
    <3> DEFINE j == ((n + 1) - i) + 1
    <3>1. DOMAIN v[l] = 1..(n + 1)
      BY <1>9, LenProperties
    <3>2. i \in 1..(n + 1) /\ v[l][i] = e[j]
      BY <1>10, <2>1, <3>1
    <3>3. j \in DOMAIN e
      BY <1>1, <3>2
    <3> HIDE DEF j
    <3> QED
      BY <2>1, <3>2, <3>3
  <2>2. CASE k # l
    BY <1>3, <1>9, <2>2
  <2> QED
    BY <2>1, <2>2
<1> QED
  BY <1>8, <1>11, <1>12 DEF Stands

\* The loop runs to its end.
LEMMA FillsUp ==
  ASSUME NEW l \in Heads, NEW e \in Seq(list_head \ Heads), IsInjective(e),
         \A i \in DOMAIN e : e[i].at = Field(l),
         NEW h, NEW s, Stands(h, s), \A i \in DOMAIN e : ~Linked(s, e[i]), s[l] = <<>>
  PROVE  /\ \E w : AddsAll(w, h, e, l)
         /\ \A w : AddsAll(w, h, e, l) => \E u : Stands(w[Len(e)], u) /\ Filled(u, s, e, l, Len(e))
<1> DEFINE N == Len(e)
           F(n) == [g \in Heap |-> IF n < N THEN list_add(g, e[n + 1], l) ELSE g]
           G == [n \in Nat |-> F(n)]
<1>1. N \in Nat /\ DOMAIN e = 1..N /\ h \in Heap /\ l \in list_head
      /\ \A i \in 1..N : e[i] \in list_head
  BY LenProperties, ElementOfSeq, ListIs
<1>2. \A g \in Heap, x \in list_head : list_add(g, x, l) \in Heap
  BY <1>1 DEF list_add, AddBetween, Heap
<1> HIDE DEF N
<1>3. \A n \in Nat : /\ F(n) \in [Heap -> Heap]
                     /\ \A g \in Heap : n < N => F(n)[g] = list_add(g, e[n + 1], l)
  <2> TAKE n \in Nat
  <2>1. n < N => n + 1 \in 1..N
    BY <1>1
  <2> QED
    BY <1>1, <1>2, <2>1
<1> HIDE DEF F
<1>4. G \in [Nat -> [Heap -> Heap]] /\ \A n \in Nat : G[n] = F(n)
  BY <1>3
<1> HIDE DEF G
<1>5. PICK f : Iterates(f, Heap, h, G)
  BY <1>1, <1>4, RecursionExists
<1>6. f \in [Nat -> Heap] /\ f[0] = h /\ \A n \in Nat : n < N => f[n + 1] = list_add(f[n], e[n + 1], l)
  BY <1>3, <1>4, <1>5 DEF Iterates
<1> DEFINE w0 == [n \in 0..N |-> f[n]]
<1>7. AddsAll(w0, h, e, l)
  <2>1. \A n \in 0..N : w0[n] = IF n = 0 THEN h ELSE list_add(w0[n - 1], e[n], l)
    <3> TAKE n \in 0..N
    <3>1. CASE n = 0
      BY <1>1, <1>6, <3>1
    <3>2. CASE n # 0
      <4> DEFINE m == n - 1
      <4>1. m \in Nat /\ m < N /\ m \in 0..N /\ m + 1 = n
        BY <1>1, <3>2
      <4> HIDE DEF m
      <4>2. w0[n] = list_add(w0[m], e[n], l)
        BY <1>6, <4>1
      <4> QED
        BY <3>2, <4>2 DEF m
    <3> QED
      BY <3>1, <3>2
  <2>2. w0 = [n \in 0..N |-> w0[n]]
    OBVIOUS
  <2> HIDE DEF w0
  <2>3. w0 = [n \in 0..N |-> IF n = 0 THEN h ELSE list_add(w0[n - 1], e[n], l)]
    BY <2>1, <2>2
  <2> QED
    BY <2>3 DEF AddsAll, N
<1>8. ASSUME NEW w, AddsAll(w, h, e, l)
      PROVE  \E u : Stands(w[N], u) /\ Filled(u, s, e, l, N)
  <2> DEFINE v(n) == IF n = 0 THEN h ELSE list_add(w[n - 1], e[n], l)
  <2>1. \A n \in 0..N : w[n] = v(n)
    <3>1. w = [n \in 0..N |-> v(n)]
      BY <1>8 DEF AddsAll, N
    <3> HIDE DEF v
    <3> QED
      BY <3>1
  <2>2. w[0] = h /\ \A n \in Nat : n + 1 <= N => w[n + 1] = list_add(w[n], e[n + 1], l)
    <3>1. w[0] = h
      BY <1>1, <2>1
    <3>2. ASSUME NEW n \in Nat, n + 1 <= N PROVE w[n + 1] = list_add(w[n], e[n + 1], l)
      <4>1. n + 1 \in 0..N /\ n + 1 # 0 /\ (n + 1) - 1 = n
        BY <1>1, <3>2
      <4>2. w[n + 1] = v(n + 1)
        BY <2>1, <4>1
      <4> QED
        BY <4>1, <4>2
    <3> QED
      BY <3>1, <3>2
  <2> HIDE DEF v
  <2> DEFINE M == {n \in Nat : n <= N => \E u : Stands(w[n], u) /\ Filled(u, s, e, l, n)}
  <2>3. 0 \in M
    <3>1. Filled(s, s, e, l, 0)
      <4>1. DOMAIN s = Heads /\ Len(s[l]) = 0 /\ \A i \in 1..0 : FALSE
        BY ListIs
      <4> QED
        BY <4>1 DEF Filled
    <3> QED
      BY <2>2, <3>1
  <2>4. ASSUME NEW n \in Nat, n \in M PROVE n + 1 \in M
    <3> SUFFICES ASSUME n + 1 <= N PROVE \E u : Stands(w[n + 1], u) /\ Filled(u, s, e, l, n + 1)
      OBVIOUS
    <3>1. n <= N /\ n + 1 <= Len(e)
      BY <1>1 DEF N
    <3>2. PICK u : Stands(w[n], u) /\ Filled(u, s, e, l, n)
      BY <2>4, <3>1
    <3> DEFINE g == w[n]
    <3>3. w[n + 1] = list_add(g, e[n + 1], l) /\ Stands(g, u)
      BY <2>2, <3>2
    <3> HIDE DEF g
    <3>4. \E q : Stands(list_add(g, e[n + 1], l), q) /\ Filled(q, s, e, l, n + 1)
      BY <3>1, <3>2, <3>3, FillsOne
    <3> QED
      BY <3>3, <3>4
  <2> HIDE DEF M
  <2>5. N \in M
    BY <1>1, <2>3, <2>4, NatInductive
  <2> QED
    BY <1>1, <2>5 DEF M
<1> QED
  BY <1>7, <1>8 DEF N
=============================================================================

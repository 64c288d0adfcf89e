--------------------------- MODULE LifecycleProofs ---------------------------
(***************************************************************************)
(* Proofs about ViewLifecycle.  For any sessions: the types, that a        *)
(* session's script unlocks what the session has locked, and that a CREATE *)
(* that fails finds no view of another's.  With one session that issues    *)
(* statements, beside any writers and refreshes, whatever fails and        *)
(* whenever the process dies: views are whole or gone between scripts, and *)
(* show or will find every row of their sources.                           *)
(*                                                                         *)
(* A script is data.  The invariant says, of what a script has still to    *)
(* do, what must be there or gone now for its end to be right.             *)
(***************************************************************************)
EXTENDS ViewLifecycle, FiniteSetTheorems, TLAPS

-----------------------------------------------------------------------------
(* Types *)

CreateWords ==
    {"load", "create_view", "create_delta", "create_mv_delta", "cursors", "publish", "annotate"}

\* The instants that have passed, and what a table may hold.
Past == 1 .. now - 1
Stored == {Absent} \union SUBSET Past

\* Rows and instants are not from the future; the table of a captured row is
\* not dropped before its statement ends.
Storing ==
    /\ now \in 1 .. MaxRows + 1
    /\ base \in [Tables -> Stored] /\ delta \in [Tables -> Stored] /\ data \in [Views -> Stored]
    /\ deltaOf \union shown \union published \union broken \subseteq Views
    /\ cursor = [p \in DOMAIN cursor |-> cursor[p]] /\ DOMAIN cursor \subseteq Views \X Tables
    /\ \A p \in DOMAIN cursor : p[2] \in Sources[p[1]] /\ cursor[p] \in 1 .. now
    /\ write \in [Writers -> {Idle} \union [table : Tables, row : Past]]
    /\ \A w \in Writers : write[w] # Idle => base[write[w].table] # Absent
    /\ DOMAIN refresh = Views
    /\ \A v \in Views :
          refresh[v] \in {Idle} \union [at : 1 .. now, rows : [Sources[v] -> SUBSET Past]]
    /\ DOMAIN missed = Views

\* A view's mutex is held by its refresh, or by a session whose script releases
\* it, once.
UnlocksOnce(q) ==
    \A i, j \in DOMAIN q : q[i].do = "unlock" /\ q[i] = q[j] => i = j

Holding ==
    /\ session \in [Sessions -> {Idle} \union Jobs]
    /\ \A s \in Sessions : session[s] # Idle /\ session[s].op \in {"create", "replace"} =>
          session[s].view \in Views
    /\ DOMAIN lock = Views
    /\ \A v \in Views :
          /\ lock[v] \in {Idle, v} \union Sessions
          /\ lock[v] = v <=> refresh[v] # Idle
          /\ \A s \in Sessions : lock[v] = s <=> Do("unlock", v) \in ToSet(Scripts(s))
    /\ \A s \in Sessions : UnlocksOnce(Scripts(s))

TInv == Storing /\ Holding /\ disputed \subseteq Views

-----------------------------------------------------------------------------
(* One session *)

OneSession == \A s1, s2 \in Sessions : s1 = s2

\* What is left of the scripts.
ToDo == UNION {ToSet(Scripts(s)) : s \in Sessions}

\* A script creates after it has dropped, and registers, publishes and annotates
\* last; it waits for a mutex before anything else.
CreatesLast(q) ==
    \A i, j \in DOMAIN q : i < j /\ q[i].do \in CreateWords => q[j].do \in CreateWords
Ends == {"cursors", "publish", "annotate"}
PublishesLast(q) ==
    \A i, j \in DOMAIN q :
        i < j => /\ q[i].do = "cursors" => q[j].do \in {"publish", "annotate"}
                 /\ q[i].do = "publish" => q[j].do = "annotate"
                 /\ q[i].do # "annotate"
LocksFirst(q) ==
    \A i \in DOMAIN q : q[i].do = "lock" => i = 1 /\ Do("hide", q[i].of) \in ToSet(q)
Shaped(q) == CreatesLast(q) /\ PublishesLast(q) /\ LocksFirst(q)

\* CREATE has to do with one view, and creates all of it.
Making == CreateWords \union {"drop_stale", "duplicate"}
OfOneView(s) ==
    session[s] # Idle =>
        /\ \A x \in ToSet(Scripts(s)) : x.do \in Making =>
              /\ session[s].op \in {"create", "replace"} /\ ~session[s].undo
              /\ x.do # "annotate" => Do("publish", session[s].view) \in ToSet(Scripts(s))
              /\ x.do \notin Ends => Do("cursors", session[s].view) \in ToSet(Scripts(s))
        /\ session[s].op \in {"create", "replace"} =>
              \A x \in ToSet(Scripts(s)) : x.of \in Views => x.of = session[s].view

Coming(v) == Do("publish", v) \in ToDo

\* The rule that drops a view is still to be run for v.
Ahead(v) ==
    \/ Do("lock", v) \in ToDo \/ Do("lock_dependent", v) \in ToDo
    \/ Do("drop_view", v) \in ToDo /\ v \in published

\* What there is of v will be dropped.
Dismantling(v) ==
    /\ v \in published => Do("unpublish", v) \in ToDo
    /\ v \in deltaOf => Do("drop_mv_delta", v) \in ToDo
    /\ data[v] # Absent => Do("drop_data", v) \in ToDo
    /\ CursorsOf(v) \intersect DOMAIN cursor # {} => Do("drop_cursors", v) \in ToDo
    /\ v \in shown => Do("hide", v) \in ToDo \/ Do("drop_view", v) \in ToDo

\* Nothing is to be done about v, but to complete its metadata.
Alone(v) == \A x \in ToDo : x.of = v => x.do = "annotate"

Tidy(v) == Coming(v) \/ Ahead(v) \/ Dismantling(v) \/ (Whole(v) /\ Alone(v))

\* What a script that publishes v is not going to create is there, and while
\* it drops it has everything to create.
Completes(v) ==
    Coming(v) =>
        /\ data[v] # Absent \/ Do("load", v) \in ToDo
        /\ v \in shown \/ Do("create_view", v) \in ToDo
        /\ v \in deltaOf \/ Do("create_mv_delta", v) \in ToDo
        /\ {v} \X Sources[v] \subseteq DOMAIN cursor \/ Do("cursors", v) \in ToDo
        /\ \A t \in Sources[v] : delta[t] # Absent \/ Do("create_delta", t) \in ToDo
        /\ (\E x \in ToDo : x.do \notin CreateWords) =>
              /\ {Do("load", v), Do("create_view", v), Do("create_mv_delta", v), Do("cursors", v)}
                    \subseteq ToDo
              /\ \A t \in Sources[v] : Do("create_delta", t) \in ToDo

\* Of a view that is not broken: what has been unpublished will be dropped, and
\* cursors are not registered over old ones.
Clear(v) ==
    v \notin broken =>
        /\ Do("unpublish", v) \in ToDo => Dismantling(v)
        /\ Do("cursors", v) \in ToDo =>
              CursorsOf(v) \intersect DOMAIN cursor = {} \/ Do("drop_cursors", v) \in ToDo

LifeInv ==
    /\ \A s \in Sessions : Shaped(Scripts(s)) /\ OfOneView(s)
    /\ \A v \in Views : (v \notin broken => Tidy(v)) /\ Completes(v) /\ Clear(v)

-----------------------------------------------------------------------------
(* Rows *)

\* No row is captured under a refresh: what it has not read of its tables it
\* has passed.
Reading(v) ==
    refresh[v] # Idle =>
        \A t \in Sources[v] : delta[t] # Absent =>
            /\ \A r \in delta[t] :
                  /\ r < refresh[v].at
                  /\ refresh[v].rows[t] # {} => \E m \in refresh[v].rows[t] : r <= m
            /\ <<v, t>> \in DOMAIN cursor => Pending(v, t) \subseteq refresh[v].rows[t]

Settled(v) == v \notin broken \/ (Coming(v) /\ Do("cursors", v) \notin ToDo)

InWrite(t) == {write[w].row : w \in {x \in Writers : write[x] # Idle /\ write[x].table = t}}

Accounts(v) ==
    \A t \in Sources[v] :
        <<v, t>> \in DOMAIN cursor /\ delta[t] # Absent /\ data[v] # Absent =>
            /\ Pending(v, t) \intersect data[v] = {}
            /\ base[t] # Absent => base[t] \subseteq data[v] \union Pending(v, t) \union missed[v]
            /\ InWrite(t) \subseteq data[v] \union Pending(v, t) \union missed[v]

RowInv == \A v \in Views : Reading(v) /\ (Settled(v) => Accounts(v))
-----------------------------------------------------------------------------
(* Sequences *)

\* What is left after the first of a sequence.
LEMMA TailOK ==
    ASSUME NEW S, NEW q \in Seq(S), q # <<>>
    PROVE  /\ Len(q) \in Nat /\ Len(q) >= 1 /\ DOMAIN q = 1 .. Len(q)
           /\ Head(q) = q[1] /\ Head(q) \in S /\ Tail(q) \in Seq(S)
           /\ Len(Tail(q)) = Len(q) - 1 /\ DOMAIN Tail(q) = 1 .. Len(q) - 1
           /\ \A i \in 1 .. Len(q) - 1 : Tail(q)[i] = q[i + 1]
           /\ ToSet(q) = {Head(q)} \union ToSet(Tail(q))
<1>1. /\ Len(q) \in Nat /\ Len(q) >= 1 /\ DOMAIN q = 1 .. Len(q)
      /\ Head(q) = q[1] /\ \A i \in 1 .. Len(q) : q[i] \in S
      /\ Tail(q) \in Seq(S) /\ Len(Tail(q)) = Len(q) - 1
      /\ \A i \in 1 .. Len(q) - 1 : Tail(q)[i] = q[i + 1]
  OBVIOUS
<1>2. DOMAIN Tail(q) = 1 .. Len(q) - 1
  BY <1>1
<1>3. ToSet(q) \subseteq {Head(q)} \union ToSet(Tail(q))
  <2> SUFFICES ASSUME NEW i \in 1 .. Len(q)
               PROVE  q[i] = q[1] \/ \E j \in 1 .. Len(q) - 1 : Tail(q)[j] = q[i]
    <3>1. \A x \in ToSet(q) : \E i \in 1 .. Len(q) : x = q[i]
      BY <1>1 DEF ToSet
    <3>2. \A j \in 1 .. Len(q) - 1 : Tail(q)[j] \in ToSet(Tail(q))
      BY <1>2 DEF ToSet
    <3> QED
      BY <1>1, <3>1, <3>2
  <2>1. CASE i = 1
    BY <2>1
  <2>2. CASE i # 1
    <3>1. i - 1 \in 1 .. Len(q) - 1 /\ i = (i - 1) + 1
      BY <1>1, <2>2
    <3> QED
      BY <1>1, <3>1
  <2> QED
    BY <2>1, <2>2
<1>4. {Head(q)} \union ToSet(Tail(q)) \subseteq ToSet(q)
  BY <1>1, <1>2 DEF ToSet
<1> QED
  BY <1>1, <1>2, <1>3, <1>4

\* One sequence after the other.
LEMMA ConcatOK ==
    ASSUME NEW S, NEW p \in Seq(S), NEW q \in Seq(S)
    PROVE  /\ p \o q \in Seq(S) /\ Len(p \o q) = Len(p) + Len(q)
           /\ DOMAIN p = 1 .. Len(p) /\ DOMAIN q = 1 .. Len(q)
           /\ Len(p) \in Nat /\ Len(q) \in Nat /\ DOMAIN (p \o q) = 1 .. Len(p) + Len(q)
           /\ \A i \in 1 .. Len(p) : (p \o q)[i] = p[i]
           /\ \A i \in 1 .. Len(q) : (p \o q)[Len(p) + i] = q[i]
           /\ ToSet(p \o q) = ToSet(p) \union ToSet(q)
<1>1. /\ p \o q \in Seq(S) /\ Len(p \o q) = Len(p) + Len(q)
      /\ DOMAIN p = 1 .. Len(p) /\ DOMAIN q = 1 .. Len(q)
      /\ Len(p) \in Nat /\ Len(q) \in Nat
      /\ \A i \in 1 .. Len(p) + Len(q) :
            (p \o q)[i] = IF i <= Len(p) THEN p[i] ELSE q[i - Len(p)]
  OBVIOUS
<1>2. DOMAIN (p \o q) = 1 .. Len(p) + Len(q)
  BY <1>1
<1>3. /\ \A i \in 1 .. Len(p) : (p \o q)[i] = p[i]
      /\ \A i \in 1 .. Len(q) : (p \o q)[Len(p) + i] = q[i]
  BY <1>1
<1>4. ToSet(p \o q) \subseteq ToSet(p) \union ToSet(q)
  <2> SUFFICES ASSUME NEW i \in 1 .. Len(p) + Len(q)
               PROVE  \/ \E j \in 1 .. Len(p) : p[j] = (p \o q)[i]
                      \/ \E j \in 1 .. Len(q) : q[j] = (p \o q)[i]
    BY <1>1, <1>2 DEF ToSet
  <2>1. CASE i <= Len(p)
    BY <1>1, <1>3, <2>1
  <2>2. CASE ~(i <= Len(p))
    <3>1. i - Len(p) \in 1 .. Len(q)
      BY <1>1, <2>2
    <3> QED
      BY <1>1, <2>2, <3>1
  <2> QED
    BY <2>1, <2>2
<1>5. ToSet(p) \union ToSet(q) \subseteq ToSet(p \o q)
  <2>1. ToSet(p) \subseteq ToSet(p \o q)
    BY <1>1, <1>2, <1>3 DEF ToSet
  <2>2. \A i \in 1 .. Len(q) : Len(p) + i \in 1 .. Len(p) + Len(q)
    BY <1>1
  <2>3. ToSet(q) \subseteq ToSet(p \o q)
    <3>1. \A x \in ToSet(q) : \E i \in 1 .. Len(q) : x = q[i]
      BY <1>1 DEF ToSet
    <3>2. \A j \in 1 .. Len(p) + Len(q) : (p \o q)[j] \in ToSet(p \o q)
      BY <1>2 DEF ToSet
    <3> QED
      BY <1>3, <2>2, <3>1, <3>2
  <2> QED
    BY <2>1, <2>3
<1> QED
  BY <1>1, <1>2, <1>3, <1>4, <1>5

\* One statement for each member of a finite set.
LEMMA EachOK ==
    ASSUME NEW S, IsFiniteSet(S), NEW what
    PROVE  /\ Each(what, S) \in Seq({Do(what, x) : x \in S})
           /\ ToSet(Each(what, S)) = {Do(what, x) : x \in S}
           /\ \A i, j \in DOMAIN Each(what, S) : Each(what, S)[i] = Each(what, S)[j] => i = j
<1> DEFINE n == Cardinality(S)
           f == SetToSeq(S)
           D == {Do(what, x) : x \in S}
<1>1. n \in Nat /\ ExistsBijection(1 .. n, S)
  BY FS_CardinalityType
<1>2. PICK g \in Bijection(1 .. n, S) : TRUE
  BY <1>1 DEF ExistsBijection
<1>3. g \in [1 .. n -> S] /\ IsInjective(g)
  BY <1>2 DEF Bijection, Injection, IsInjective
<1>4. f \in [1 .. n -> S] /\ IsInjective(f)
  BY <1>3 DEF SetToSeq
<1>5. f \in Surjection(1 .. n, S)
  <2>1. f \in Injection(1 .. n, S)
    BY <1>4 DEF Injection, IsInjective
  <2>2. IsFiniteSet(1 .. n) /\ Cardinality(1 .. n) = n
    BY <1>1, FS_Interval
  <2> QED
    BY <2>1, <2>2, FS_Injection
<1>6. \A x \in S : \E i \in 1 .. n : f[i] = x
  BY <1>5 DEF Surjection
<1> HIDE DEF n, f
<1>7. Each(what, S) = [i \in 1 .. n |-> Do(what, f[i])]
  BY DEF Each, n, f
<1>8. Each(what, S) \in [1 .. n -> D]
  BY <1>4, <1>7
<1>9. Each(what, S) \in Seq(D)
  BY <1>1, <1>8
<1>10. ToSet(Each(what, S)) = D
  BY <1>4, <1>6, <1>7 DEF ToSet
<1>11. \A x, y \in S : Do(what, x) = Do(what, y) => x = y
  BY DEF Do
<1>12. \A i, j \in 1 .. n : Each(what, S)[i] = Each(what, S)[j] => i = j
  BY <1>4, <1>7, <1>11 DEF IsInjective
<1> QED
  BY <1>7, <1>9, <1>10, <1>12

\* Statements about one view.
LEMMA OnViewOK ==
    ASSUME NEW v, NEW W, NEW whats \in Seq(W)
    PROVE  /\ OnView(v, whats) \in Seq({Do(w, v) : w \in W})
           /\ DOMAIN OnView(v, whats) = 1 .. Len(whats) /\ Len(whats) \in Nat
           /\ Len(OnView(v, whats)) = Len(whats)
           /\ \A i \in 1 .. Len(whats) : OnView(v, whats)[i] = Do(whats[i], v)
           /\ ToSet(OnView(v, whats)) = {Do(w, v) : w \in ToSet(whats)}
<1> DEFINE D == {Do(w, v) : w \in W}
           o == OnView(v, whats)
<1>1. /\ Len(whats) \in Nat /\ DOMAIN whats = 1 .. Len(whats)
      /\ \A i \in 1 .. Len(whats) : whats[i] \in W
  OBVIOUS
<1>2. o = [i \in 1 .. Len(whats) |-> Do(whats[i], v)]
  BY <1>1 DEF OnView
<1>3. o \in [1 .. Len(whats) -> D]
  BY <1>1, <1>2
<1>4. o \in Seq(D) /\ Len(o) = Len(whats)
  BY <1>1, <1>3
<1>5. ToSet(o) = {Do(w, v) : w \in ToSet(whats)}
  BY <1>1, <1>2 DEF ToSet
<1> QED
  BY <1>1, <1>2, <1>4, <1>5

\* Short scripts.
LEMMA WordsOK ==
    ASSUME NEW v
    PROVE  /\ ToSet(<<Do("drop_view", v)>>) = {Do("drop_view", v)}
           /\ ToSet(OnView(v, <<"lock", "hide">>)) = {Do("lock", v), Do("hide", v)}
           /\ OnView(v, <<"lock", "hide">>)[1] = Do("lock", v)
           /\ OnView(v, <<"lock", "hide">>)[2] = Do("hide", v)
           /\ Len(OnView(v, <<"lock", "hide">>)) = 2
           /\ ToSet(Unregister(v)) = {Do("unpublish", v), Do("drop_cursors", v),
                                      Do("drop_mv_delta", v), Do("drop_data", v)}
           /\ ToSet(CleanupScript(v)) =
                {Do("drop_view", v), Do("drop_data", v), Do("drop_mv_delta", v),
                 Do("drop_cursors", v), Do("unpublish", v)}
<1>1. <<"lock", "hide">> \in Seq(ViewWords) /\ Len(<<"lock", "hide">>) = 2
  BY DEF ViewWords
<1>2. ToSet(<<"lock", "hide">>) = {"lock", "hide"}
  BY DEF ToSet
<1> DEFINE u == <<"unpublish", "drop_cursors", "drop_mv_delta", "drop_data">>
           c == <<"drop_view", "drop_data", "drop_mv_delta", "drop_cursors", "unpublish">>
<1>3. u \in Seq(ViewWords) /\ ToSet(u) = {"unpublish", "drop_cursors", "drop_mv_delta", "drop_data"}
  BY DEF ToSet, ViewWords
<1>4. c \in Seq(ViewWords)
      /\ ToSet(c) = {"drop_view", "drop_data", "drop_mv_delta", "drop_cursors", "unpublish"}
  BY DEF ToSet, ViewWords
<1>5. ToSet(<<Do("drop_view", v)>>) = {Do("drop_view", v)}
  BY DEF ToSet
<1>6. ToSet(Unregister(v)) = {Do("unpublish", v), Do("drop_cursors", v),
                              Do("drop_mv_delta", v), Do("drop_data", v)}
  <2>1. ToSet(OnView(v, u)) = {Do(w, v) : w \in ToSet(u)}
    BY ONLY <1>3, OnViewOK
  <2>2. {Do(w, v) : w \in {"unpublish", "drop_cursors", "drop_mv_delta", "drop_data"}} =
            {Do("unpublish", v), Do("drop_cursors", v), Do("drop_mv_delta", v), Do("drop_data", v)}
    OBVIOUS
  <2> QED
    BY <1>3, <2>1, <2>2 DEF Unregister
<1>7. ToSet(CleanupScript(v)) =
                {Do("drop_view", v), Do("drop_data", v), Do("drop_mv_delta", v),
                 Do("drop_cursors", v), Do("unpublish", v)}
  <2>1. ToSet(OnView(v, c)) = {Do(w, v) : w \in ToSet(c)}
    BY ONLY <1>4, OnViewOK
  <2>2. {Do(w, v) : w \in {"drop_view", "drop_data", "drop_mv_delta", "drop_cursors", "unpublish"}} =
            {Do("drop_view", v), Do("drop_data", v), Do("drop_mv_delta", v),
             Do("drop_cursors", v), Do("unpublish", v)}
    OBVIOUS
  <2> QED
    BY <1>4, <2>1, <2>2 DEF CleanupScript
<1>8. /\ Len(OnView(v, <<"lock", "hide">>)) = 2
      /\ OnView(v, <<"lock", "hide">>)[1] = Do("lock", v)
      /\ OnView(v, <<"lock", "hide">>)[2] = Do("hide", v)
  <2>1. /\ Len(OnView(v, <<"lock", "hide">>)) = Len(<<"lock", "hide">>)
        /\ \A i \in 1 .. Len(<<"lock", "hide">>) :
              OnView(v, <<"lock", "hide">>)[i] = Do(<<"lock", "hide">>[i], v)
    BY ONLY <1>1, OnViewOK
  <2> QED
    BY <1>1, <2>1
<1>9. ToSet(OnView(v, <<"lock", "hide">>)) = {Do("lock", v), Do("hide", v)}
  <2>1. ToSet(OnView(v, <<"lock", "hide">>)) = {Do(w, v) : w \in ToSet(<<"lock", "hide">>)}
    BY ONLY <1>1, OnViewOK
  <2> QED
    BY <1>2, <2>1
<1> QED
  BY <1>5, <1>6, <1>7, <1>8, <1>9

\* A statement is what it does and what it does it to.
LEMMA DoOK ==
    /\ \A a, b, x, y : Do(a, x) = Do(b, y) <=> a = b /\ x = y
    /\ \A a, x : Do(a, x).do = a /\ Do(a, x).of = x
    /\ \A a \in ViewWords : \A v \in Views : Do(a, v) \in Items
    /\ \A a \in TableWords : \A t \in Tables : Do(a, t) \in Items
    /\ \A x \in Items : x = Do(x.do, x.of)
    /\ \A x \in Items : (x.do \in ViewWords /\ x.of \in Views) \/ (x.do \in TableWords /\ x.of \in Tables)
<1>1. \A a, b, x, y : Do(a, x) = Do(b, y) => a = b /\ x = y
  <2> SUFFICES ASSUME NEW a, NEW b, NEW x, NEW y, Do(a, x) = Do(b, y)
               PROVE  a = b /\ x = y
    OBVIOUS
  <2>1. Do(a, x).do = a /\ Do(b, y).do = b /\ Do(a, x).of = x /\ Do(b, y).of = y
    BY DEF Do
  <2> QED
    BY <2>1
<1>2. \A a, x : Do(a, x).do = a /\ Do(a, x).of = x
  BY DEF Do
<1>3. \A x \in Items : x = Do(x.do, x.of)
  <2>1. \A x \in Items : /\ x.do \in ViewWords \union TableWords
                        /\ x.of \in Views \union Tables
                        /\ x \in [do : ViewWords \union TableWords, of : Views \union Tables]
    BY DEF Items
  <2>2. \A x \in [do : ViewWords \union TableWords, of : Views \union Tables] :
            x = [do |-> x.do, of |-> x.of]
    OBVIOUS
  <2> QED
    BY <2>1, <2>2 DEF Do
<1>4. /\ \A a \in ViewWords : \A v \in Views : Do(a, v) \in Items
      /\ \A a \in TableWords : \A t \in Tables : Do(a, t) \in Items
  BY DEF Do, Items
<1>5. \A x \in Items :
        (x.do \in ViewWords /\ x.of \in Views) \/ (x.do \in TableWords /\ x.of \in Tables)
  BY DEF Items
<1> QED
  BY <1>1, <1>2, <1>3, <1>4, <1>5

\* The members of a script are what it says at some place.
LEMMA Placed ==
    ASSUME NEW S, NEW q \in Seq(S)
    PROVE  /\ DOMAIN q = 1 .. Len(q) /\ Len(q) \in Nat
           /\ \A i \in DOMAIN q : q[i] \in ToSet(q)
           /\ \A x \in ToSet(q) : x \in S /\ \E i \in DOMAIN q : q[i] = x
           /\ q = <<>> <=> ToSet(q) = {}
<1>1. DOMAIN q = 1 .. Len(q) /\ Len(q) \in Nat /\ \A i \in 1 .. Len(q) : q[i] \in S
  OBVIOUS
<1>2. /\ \A i \in DOMAIN q : q[i] \in ToSet(q)
      /\ \A x \in ToSet(q) : \E i \in DOMAIN q : q[i] = x
  BY DEF ToSet
<1>3. q = <<>> => ToSet(q) = {}
  BY DEF ToSet
<1>4. ASSUME q # <<>> PROVE ToSet(q) # {}
  <2>1. ToSet(q) = {Head(q)} \union ToSet(Tail(q))
    BY <1>4, TailOK
  <2> QED
    BY <2>1
<1> QED
  BY <1>1, <1>2, <1>3, <1>4

\* A script keeps its shape as it goes on.
LEMMA ShapedTail ==
    ASSUME NEW S, NEW q \in Seq(S), q # <<>>, Shaped(q)
    PROVE  /\ Shaped(Tail(q)) /\ \A x \in ToSet(Tail(q)) : x.do # "lock"
           /\ Head(q).do \in CreateWords => \A x \in ToSet(q) : x.do \in CreateWords
           /\ Head(q).do = "annotate" => Tail(q) = <<>>
           /\ Head(q).do = "publish" => \A x \in ToSet(Tail(q)) : x.do = "annotate"
           /\ Head(q).do = "cursors" => \A x \in ToSet(Tail(q)) : x.do \in {"publish", "annotate"}
<1>1. /\ Len(q) \in Nat /\ Len(q) >= 1 /\ DOMAIN q = 1 .. Len(q)
      /\ Head(q) = q[1] /\ Tail(q) \in Seq(S)
      /\ Len(Tail(q)) = Len(q) - 1 /\ DOMAIN Tail(q) = 1 .. Len(q) - 1
      /\ \A i \in 1 .. Len(q) - 1 : Tail(q)[i] = q[i + 1]
  BY TailOK
<1>2. \A x \in ToSet(Tail(q)) : \E i \in 2 .. Len(q) : x = q[i]
  <2>1. \A x \in ToSet(Tail(q)) : \E i \in 1 .. Len(q) - 1 : x = q[i + 1]
    <3>1. \A x \in ToSet(Tail(q)) : \E i \in DOMAIN Tail(q) : Tail(q)[i] = x
      BY <1>1, Placed
    <3> QED
      BY <1>1, <3>1
  <2>2. \A i \in 1 .. Len(q) - 1 : i + 1 \in 2 .. Len(q)
    BY <1>1
  <2> QED
    BY <2>1, <2>2
<1>3. \A x \in ToSet(Tail(q)) : x.do # "lock"
  BY <1>1, <1>2 DEF Shaped, LocksFirst
<1>4. LocksFirst(Tail(q))
  BY <1>1, <1>3, Placed DEF LocksFirst
<1>5. CreatesLast(Tail(q)) /\ PublishesLast(Tail(q))
  BY <1>1 DEF Shaped, CreatesLast, PublishesLast
<1>6. Head(q).do \in CreateWords => \A x \in ToSet(q) : x.do \in CreateWords
  <2> SUFFICES ASSUME Head(q).do \in CreateWords, NEW i \in 1 .. Len(q)
               PROVE  q[i].do \in CreateWords
    BY <1>1, Placed
  <2> QED
    BY <1>1 DEF Shaped, CreatesLast
<1>7. /\ Head(q).do = "publish" => \A x \in ToSet(Tail(q)) : x.do = "annotate"
      /\ Head(q).do = "cursors" => \A x \in ToSet(Tail(q)) : x.do \in {"publish", "annotate"}
  BY <1>1, <1>2 DEF Shaped, PublishesLast
<1>8. Head(q).do = "annotate" => Tail(q) = <<>>
  <2>1. Head(q).do = "annotate" => Len(q) = 1
    BY <1>1 DEF Shaped, PublishesLast
  <2> QED
    BY <1>1, <2>1
<1> QED
  BY <1>3, <1>4, <1>5, <1>6, <1>7, <1>8 DEF Shaped

\* And when drops, or what a mutex is awaited for, come before the rest.
LEMMA ShapedConcat ==
    ASSUME NEW S, NEW p \in Seq(S), NEW q \in Seq(S), Shaped(p), Shaped(q),
           \A x \in ToSet(p) : x.do \notin CreateWords,
           \A x \in ToSet(q) : x.do # "lock"
    PROVE  Shaped(p \o q)
<1> DEFINE m == Len(p)
           n == Len(q)
           c == p \o q
<1>1. /\ c \in Seq(S) /\ Len(c) = m + n
      /\ DOMAIN p = 1 .. m /\ DOMAIN q = 1 .. n /\ m \in Nat /\ n \in Nat
      /\ DOMAIN c = 1 .. m + n
      /\ \A i \in 1 .. m : c[i] = p[i]
      /\ \A i \in 1 .. n : c[m + i] = q[i]
      /\ ToSet(c) = ToSet(p) \union ToSet(q)
  BY ConcatOK
<1>2. ASSUME NEW k \in 1 .. m + n
      PROVE  \/ k \in 1 .. m /\ c[k] = p[k] /\ p[k].do \notin CreateWords
             \/ k - m \in 1 .. n /\ c[k] = q[k - m] /\ q[k - m].do # "lock"
  <2>1. CASE k <= m
    BY <1>1, <2>1, Placed
  <2>2. CASE ~(k <= m)
    <3>1. k - m \in 1 .. n /\ m + (k - m) = k
      BY <1>1, <2>2
    <3>2. c[k] = q[k - m]
      BY <1>1, <3>1
    <3> QED
      BY <1>1, <3>1, <3>2, Placed
  <2> QED
    BY <2>1, <2>2
<1> HIDE DEF c, m
<1>3. CreatesLast(c)
  <2> SUFFICES ASSUME NEW i \in 1 .. m + n, NEW j \in 1 .. m + n, i < j,
                      c[i].do \in CreateWords
               PROVE  c[j].do \in CreateWords
    BY <1>1 DEF CreatesLast
  <2>1. i - m \in 1 .. n /\ c[i] = q[i - m]
    BY <1>2
  <2>2. j - m \in 1 .. n /\ c[j] = q[j - m]
    BY <1>1, <1>2, <2>1
  <2>3. CreatesLast(q) /\ i - m < j - m
    BY <1>1 DEF Shaped
  <2> QED
    BY <1>1, <2>1, <2>2, <2>3 DEF CreatesLast
<1>4. PublishesLast(c)
  <2> SUFFICES ASSUME NEW i \in 1 .. m + n, NEW j \in 1 .. m + n, i < j, c[i].do \in Ends
               PROVE  /\ c[i].do = "cursors" => c[j].do \in {"publish", "annotate"}
                      /\ c[i].do = "publish" => c[j].do = "annotate"
                      /\ c[i].do # "annotate"
    BY <1>1 DEF PublishesLast, Ends
  <2>1. i - m \in 1 .. n /\ c[i] = q[i - m]
    BY <1>2 DEF CreateWords, Ends
  <2>2. j - m \in 1 .. n /\ c[j] = q[j - m]
    BY <1>1, <1>2, <2>1
  <2>3. PublishesLast(q) /\ i - m < j - m
    BY <1>1 DEF Shaped
  <2>4. \A a, b \in 1 .. n :
            a < b => /\ q[a].do = "cursors" => q[b].do \in {"publish", "annotate"}
                     /\ q[a].do = "publish" => q[b].do = "annotate"
                     /\ q[a].do # "annotate"
    BY <1>1, <2>3 DEF PublishesLast
  <2>5. /\ q[i - m].do = "cursors" => q[j - m].do \in {"publish", "annotate"}
        /\ q[i - m].do = "publish" => q[j - m].do = "annotate"
        /\ q[i - m].do # "annotate"
    BY <2>1, <2>2, <2>3, <2>4
  <2> QED
    BY <2>1, <2>2, <2>5
<1>5. LocksFirst(c)
  <2> SUFFICES ASSUME NEW i \in 1 .. m + n, c[i].do = "lock"
               PROVE  i = 1 /\ Do("hide", c[i].of) \in ToSet(c)
    BY <1>1 DEF LocksFirst
  <2>1. i \in 1 .. m /\ c[i] = p[i]
    BY <1>2
  <2> QED
    BY <1>1, <2>1 DEF Shaped, LocksFirst
<1> QED
  BY <1>3, <1>4, <1>5 DEF Shaped, c

\* A script releases a mutex once: as it goes on, and when another that
\* releases others comes first.
LEMMA UnlocksTail ==
    ASSUME NEW S, NEW q \in Seq(S), q # <<>>, UnlocksOnce(q)
    PROVE  /\ UnlocksOnce(Tail(q))
           /\ Head(q).do = "unlock" => Head(q) \notin ToSet(Tail(q))
<1>1. /\ Len(q) \in Nat /\ Len(q) >= 1 /\ DOMAIN q = 1 .. Len(q)
      /\ Head(q) = q[1] /\ Tail(q) \in Seq(S)
      /\ Len(Tail(q)) = Len(q) - 1 /\ DOMAIN Tail(q) = 1 .. Len(q) - 1
      /\ \A i \in 1 .. Len(q) - 1 : Tail(q)[i] = q[i + 1]
  BY TailOK
<1>2. \A x \in ToSet(Tail(q)) : \E i \in 1 .. Len(q) - 1 : x = q[i + 1]
  <2>1. \A x \in ToSet(Tail(q)) : \E i \in DOMAIN Tail(q) : Tail(q)[i] = x
    BY <1>1, Placed
  <2> QED
    BY <1>1, <2>1
<1>3. \A i \in 1 .. Len(q) - 1 : i + 1 \in 1 .. Len(q) /\ i + 1 # 1
  BY <1>1
<1>4. Head(q).do = "unlock" => Head(q) \notin ToSet(Tail(q))
  BY <1>1, <1>2, <1>3 DEF UnlocksOnce
<1>5. UnlocksOnce(Tail(q))
  BY <1>1, <1>3 DEF UnlocksOnce
<1> QED
  BY <1>4, <1>5

\* When a script comes before what is left of another, no mutex is released twice.
LEMMA UnlocksConcat ==
    ASSUME NEW S, NEW p \in Seq(S), NEW q \in Seq(S), UnlocksOnce(p), UnlocksOnce(q),
           \A x \in ToSet(p) : x.do = "unlock" => x \notin ToSet(q)
    PROVE  UnlocksOnce(p \o q)
<1> DEFINE m == Len(p)
           n == Len(q)
<1>1. /\ DOMAIN p = 1 .. m /\ DOMAIN q = 1 .. n /\ m \in Nat /\ n \in Nat
      /\ DOMAIN (p \o q) = 1 .. m + n
      /\ \A i \in 1 .. m : (p \o q)[i] = p[i]
      /\ \A i \in 1 .. n : (p \o q)[m + i] = q[i]
  BY ConcatOK
<1>2. ASSUME NEW k \in 1 .. m + n
      PROVE  \/ k \in 1 .. m /\ (p \o q)[k] = p[k] /\ p[k] \in ToSet(p)
             \/ k - m \in 1 .. n /\ (p \o q)[k] = q[k - m] /\ q[k - m] \in ToSet(q)
  <2>1. CASE k <= m
    BY <1>1, <2>1, Placed
  <2>2. CASE ~(k <= m)
    <3>1. k - m \in 1 .. n /\ m + (k - m) = k
      BY <1>1, <2>2
    <3>2. (p \o q)[k] = q[k - m]
      BY <1>1, <3>1
    <3> QED
      BY <1>1, <3>1, <3>2, Placed
  <2> QED
    BY <2>1, <2>2
<1> HIDE DEF m, n
<1> SUFFICES ASSUME NEW i \in 1 .. m + n, NEW j \in 1 .. m + n,
                    (p \o q)[i].do = "unlock", (p \o q)[i] = (p \o q)[j]
             PROVE  i = j
  BY <1>1 DEF UnlocksOnce
<1>3. CASE i \in 1 .. m /\ (p \o q)[i] = p[i] /\ p[i] \in ToSet(p)
  <2>1. j \in 1 .. m /\ (p \o q)[j] = p[j]
    BY <1>2, <1>3
  <2> QED
    BY <1>1, <1>3, <2>1 DEF UnlocksOnce
<1>4. CASE i - m \in 1 .. n /\ (p \o q)[i] = q[i - m] /\ q[i - m] \in ToSet(q)
  <2>1. j - m \in 1 .. n /\ (p \o q)[j] = q[j - m]
    BY <1>2, <1>4
  <2>2. i - m = j - m
    BY <1>1, <1>4, <2>1 DEF UnlocksOnce
  <2> QED
    BY <1>1, <2>2
<1> QED
  BY <1>2, <1>3, <1>4

\* A script of members of a set is one of a larger set.
LEMMA Wider ==
    ASSUME NEW S, NEW T, S \subseteq T, NEW q \in Seq(S)
    PROVE  q \in Seq(T)
  OBVIOUS

\* Without creations, publications and waiting, any script has its shape.
LEMMA Shapeless ==
    ASSUME NEW S, NEW q \in Seq(S), \A x \in ToSet(q) : x.do \notin CreateWords \union {"lock"}
    PROVE  Shaped(q)
<1>1. \A i \in DOMAIN q : q[i].do \notin CreateWords \union {"lock"}
  BY Placed
<1> QED
  BY <1>1 DEF Shaped, CreatesLast, PublishesLast, LocksFirst, CreateWords

\* A script without unlocks releases nothing twice.
LEMMA Unlocking ==
    ASSUME NEW S, NEW q \in Seq(S), \A x \in ToSet(q) : x.do # "unlock"
    PROVE  UnlocksOnce(q)
<1>1. \A i \in DOMAIN q : q[i].do # "unlock"
  BY Placed
<1> QED
  BY <1>1 DEF UnlocksOnce

\* The statements that drop a view, but for the table's delta tables.
Dropping(v) == {Do("unpublish", v), Do("drop_cursors", v), Do("drop_mv_delta", v), Do("drop_data", v)}

\* What takes a view out of the catalog and drops its tables.
LEMMA UnregisterOK ==
    ASSUME NEW v \in Views
    PROVE  /\ Unregister(v) \in Seq(Items) /\ ToSet(Unregister(v)) = Dropping(v)
           /\ Dropping(v) \subseteq Items
<1>1. Dropping(v) \subseteq Items
  BY DoOK DEF Dropping, ViewWords
<1>2. ToSet(Unregister(v)) = Dropping(v)
  BY WordsOK DEF Dropping
<1>3. Unregister(v) \in Seq({Do(w, v) : w \in ViewWords})
  <2> DEFINE u == <<"unpublish", "drop_cursors", "drop_mv_delta", "drop_data">>
  <2>1. u \in Seq(ViewWords)
    BY DEF ViewWords
  <2> HIDE DEF u
  <2>2. OnView(v, u) \in Seq({Do(w, v) : w \in ViewWords})
    BY <2>1, OnViewOK
  <2> QED
    BY <2>2 DEF Unregister, u
<1>4. {Do(w, v) : w \in ViewWords} \subseteq Items
  BY DoOK
<1> QED
  BY <1>1, <1>2, <1>3, <1>4, Wider

\* What a script for the delta tables of some tables says.
LEMMA EachTableOK ==
    ASSUME NEW S \in SUBSET Tables, NEW what \in TableWords
    PROVE  /\ Each(what, S) \in Seq(Items)
           /\ ToSet(Each(what, S)) = {Do(what, t) : t \in S}
<1>1. IsFiniteSet(S)
  BY SourcesAssumption, FS_Subset
<1>2. {Do(what, t) : t \in S} \subseteq Items
  BY DoOK
<1> DEFINE D == {Do(what, t) : t \in S}
<1>3. Each(what, S) \in Seq(D) /\ ToSet(Each(what, S)) = D
  BY <1>1, EachOK
<1> HIDE DEF D
<1>4. Each(what, S) \in Seq(Items)
  BY <1>2, <1>3, Wider DEF D
<1> QED
  BY <1>3, <1>4 DEF D

\* The script of the rule, which releases its mutex last.
LEMMA RuleOK ==
    ASSUME NEW v \in Views
    PROVE  /\ RuleScript(v) \in Seq(Items)
           /\ ToSet(RuleScript(v)) = Dropping(v) \union {Do("drop_delta", t) : t \in SourcesOf(v)}
                                        \union {Do("unlock", v)}
           /\ UnlocksOnce(RuleScript(v)) /\ Shaped(RuleScript(v))
<1> DEFINE u == Unregister(v)
           e == Each("drop_delta", SourcesOf(v))
           l == <<Do("unlock", v)>>
           r == (u \o e) \o l
<1>1. u \in Seq(Items) /\ ToSet(u) = Dropping(v)
  BY UnregisterOK
<1>2. e \in Seq(Items) /\ ToSet(e) = {Do("drop_delta", t) : t \in SourcesOf(v)}
  BY EachTableOK DEF SourcesOf, TableWords
<1>3. l \in Seq(Items) /\ ToSet(l) = {Do("unlock", v)}
  <2>1. Do("unlock", v) \in Items
    BY DoOK DEF ViewWords
  <2> QED
    BY <2>1 DEF ToSet
<1>4. RuleScript(v) = r
  BY DEF RuleScript
<1>5. UnlocksOnce(l)
  BY <1>3 DEF UnlocksOnce
<1> HIDE DEF u, e, l
<1>6. u \o e \in Seq(Items)
      /\ ToSet(u \o e) = Dropping(v) \union {Do("drop_delta", t) : t \in SourcesOf(v)}
  BY <1>1, <1>2, ConcatOK
<1>7. r \in Seq(Items) /\ ToSet(r) = ToSet(u \o e) \union {Do("unlock", v)}
  <2> HIDE DEF r
  <2> DEFINE k == u \o e
  <2>1. k \in Seq(Items) /\ r = k \o l
    BY <1>6 DEF r
  <2> HIDE DEF k
  <2>2. r \in Seq(Items) /\ ToSet(r) = ToSet(k) \union ToSet(l)
    BY <1>3, <2>1, ConcatOK
  <2> QED
    BY <1>3, <2>2 DEF k
<1>8. \A x \in ToSet(u \o e) : x.do \notin {"unlock", "lock"} \union CreateWords
  BY <1>6, DoOK DEF Dropping, CreateWords
<1>9. UnlocksOnce(u \o e)
  BY <1>6, <1>8, Unlocking
<1>10. UnlocksOnce(r)
  BY <1>3, <1>5, <1>6, <1>8, <1>9, UnlocksConcat
<1>11. Shaped(r)
  <2>1. \A x \in ToSet(r) : x.do \notin CreateWords \union {"lock"}
    BY <1>7, <1>8, DoOK DEF CreateWords
  <2> QED
    BY <1>7, <2>1, Shapeless
<1> QED
  BY <1>4, <1>6, <1>7, <1>10, <1>11

\* The script of the rule for a view that depends on a dropped table.
LEMMA DependentOK ==
    ASSUME NEW v \in Views
    PROVE  /\ DependentScript(v) \in Seq(Items)
           /\ ToSet(DependentScript(v)) =
                Dropping(v) \union {Do("drop_view", v)}
                    \union {Do("drop_delta", t) : t \in SourcesOf(v)} \union {Do("unlock", v)}
           /\ UnlocksOnce(DependentScript(v)) /\ Shaped(DependentScript(v))
<1> DEFINE u == Unregister(v)
           d == <<Do("drop_view", v)>>
           e == Each("drop_delta", SourcesOf(v))
           l == <<Do("unlock", v)>>
           r == ((u \o d) \o e) \o l
<1>1. u \in Seq(Items) /\ ToSet(u) = Dropping(v)
  BY UnregisterOK
<1>2. e \in Seq(Items) /\ ToSet(e) = {Do("drop_delta", t) : t \in SourcesOf(v)}
  BY EachTableOK DEF SourcesOf, TableWords
<1>3. /\ l \in Seq(Items) /\ ToSet(l) = {Do("unlock", v)}
      /\ d \in Seq(Items) /\ ToSet(d) = {Do("drop_view", v)}
  <2>1. Do("unlock", v) \in Items /\ Do("drop_view", v) \in Items
    BY DoOK DEF ViewWords
  <2> QED
    BY <2>1 DEF ToSet
<1>4. DependentScript(v) = r
  BY DEF DependentScript
<1>5. UnlocksOnce(l)
  BY <1>3 DEF UnlocksOnce
<1> HIDE DEF u, e, l, d
<1>6. /\ u \o d \in Seq(Items) /\ ToSet(u \o d) = Dropping(v) \union {Do("drop_view", v)}
      /\ (u \o d) \o e \in Seq(Items)
      /\ ToSet((u \o d) \o e) = Dropping(v) \union {Do("drop_view", v)}
                                    \union {Do("drop_delta", t) : t \in SourcesOf(v)}
  <2>1. u \o d \in Seq(Items) /\ ToSet(u \o d) = Dropping(v) \union {Do("drop_view", v)}
    BY <1>1, <1>3, ConcatOK
  <2> DEFINE k == u \o d
  <2>3. k \in Seq(Items)
    BY <2>1
  <2> HIDE DEF k
  <2>2. k \o e \in Seq(Items) /\ ToSet(k \o e) = ToSet(k) \union ToSet(e)
    BY <1>2, <2>3, ConcatOK
  <2> QED
    BY <1>2, <2>1, <2>2 DEF k
<1>7. r \in Seq(Items) /\ ToSet(r) = ToSet((u \o d) \o e) \union {Do("unlock", v)}
  <2> HIDE DEF r
  <2> DEFINE k == (u \o d) \o e
  <2>1. k \in Seq(Items) /\ r = k \o l
    BY <1>6 DEF r
  <2> HIDE DEF k
  <2>2. r \in Seq(Items) /\ ToSet(r) = ToSet(k) \union ToSet(l)
    BY <1>3, <2>1, ConcatOK
  <2> QED
    BY <1>3, <2>2 DEF k
<1>8. \A x \in ToSet((u \o d) \o e) : x.do \notin {"unlock", "lock"} \union CreateWords
  BY <1>6, DoOK DEF Dropping, CreateWords
<1>9. UnlocksOnce((u \o d) \o e)
  BY <1>6, <1>8, Unlocking
<1>10. UnlocksOnce(r)
  BY <1>3, <1>5, <1>6, <1>8, <1>9, UnlocksConcat
<1>11. Shaped(r)
  <2>1. \A x \in ToSet(r) : x.do \notin CreateWords \union {"lock"}
    BY <1>7, <1>8, DoOK DEF CreateWords
  <2> QED
    BY <1>7, <2>1, Shapeless
<1> QED
  BY <1>4, <1>6, <1>7, <1>10, <1>11

\* The script that undoes a CREATE.
LEMMA CleanupOK ==
    ASSUME NEW v \in Views
    PROVE  /\ CleanupScript(v) \in Seq(Items)
           /\ ToSet(CleanupScript(v)) = Dropping(v) \union {Do("drop_view", v)}
           /\ UnlocksOnce(CleanupScript(v)) /\ Shaped(CleanupScript(v))
<1>1. ToSet(CleanupScript(v)) = Dropping(v) \union {Do("drop_view", v)}
  BY WordsOK DEF Dropping
<1>2. CleanupScript(v) \in Seq(Items)
  <2> DEFINE c == <<"drop_view", "drop_data", "drop_mv_delta", "drop_cursors", "unpublish">>
  <2>1. c \in Seq(ViewWords)
    BY DEF ViewWords
  <2> HIDE DEF c
  <2>2. OnView(v, c) \in Seq({Do(w, v) : w \in ViewWords})
    BY <2>1, OnViewOK
  <2>3. {Do(w, v) : w \in ViewWords} \subseteq Items
    BY DoOK
  <2> QED
    BY <2>2, <2>3, Wider DEF CleanupScript, c
<1>3. \A x \in ToSet(CleanupScript(v)) : x.do \notin CreateWords \union {"lock", "unlock"}
  BY <1>1, DoOK DEF Dropping, CreateWords
<1> QED
  BY <1>1, <1>2, <1>3, Shapeless, Unlocking

\* The script of DROP TABLE ... CASCADE.
LEMMA CascadeOK ==
    ASSUME NEW t \in Tables
    PROVE  /\ CascadeScript(t) \in Seq(Items)
           /\ ToSet(CascadeScript(t)) =
                {Do("lock_dependent", v) : v \in {u \in Views : t \in SourcesOf(u)}}
                    \union {Do("drop_base", t)}
           /\ UnlocksOnce(CascadeScript(t)) /\ Shaped(CascadeScript(t))
<1> DEFINE V == {u \in Views : t \in SourcesOf(u)}
           e == Each("lock_dependent", V)
           d == <<Do("drop_base", t)>>
<1>1. IsFiniteSet(V)
  BY SourcesAssumption, FS_Subset
<1>2. {Do("lock_dependent", v) : v \in V} \subseteq Items
  BY DoOK DEF ViewWords
<1>3. e \in Seq(Items) /\ ToSet(e) = {Do("lock_dependent", v) : v \in V}
  <2> HIDE DEF V
  <2> DEFINE D == {Do("lock_dependent", v) : v \in V}
  <2>1. Each("lock_dependent", V) \in Seq(D) /\ ToSet(Each("lock_dependent", V)) = D
    BY <1>1, EachOK
  <2> HIDE DEF D
  <2>2. Each("lock_dependent", V) \in Seq(Items)
    BY <1>2, <2>1, Wider DEF D
  <2> QED
    BY <2>1, <2>2 DEF D
<1>4. d \in Seq(Items) /\ ToSet(d) = {Do("drop_base", t)}
  <2>1. Do("drop_base", t) \in Items
    BY DoOK DEF TableWords
  <2> QED
    BY <2>1 DEF ToSet
<1> HIDE DEF V, e, d
<1>5. e \o d \in Seq(Items) /\ ToSet(e \o d) = {Do("lock_dependent", v) : v \in V} \union {Do("drop_base", t)}
  BY <1>3, <1>4, ConcatOK
<1>6. \A x \in ToSet(e \o d) : x.do \notin CreateWords \union {"lock", "unlock"}
  BY <1>5, DoOK DEF CreateWords
<1>7. CascadeScript(t) = e \o d
  BY DEF CascadeScript, e, d, V
<1> QED
  BY <1>5, <1>6, <1>7, Shapeless, Unlocking DEF V

\* Scripts about one view, one after the other.
LEMMA OnViewConcat ==
    ASSUME NEW v, NEW W, NEW p \in Seq(W), NEW q \in Seq(W)
    PROVE  OnView(v, p \o q) = OnView(v, p) \o OnView(v, q)
<1> DEFINE D == {Do(w, v) : w \in W}
           l == OnView(v, p \o q)
           r == OnView(v, p) \o OnView(v, q)
<1>1. /\ p \o q \in Seq(W) /\ Len(p \o q) = Len(p) + Len(q)
      /\ Len(p) \in Nat /\ Len(q) \in Nat
      /\ \A i \in 1 .. Len(p) : (p \o q)[i] = p[i]
      /\ \A i \in 1 .. Len(q) : (p \o q)[Len(p) + i] = q[i]
  BY ConcatOK
<1>2. /\ l \in Seq(D) /\ Len(l) = Len(p) + Len(q)
      /\ \A i \in 1 .. Len(p) + Len(q) : l[i] = Do((p \o q)[i], v)
  <2>1. /\ l \in Seq(D) /\ Len(l) = Len(p \o q)
        /\ \A i \in 1 .. Len(p \o q) : l[i] = Do((p \o q)[i], v)
    BY <1>1, OnViewOK
  <2> QED
    BY <1>1, <2>1
<1>3. /\ OnView(v, p) \in Seq(D) /\ Len(OnView(v, p)) = Len(p)
      /\ \A i \in 1 .. Len(p) : OnView(v, p)[i] = Do(p[i], v)
  BY OnViewOK
<1>4. /\ OnView(v, q) \in Seq(D) /\ Len(OnView(v, q)) = Len(q)
      /\ \A i \in 1 .. Len(q) : OnView(v, q)[i] = Do(q[i], v)
  BY OnViewOK
<1> HIDE DEF D
<1>5. /\ r \in Seq(D) /\ Len(r) = Len(p) + Len(q)
      /\ \A i \in 1 .. Len(p) : r[i] = Do(p[i], v)
      /\ \A i \in 1 .. Len(q) : r[Len(p) + i] = Do(q[i], v)
  <2> DEFINE a == OnView(v, p)
             b == OnView(v, q)
  <2>1. a \in Seq(D) /\ b \in Seq(D) /\ Len(a) = Len(p) /\ Len(b) = Len(q)
    BY <1>3, <1>4
  <2> HIDE DEF a, b
  <2>3. a \in Seq(D) /\ b \in Seq(D)
    BY <2>1
  <2>2. /\ a \o b \in Seq(D) /\ Len(a \o b) = Len(a) + Len(b)
        /\ DOMAIN a = 1 .. Len(a) /\ DOMAIN b = 1 .. Len(b)
        /\ Len(a) \in Nat /\ Len(b) \in Nat /\ DOMAIN (a \o b) = 1 .. Len(a) + Len(b)
        /\ \A i \in 1 .. Len(a) : (a \o b)[i] = a[i]
        /\ \A i \in 1 .. Len(b) : (a \o b)[Len(a) + i] = b[i]
        /\ ToSet(a \o b) = ToSet(a) \union ToSet(b)
    BY ONLY <2>3, ConcatOK
  <2> QED
    BY <1>3, <1>4, <2>1, <2>2 DEF a, b
<1> HIDE DEF l, r
<1>6. ASSUME NEW i \in 1 .. Len(p) + Len(q)
      PROVE  l[i] = r[i]
  <2>1. CASE i <= Len(p)
    BY <1>1, <1>2, <1>5, <2>1
  <2>2. CASE ~(i <= Len(p))
    <3>1. i - Len(p) \in 1 .. Len(q) /\ Len(p) + (i - Len(p)) = i
      BY <1>1, <2>2
    <3> QED
      BY <1>1, <1>2, <1>5, <3>1
  <2> QED
    BY <2>1, <2>2
<1>7. /\ DOMAIN l = 1 .. Len(p) + Len(q) /\ DOMAIN r = 1 .. Len(p) + Len(q)
      /\ l = [i \in DOMAIN l |-> l[i]] /\ r = [i \in DOMAIN r |-> r[i]]
  BY <1>2, <1>5
<1>8. l = r
  BY <1>6, <1>7
<1> QED
  BY <1>8 DEF l, r

\* Creations may follow what has its shape and publishes nothing.
LEMMA CreatesAfter ==
    ASSUME NEW S, NEW p \in Seq(S), NEW q \in Seq(S), Shaped(p), PublishesLast(q),
           \A x \in ToSet(p) : x.do \notin Ends,
           \A x \in ToSet(q) : x.do \in CreateWords
    PROVE  Shaped(p \o q)
<1> DEFINE m == Len(p)
           n == Len(q)
<1>1. /\ p \o q \in Seq(S) /\ Len(p \o q) = m + n
      /\ DOMAIN p = 1 .. m /\ DOMAIN q = 1 .. n /\ m \in Nat /\ n \in Nat
      /\ DOMAIN (p \o q) = 1 .. m + n
      /\ \A i \in 1 .. m : (p \o q)[i] = p[i]
      /\ \A i \in 1 .. n : (p \o q)[m + i] = q[i]
      /\ ToSet(p \o q) = ToSet(p) \union ToSet(q)
  BY ConcatOK
<1>2. ASSUME NEW k \in 1 .. m + n
      PROVE  \/ k \in 1 .. m /\ (p \o q)[k] = p[k] /\ p[k].do \notin Ends
             \/ k > m /\ k - m \in 1 .. n /\ (p \o q)[k] = q[k - m] /\ q[k - m].do \in CreateWords
  <2>1. CASE k <= m
    BY <1>1, <2>1, Placed
  <2>2. CASE ~(k <= m)
    <3>1. k - m \in 1 .. n /\ m + (k - m) = k /\ k > m
      BY <1>1, <2>2
    <3>2. (p \o q)[k] = q[k - m]
      BY <1>1, <3>1
    <3> QED
      BY <1>1, <3>1, <3>2, Placed
  <2> QED
    BY <2>1, <2>2
<1> HIDE DEF m, n
<1>3. CreatesLast(p \o q)
  <2> SUFFICES ASSUME NEW i \in 1 .. m + n, NEW j \in 1 .. m + n, i < j,
                      (p \o q)[i].do \in CreateWords, j \in 1 .. m
               PROVE  (p \o q)[j].do \in CreateWords
    BY <1>1, <1>2 DEF CreatesLast
  <2>1. i \in 1 .. m
    BY <1>1
  <2> QED
    BY <1>1, <2>1 DEF Shaped, CreatesLast
<1>4. PublishesLast(p \o q)
  <2> SUFFICES ASSUME NEW i \in 1 .. m + n, NEW j \in 1 .. m + n, i < j, (p \o q)[i].do \in Ends
               PROVE  /\ (p \o q)[i].do = "cursors" => (p \o q)[j].do \in {"publish", "annotate"}
                      /\ (p \o q)[i].do = "publish" => (p \o q)[j].do = "annotate"
                      /\ (p \o q)[i].do # "annotate"
    BY <1>1 DEF PublishesLast, Ends
  <2>1. i - m \in 1 .. n /\ (p \o q)[i] = q[i - m] /\ i > m
    BY <1>1, <1>2
  <2>2. j - m \in 1 .. n /\ (p \o q)[j] = q[j - m]
    BY <1>1, <1>2, <2>1
  <2>3. i - m < j - m
    BY <1>1
  <2>4. \A a, b \in 1 .. n :
            a < b => /\ q[a].do = "cursors" => q[b].do \in {"publish", "annotate"}
                     /\ q[a].do = "publish" => q[b].do = "annotate"
                     /\ q[a].do # "annotate"
    BY <1>1, <2>3 DEF PublishesLast
  <2>5. /\ q[i - m].do = "cursors" => q[j - m].do \in {"publish", "annotate"}
        /\ q[i - m].do = "publish" => q[j - m].do = "annotate"
        /\ q[i - m].do # "annotate"
    BY <2>1, <2>2, <2>3, <2>4
  <2> QED
    BY <2>1, <2>2, <2>5
<1>5. LocksFirst(p \o q)
  <2> SUFFICES ASSUME NEW i \in 1 .. m + n, (p \o q)[i].do = "lock"
               PROVE  i = 1 /\ Do("hide", (p \o q)[i].of) \in ToSet(p \o q)
    BY <1>1 DEF LocksFirst
  <2>1. i \in 1 .. m /\ (p \o q)[i] = p[i]
    BY <1>2 DEF CreateWords
  <2> QED
    BY <1>1, <2>1 DEF Shaped, LocksFirst
<1> QED
  BY <1>3, <1>4, <1>5 DEF Shaped

\* What a CREATE of v creates before it publishes it.
Creating1(v) ==
    {Do("load", v), Do("create_view", v), Do("create_mv_delta", v), Do("cursors", v)}
        \union {Do("create_delta", t) : t \in Sources[v]}

\* What makes it visible, and completes its metadata.
Publishing(v) == {Do("publish", v), Do("annotate", v)}

\* What it does before it creates.
Preparing(v, replace) ==
    IF replace THEN {Do("drop_view", v), Do("drop_data", v), Do("drop_mv_delta", v), Do("drop_cursors", v)}
    ELSE {Do("drop_stale", v), Do("duplicate", v)}

\* What CREATE has to do.
LEMMA CreatesOK ==
    ASSUME NEW v \in Views, NEW replace \in BOOLEAN
    PROVE  /\ \A x \in Preparing(v, replace) :
                  /\ x.of = v /\ x.do \notin CreateWords
                  /\ x.do \in {"drop_view", "drop_data", "drop_mv_delta", "drop_cursors",
                               "drop_stale", "duplicate"}
           /\ \A x \in Creating1(v) :
                  x.do \in {"load", "create_view", "create_mv_delta", "cursors", "create_delta"}
           /\ \A x \in Publishing(v) : x.of = v /\ x.do \in {"publish", "annotate"}
<1>1. \A x \in Preparing(v, replace) :
          /\ x.of = v
          /\ x.do \in {"drop_view", "drop_data", "drop_mv_delta", "drop_cursors",
                       "drop_stale", "duplicate"}
  <2>1. CASE replace
    BY <2>1, DoOK DEF Preparing
  <2>2. CASE ~replace
    BY <2>2, DoOK DEF Preparing
  <2> QED
    BY <2>1, <2>2
<1>2. \A x \in Creating1(v) :
          x.do \in {"load", "create_view", "create_mv_delta", "cursors", "create_delta"}
  BY DoOK DEF Creating1
<1>3. \A x \in Publishing(v) : x.of = v /\ x.do \in {"publish", "annotate"}
  BY DoOK DEF Publishing
<1> QED
  BY <1>1, <1>2, <1>3 DEF CreateWords

\* The script of CREATE has its shape, and has to do all that it must.
LEMMA CreateOK ==
    ASSUME NEW v \in Views, NEW replace \in BOOLEAN
    PROVE  /\ CreateScript(v, replace) \in Seq(Items)
           /\ ToSet(CreateScript(v, replace)) =
                Preparing(v, replace) \union Creating1(v) \union Publishing(v)
           /\ UnlocksOnce(CreateScript(v, replace)) /\ Shaped(CreateScript(v, replace))
           /\ CreateScript(v, replace) # <<>>
           /\ CreateScript(v, replace)[Len(CreateScript(v, replace))] = Do("annotate", v)
<1> DEFINE x == IF replace THEN ReplaceScript ELSE <<"drop_stale", "duplicate">>
           l == <<"load", "create_view">>
           z == <<"create_mv_delta", "cursors", "publish", "annotate">>
           a == OnView(v, x)
           b == OnView(v, l)
           e == Each("create_delta", Sources[v])
           c == OnView(v, z)
           abe == (a \o b) \o e
           X == IF replace THEN {"drop_view", "drop_data", "drop_mv_delta", "drop_cursors"}
                ELSE {"drop_stale", "duplicate"}
<1>1. /\ x \in Seq(ViewWords) /\ l \in Seq(ViewWords) /\ z \in Seq(ViewWords)
      /\ ToSet(x) = X /\ ToSet(l) = {"load", "create_view"}
      /\ ToSet(z) = {"create_mv_delta", "cursors", "publish", "annotate"}
  <2>1. /\ ReplaceScript \in Seq(ViewWords)
        /\ ToSet(ReplaceScript) = {"drop_view", "drop_data", "drop_mv_delta", "drop_cursors"}
    BY DEF ToSet, ViewWords, ReplaceScript
  <2>2. /\ <<"drop_stale", "duplicate">> \in Seq(ViewWords)
        /\ ToSet(<<"drop_stale", "duplicate">>) = {"drop_stale", "duplicate"}
    BY DEF ToSet, ViewWords
  <2>3. l \in Seq(ViewWords) /\ ToSet(l) = {"load", "create_view"}
    BY DEF ToSet, ViewWords
  <2>4. z \in Seq(ViewWords) /\ ToSet(z) = {"create_mv_delta", "cursors", "publish", "annotate"}
    BY DEF ToSet, ViewWords
  <2> QED
    BY <2>1, <2>2, <2>3, <2>4
<1>2. CreateScript(v, replace) = abe \o c
  <2>1. OnView(v, x \o l) = a \o b
    <3> HIDE DEF x, l
    <3> QED
      BY <1>1, OnViewConcat
  <2> QED
    BY <2>1 DEF CreateScript
<1>3. PublishesLast(c) /\ Len(c) = 4 /\ c[4] = Do("annotate", v)
  BY DEF OnView, PublishesLast, Do
<1> HIDE DEF x, l, z
<1>4. {Do(w, v) : w \in ViewWords} \subseteq Items
  BY DoOK
<1>5. /\ a \in Seq(Items) /\ ToSet(a) = {Do(w, v) : w \in X}
      /\ b \in Seq(Items) /\ ToSet(b) = {Do(w, v) : w \in {"load", "create_view"}}
      /\ c \in Seq(Items) /\ ToSet(c) = {Do(w, v) : w \in {"create_mv_delta", "cursors", "publish", "annotate"}}
  <2> DEFINE D == {Do(w, v) : w \in ViewWords}
  <2>1. /\ a \in Seq(D) /\ ToSet(a) = {Do(w, v) : w \in ToSet(x)}
        /\ b \in Seq(D) /\ ToSet(b) = {Do(w, v) : w \in ToSet(l)}
        /\ c \in Seq(D) /\ ToSet(c) = {Do(w, v) : w \in ToSet(z)}
    <3>1. \A y \in Seq(ViewWords) : /\ OnView(v, y) \in Seq(D)
                                    /\ ToSet(OnView(v, y)) = {Do(w, v) : w \in ToSet(y)}
      BY OnViewOK
    <3> HIDE DEF D
    <3> QED
      BY <1>1, <3>1
  <2> HIDE DEF D, a, b, c, X
  <2>2. a \in Seq(Items) /\ b \in Seq(Items) /\ c \in Seq(Items)
    BY <1>4, <2>1, Wider DEF D
  <2> QED
    BY <1>1, <2>1, <2>2
<1>6. /\ ToSet(a) = Preparing(v, replace)
      /\ ToSet(b) = {Do("load", v), Do("create_view", v)}
      /\ ToSet(c) = {Do("create_mv_delta", v), Do("cursors", v)} \union Publishing(v)
  BY <1>5 DEF Preparing, Publishing
<1>7. e \in Seq(Items) /\ ToSet(e) = {Do("create_delta", t) : t \in Sources[v]}
  BY EachTableOK, SourcesAssumption DEF TableWords
<1> DEFINE C == {Do("create_delta", t) : t \in Sources[v]}
<1>8. C = {Do("create_delta", t) : t \in Sources[v]}
  OBVIOUS
<1> HIDE DEF a, b, c, e, abe, C
<1>9. /\ a \o b \in Seq(Items)
      /\ ToSet(a \o b) = Preparing(v, replace) \union {Do("load", v), Do("create_view", v)}
  <2>1. a \o b \in Seq(Items) /\ ToSet(a \o b) = ToSet(a) \union ToSet(b)
    BY ONLY <1>5, ConcatOK
  <2> QED
    BY <1>6, <2>1
<1> DEFINE ab == a \o b
<1>10. ab \in Seq(Items) /\ abe = ab \o e
  BY <1>9 DEF abe
<1> HIDE DEF ab
<1>11. abe \in Seq(Items) /\ ToSet(abe) = ToSet(ab) \union C
  <2>1. abe \in Seq(Items) /\ ToSet(abe) = ToSet(ab) \union ToSet(e)
    BY <1>7, <1>10, ConcatOK
  <2> QED
    BY <1>7, <1>8, <2>1
<1>12. abe \o c \in Seq(Items) /\ ToSet(abe \o c) = ToSet(abe) \union ToSet(c)
  BY <1>5, <1>11, ConcatOK
<1>13. ToSet(abe \o c) = Preparing(v, replace) \union Creating1(v) \union Publishing(v)
  BY <1>6, <1>8, <1>9, <1>11, <1>12 DEF ab, Creating1
<1>14. /\ \A i \in Preparing(v, replace) : i.do \notin CreateWords \union {"lock", "unlock"}
       /\ \A i \in Creating1(v) : i.do \in CreateWords \ {"publish", "annotate"}
       /\ \A i \in Publishing(v) : i.do \in {"publish", "annotate"}
  BY CreatesOK, DoOK DEF Preparing, Creating1, CreateWords
<1>15. \A i \in ToSet(abe \o c) : i.do # "unlock"
  BY <1>13, <1>14, DoOK DEF CreateWords
<1>16. UnlocksOnce(abe \o c)
  <2> DEFINE w == abe \o c
  <2>1. w \in Seq(Items) /\ \A i \in ToSet(w) : i.do # "unlock"
    BY <1>12, <1>15
  <2> HIDE DEF w
  <2>2. UnlocksOnce(w)
    BY <2>1, Unlocking
  <2> QED
    BY <2>2 DEF w
<1>17. Shaped(a)
  BY <1>5, <1>6, <1>14, Shapeless
<1>18. Shaped(ab)
  <2>1. \A i \in ToSet(b) : i.do \in CreateWords \ Ends
    BY <1>6, DoOK DEF CreateWords, Ends
  <2>2. PublishesLast(b)
    BY <1>5, <2>1, Placed DEF PublishesLast, Ends
  <2>3. \A i \in ToSet(a) : i.do \notin Ends
    BY <1>6, <1>14 DEF CreateWords, Ends
  <2> QED
    BY <1>5, <1>17, <2>1, <2>2, <2>3, CreatesAfter DEF ab
<1>19. Shaped(abe)
  <2>1. \A i \in ToSet(e) : i.do \in CreateWords \ Ends
    BY <1>7, DoOK DEF CreateWords, Ends
  <2>2. PublishesLast(e)
    BY <1>7, <2>1, Placed DEF PublishesLast, Ends
  <2>3. \A i \in ToSet(ab) : i.do \notin Ends
    BY <1>9, <1>14, DoOK DEF CreateWords, ab, Ends
  <2>4. Shaped(ab \o e)
    BY <1>7, <1>10, <1>18, <2>1, <2>2, <2>3, CreatesAfter
  <2> QED
    BY <1>10, <2>4
<1>20. Shaped(abe \o c)
  <2>1. \A i \in ToSet(c) : i.do \in CreateWords
    BY <1>6, <1>14, DoOK DEF CreateWords
  <2>2. \A i \in ToSet(abe) : i.do \notin Ends
    BY <1>8, <1>9, <1>11, <1>14, DoOK DEF CreateWords, ab, Ends
  <2> QED
    BY <1>3, <1>5, <1>11, <1>19, <2>1, <2>2, CreatesAfter
<1>21. abe \o c # <<>> /\ (abe \o c)[Len(abe \o c)] = Do("annotate", v)
  <2>1. /\ Len(abe \o c) = Len(abe) + Len(c) /\ Len(abe) \in Nat
        /\ \A i \in 1 .. Len(c) : (abe \o c)[Len(abe) + i] = c[i]
    BY <1>5, <1>11, ConcatOK
  <2>2. 4 \in 1 .. Len(c) /\ (abe \o c)[Len(abe) + 4] = c[4]
    BY <1>3, <2>1
  <2> QED
    BY <1>3, <2>1, <2>2
<1> QED
  BY <1>2, <1>12, <1>13, <1>16, <1>20, <1>21
-----------------------------------------------------------------------------
(* The types *)

\* What no value is.
LEMMA NamesOK ==
    ASSUME Storing
    PROVE  /\ \A rows \in SUBSET Past : rows # Absent
           /\ Idle \notin Jobs
           /\ Idle \notin [table : Tables, row : Past]
           /\ \A v \in Views : Idle \notin [at : 1 .. now, rows : [Sources[v] -> SUBSET Past]]
<1> USE NamesAssumption
<1>1. now \in Nat /\ MaxRows \in Nat /\ now <= MaxRows + 1
  BY SourcesAssumption DEF Storing
<1>2. Past \subseteq 1 .. MaxRows
  BY <1>1 DEF Past
<1>3. \A rows \in SUBSET Past : rows # Absent
  BY <1>2
<1>4. Idle \notin [table : Tables, row : Past]
  BY <1>2
<1>5. ASSUME NEW v \in Views
      PROVE  Idle \notin [at : 1 .. now, rows : [Sources[v] -> SUBSET Past]]
  <2>1. [Sources[v] -> SUBSET Past] \subseteq [Sources[v] -> SUBSET (1 .. MaxRows)]
    BY <1>2
  <2>2. \A r \in [at : 1 .. now, rows : [Sources[v] -> SUBSET Past]] :
            r \in [at : Nat, rows : [Sources[v] -> SUBSET (1 .. MaxRows)]]
    BY <1>1, <2>1
  <2> QED
    BY <2>2
<1> QED
  BY <1>3, <1>4, <1>5

\* At the start nothing is stored.
LEMMA StoringInit == Init => Storing
  BY SourcesAssumption DEF Init, Storing, Past, Stored

\* At the start no mutex is held.
LEMMA HoldingInit == Init => Holding
<1> SUFFICES ASSUME Init PROVE Holding
  OBVIOUS
<1>1. \A s \in Sessions : Scripts(s) = <<>>
  BY DEF Init, Scripts
<1>2. ToSet(<<>>) = {} /\ UnlocksOnce(<<>>)
  BY DEF ToSet, UnlocksOnce
<1>3. \A v \in Views : v # Idle /\ Idle \notin Sessions
  BY NamesAssumption
<1> QED
  BY <1>1, <1>2, <1>3 DEF Init, Holding

\* The type invariant that the runs check follows.
LEMMA TypesOK == TInv => TypeOK
<1> SUFFICES ASSUME TInv PROVE TypeOK
  OBVIOUS
<1>1. \A t \in Tables : /\ base[t] = Absent \/ base[t] \subseteq 1 .. now - 1
                        /\ delta[t] = Absent \/ delta[t] \subseteq 1 .. now - 1
  BY DEF TInv, Storing, Stored, Past
<1>2. ASSUME NEW v \in Views, lock[v] \in Sessions
      PROVE  \E n \in DOMAIN Scripts(lock[v]) : Scripts(lock[v])[n] = Do("unlock", v)
  <2>1. Do("unlock", v) \in ToSet(Scripts(lock[v]))
    BY <1>2 DEF TInv, Holding
  <2> QED
    BY <2>1 DEF ToSet
<1> QED
  BY <1>1, <1>2 DEF TInv, Storing, Holding, TypeOK
-----------------------------------------------------------------------------
(* Scripts go on *)

\* What a session that has a statement to execute is at.
LEMMA HeadOK ==
    ASSUME TInv, NEW s \in Sessions, session[s] # Idle
    PROVE  /\ session[s] \in Jobs /\ Scripts(s) = session[s].script /\ Scripts(s) \in Seq(Items)
           /\ session[s].op \in {"create", "replace"} => session[s].view \in Views
           /\ session[s].script # <<>> =>
                /\ Head(session[s].script) = Do(Head(session[s].script).do, Of(s))
                /\ Tail(session[s].script) \in Seq(Items)
                /\ ToSet(Scripts(s)) =
                    {Do(Head(session[s].script).do, Of(s))} \union ToSet(Tail(session[s].script))
                /\ Head(session[s].script).do \in TableWords => Of(s) \in Tables /\ Of(s) \notin Views
                /\ Head(session[s].script).do \notin TableWords => Of(s) \in Views /\ Of(s) \notin Tables
                /\ Head(session[s].script).do \in ViewWords \union TableWords
<1>1. session[s] \in Jobs /\ session[s].script \in Seq(Items)
  BY DEF TInv, Holding, Jobs
<1>2. Scripts(s) = session[s].script
  BY DEF Scripts
<1>3. ASSUME session[s].script # <<>>
      PROVE  /\ Head(session[s].script) \in Items
             /\ Tail(session[s].script) \in Seq(Items)
             /\ ToSet(session[s].script) =
                    {Head(session[s].script)} \union ToSet(Tail(session[s].script))
  <2> DEFINE q == session[s].script
  <2>1. q \in Seq(Items) /\ q # <<>>
    BY <1>1, <1>3
  <2> HIDE DEF q
  <2>2. Head(q) \in Items /\ Tail(q) \in Seq(Items) /\ ToSet(q) = {Head(q)} \union ToSet(Tail(q))
    BY <2>1, TailOK
  <2> QED
    BY <2>2 DEF q
<1>4. \A x \in Items : /\ x = Do(x.do, x.of)
                       /\ x.do \in TableWords => x.of \in Tables /\ x.of \notin Views
                       /\ x.do \notin TableWords => x.of \in Views /\ x.of \notin Tables
                       /\ x.do \in ViewWords \union TableWords
  <2>1. ASSUME NEW x \in Items PROVE x.do \in TableWords => x.of \in Tables
    <3>1. \/ x \in [do : ViewWords, of : Views]
          \/ x \in [do : TableWords, of : Tables]
      BY DEF Items
    <3>2. ViewWords \intersect TableWords \subseteq {"create_delta"}
      BY DEF ViewWords, TableWords
    <3>3. "create_delta" \notin ViewWords
      BY DEF ViewWords
    <3> QED
      BY <3>1, <3>2, <3>3
  <2> QED
    BY <2>1, DoOK, SourcesAssumption
<1>5. session[s].op \in {"create", "replace"} => session[s].view \in Views
  BY DEF TInv, Holding
<1> QED
  BY <1>1, <1>2, <1>3, <1>4, <1>5 DEF Of

\* A session's script is replaced by q.
LEMMA Rescripted ==
    ASSUME TInv, NEW s \in Sessions, session[s] # Idle, NEW q \in Seq(Items),
           session' = [session EXCEPT ![s].script = q]
    PROVE  /\ session' \in [Sessions -> {Idle} \union Jobs] /\ Scripts(s)' = q
           /\ session'[s] # Idle /\ session'[s].op = session[s].op
           /\ session'[s].view = session[s].view /\ session'[s].undo = session[s].undo
           /\ session'[s].script = q
           /\ \A x \in Sessions \ {s} : session'[x] = session[x] /\ Scripts(x)' = Scripts(x)
<1>1. session[s] \in Jobs /\ session \in [Sessions -> {Idle} \union Jobs]
  BY HeadOK DEF TInv, Holding
<1>2. /\ session'[s] = [session[s] EXCEPT !.script = q]
      /\ \A x \in Sessions \ {s} : session'[x] = session[x]
      /\ DOMAIN session' = Sessions /\ session' = [x \in Sessions |-> session'[x]]
  BY <1>1
<1>3. /\ session'[s] \in Jobs /\ session'[s].op = session[s].op /\ session'[s].script = q
      /\ session'[s].view = session[s].view /\ session'[s].undo = session[s].undo
  BY <1>1, <1>2 DEF Jobs
<1>4. session'[s] # Idle
  BY <1>3, NamesOK DEF TInv
<1>5. session' \in [Sessions -> {Idle} \union Jobs]
  BY <1>1, <1>2, <1>3
<1> QED
  BY <1>2, <1>3, <1>4, <1>5 DEF Scripts

\* The mutexes after a step of session s, whose script becomes q.
LEMMA HoldingMoves ==
    ASSUME TInv, NEW s \in Sessions, NEW q, UnlocksOnce(q), Scripts(s)' = q,
           session' \in [Sessions -> {Idle} \union Jobs],
           session'[s] # Idle /\ session'[s].op \in {"create", "replace"} => session'[s].view \in Views,
           \A x \in Sessions \ {s} : session'[x] = session[x],
           DOMAIN lock' = Views, refresh' = refresh,
           \A v \in Views :
              /\ lock'[v] \in {lock[v], s, Idle} /\ (lock'[v] # lock[v] => lock[v] \in {Idle, s})
              /\ lock'[v] = s <=> Do("unlock", v) \in ToSet(q)
    PROVE  Holding'
<1>1. \A x \in Sessions \ {s} : Scripts(x)' = Scripts(x)
  BY DEF Scripts
<1>2. ASSUME NEW v \in Views
      PROVE  /\ lock'[v] \in {Idle, v} \union Sessions
             /\ lock'[v] = v <=> refresh'[v] # Idle
             /\ \A x \in Sessions : lock'[v] = x <=> Do("unlock", v) \in ToSet(Scripts(x)')
  <2>1. /\ lock[v] \in {Idle, v} \union Sessions
        /\ lock[v] = v <=> refresh[v] # Idle
        /\ \A x \in Sessions : lock[v] = x <=> Do("unlock", v) \in ToSet(Scripts(x))
    BY DEF TInv, Holding
  <2>2. v # Idle /\ v \notin Sessions /\ Idle \notin Sessions
    BY NamesAssumption
  <2>3. lock'[v] = v <=> lock[v] = v
    BY <2>1, <2>2
  <2>4. \A x \in Sessions \ {s} : lock'[v] = x <=> lock[v] = x
    BY <2>1, <2>2
  <2> QED
    BY <1>1, <2>1, <2>3, <2>4
<1>3. \A x \in Sessions : UnlocksOnce(Scripts(x)')
  BY <1>1 DEF TInv, Holding
<1>4. \A x \in Sessions : session'[x] # Idle /\ session'[x].op \in {"create", "replace"} =>
          session'[x].view \in Views
  BY DEF TInv, Holding
<1> QED
  BY <1>2, <1>3, <1>4 DEF Holding, UnlocksOnce

\* The same, when session s goes on with script q.
LEMMA HoldingScript ==
    ASSUME TInv, NEW s \in Sessions, session[s] # Idle, NEW q \in Seq(Items), UnlocksOnce(q),
           session' = [session EXCEPT ![s].script = q],
           DOMAIN lock' = Views, refresh' = refresh,
           \A v \in Views :
              /\ lock'[v] \in {lock[v], s, Idle} /\ (lock'[v] # lock[v] => lock[v] \in {Idle, s})
              /\ lock'[v] = s <=> Do("unlock", v) \in ToSet(q)
    PROVE  Holding'
<1>1. session[s].op \in {"create", "replace"} => session[s].view \in Views
  BY HeadOK
<1>2. /\ session' \in [Sessions -> {Idle} \union Jobs] /\ Scripts(s)' = q
      /\ session'[s].op = session[s].op /\ session'[s].view = session[s].view
      /\ \A x \in Sessions \ {s} : session'[x] = session[x]
  BY Rescripted
<1>3. session'[s] # Idle /\ session'[s].op \in {"create", "replace"} => session'[s].view \in Views
  BY <1>1, <1>2
<1> QED
  BY <1>2, <1>3, HoldingMoves

\* A statement has been executed, or passed over, that releases nothing.
LEMMA HoldingAdvance ==
    ASSUME TInv, NEW s \in Sessions, session[s] # Idle, session[s].script # <<>>,
           Head(session[s].script).do # "unlock", Advance(s), UNCHANGED <<lock, refresh>>
    PROVE  Holding'
<1> DEFINE q == Tail(session[s].script)
<1>1. /\ q \in Seq(Items) /\ Scripts(s) \in Seq(Items) /\ Scripts(s) = session[s].script
      /\ ToSet(Scripts(s)) = {Do(Head(session[s].script).do, Of(s))} \union ToSet(q)
  BY HeadOK
<1>2. session' = [session EXCEPT ![s].script = q]
  BY DEF Advance
<1>3. UnlocksOnce(q)
  BY <1>1, UnlocksTail DEF TInv, Holding
<1> HIDE DEF q
<1>4. \A v \in Views : lock[v] = s <=> Do("unlock", v) \in ToSet(q)
  BY <1>1, DoOK DEF TInv, Holding
<1>5. DOMAIN lock = Views
  BY DEF TInv, Holding
<1> QED
  BY <1>1, <1>2, <1>3, <1>4, <1>5, HoldingScript

\* A session has released a mutex.
LEMMA HoldingUnlock ==
    ASSUME TInv, NEW s \in Sessions, UnlockView(s)
    PROVE  Holding'
<1> DEFINE q == Tail(session[s].script)
           u == Of(s)
<1>1. /\ session[s] # Idle /\ session[s].script # <<>> /\ Head(session[s].script).do = "unlock"
      /\ session' = [session EXCEPT ![s].script = q] /\ lock' = [lock EXCEPT ![u] = Idle]
      /\ refresh' = refresh
  BY DEF UnlockView, Statement, Current, Advance
<1>2. /\ q \in Seq(Items) /\ Scripts(s) \in Seq(Items) /\ Scripts(s) = session[s].script
      /\ ToSet(Scripts(s)) = {Do("unlock", u)} \union ToSet(q)
      /\ Head(session[s].script) = Do("unlock", u) /\ u \in Views
  BY <1>1, HeadOK DEF TableWords
<1>3. UnlocksOnce(q) /\ Do("unlock", u) \notin ToSet(q)
  BY <1>1, <1>2, UnlocksTail DEF TInv, Holding
<1> HIDE DEF q, u
<1>4. /\ \A v \in Views \ {u} : lock[v] = s <=> Do("unlock", v) \in ToSet(q)
      /\ lock[u] = s
  <2>1. \A v \in Views : lock[v] = s <=> Do("unlock", v) \in ToSet(Scripts(s))
    BY DEF TInv, Holding
  <2>2. \A v \in Views \ {u} : Do("unlock", v) # Do("unlock", u)
    BY DoOK
  <2> QED
    BY <1>2, <2>1, <2>2
<1>5. /\ DOMAIN lock' = Views /\ lock'[u] = Idle /\ s # Idle
      /\ \A v \in Views \ {u} : lock'[v] = lock[v]
  BY <1>1, <1>2, NamesAssumption DEF TInv, Holding
<1>6. \A v \in Views :
              /\ lock'[v] \in {lock[v], s, Idle} /\ (lock'[v] # lock[v] => lock[v] \in {Idle, s})
              /\ lock'[v] = s <=> Do("unlock", v) \in ToSet(q)
  BY <1>3, <1>4, <1>5
<1> QED
  BY <1>1, <1>2, <1>3, <1>5, <1>6, HoldingScript

\* Before DROP VIEW comes the rule.
LEMMA HoldingIntercept ==
    ASSUME TInv, NEW s \in Sessions, Intercept(s)
    PROVE  Holding'
<1> DEFINE r == Tail(session[s].script)
           l == <<"lock", "hide">>
           p == OnView(Of(s), l)
           q == p \o r
<1>1. /\ session[s] # Idle /\ session[s].script # <<>> /\ Head(session[s].script).do = "drop_view"
      /\ session' = [session EXCEPT ![s].script = q] /\ UNCHANGED <<lock, refresh>>
  BY DEF Intercept, Current, Prepend
<1>2. /\ r \in Seq(Items) /\ Scripts(s) \in Seq(Items) /\ Scripts(s) = session[s].script
      /\ ToSet(Scripts(s)) = {Do("drop_view", Of(s))} \union ToSet(r) /\ Of(s) \in Views
  BY <1>1, HeadOK DEF TableWords
<1>3. l \in Seq(ViewWords)
  BY DEF ViewWords
<1>4. ToSet(p) = {Do("lock", Of(s)), Do("hide", Of(s))}
  BY WordsOK
<1> HIDE DEF l
<1>5. p \in Seq(Items)
  <2>1. OnView(Of(s), l) \in Seq({Do(w, Of(s)) : w \in ViewWords})
    BY <1>3, OnViewOK
  <2>2. {Do(w, Of(s)) : w \in ViewWords} \subseteq Items
    BY <1>2, DoOK
  <2> QED
    BY <2>1, <2>2, Wider
<1>6. UnlocksOnce(r)
  BY <1>1, <1>2, UnlocksTail DEF TInv, Holding
<1> HIDE DEF p, r
<1>7. q \in Seq(Items) /\ ToSet(q) = ToSet(p) \union ToSet(r)
  BY <1>2, <1>5, ConcatOK
<1>8. UnlocksOnce(q)
  <2>1. \A x \in ToSet(p) : x.do # "unlock"
    BY <1>4, DoOK
  <2>2. UnlocksOnce(p)
    BY <1>5, <2>1, Unlocking
  <2> QED
    BY <1>2, <1>5, <1>6, <2>1, <2>2, UnlocksConcat
<1> HIDE DEF q
<1>9. \A v \in Views : lock[v] = s <=> Do("unlock", v) \in ToSet(q)
  BY <1>2, <1>4, <1>7, DoOK DEF TInv, Holding
<1>10. DOMAIN lock = Views
  BY DEF TInv, Holding
<1> QED
  BY <1>1, <1>7, <1>8, <1>9, <1>10, HoldingScript

\* The script that a view's mutex was awaited for.
LEMMA LockedScript ==
    ASSUME TInv, NEW s \in Sessions, LockView(s)
    PROVE  \E p \in Seq(Items) :
              /\ session[s] # Idle /\ session[s].script # <<>> /\ Of(s) \in Views
              /\ Head(session[s].script).do \in {"lock", "lock_dependent"}
              /\ session' = [session EXCEPT ![s].script = p \o Tail(session[s].script)]
              /\ UnlocksOnce(p) /\ Shaped(p)
              /\ Head(session[s].script).do = "lock" =>
                    ToSet(p) = Dropping(Of(s)) \union {Do("unlock", Of(s))}
                                    \union {Do("drop_delta", t) : t \in SourcesOf(Of(s))}
              /\ Head(session[s].script).do = "lock_dependent" =>
                    ToSet(p) = Dropping(Of(s)) \union {Do("drop_view", Of(s)), Do("unlock", Of(s))}
                                    \union {Do("drop_delta", t) : t \in SourcesOf(Of(s))}
<1>1. CASE Current(s, "lock") /\ Prepend(s, RuleScript(Of(s)))
  <2>1. /\ session[s] # Idle /\ session[s].script # <<>> /\ Head(session[s].script).do = "lock"
        /\ session' = [session EXCEPT ![s].script = RuleScript(Of(s)) \o Tail(session[s].script)]
    BY <1>1 DEF Current, Prepend
  <2>2. Of(s) \in Views
    BY <2>1, HeadOK DEF TableWords
  <2> DEFINE p == RuleScript(Of(s))
  <2>3. /\ p \in Seq(Items) /\ UnlocksOnce(p) /\ Shaped(p)
        /\ ToSet(p) = Dropping(Of(s)) \union {Do("unlock", Of(s))}
                            \union {Do("drop_delta", t) : t \in SourcesOf(Of(s))}
    BY <2>2, RuleOK
  <2> QED
    BY <2>1, <2>2, <2>3
<1>2. CASE Current(s, "lock_dependent") /\ Prepend(s, DependentScript(Of(s)))
  <2>1. /\ session[s] # Idle /\ session[s].script # <<>>
        /\ Head(session[s].script).do = "lock_dependent"
        /\ session' = [session EXCEPT ![s].script = DependentScript(Of(s)) \o Tail(session[s].script)]
    BY <1>2 DEF Current, Prepend
  <2>2. Of(s) \in Views
    BY <2>1, HeadOK DEF TableWords
  <2> DEFINE p == DependentScript(Of(s))
  <2>3. /\ p \in Seq(Items) /\ UnlocksOnce(p) /\ Shaped(p)
        /\ ToSet(p) = Dropping(Of(s)) \union {Do("drop_view", Of(s)), Do("unlock", Of(s))}
                            \union {Do("drop_delta", t) : t \in SourcesOf(Of(s))}
    BY <2>2, DependentOK
  <2> QED
    BY <2>1, <2>2, <2>3
<1> QED
  BY <1>1, <1>2 DEF LockView

\* A session has got the mutex that it waited for.
LEMMA HoldingLock ==
    ASSUME TInv, NEW s \in Sessions, LockView(s)
    PROVE  Holding'
<1> DEFINE u == Of(s)
           r == Tail(session[s].script)
<1>1. PICK p \in Seq(Items) :
              /\ session[s] # Idle /\ session[s].script # <<>> /\ Of(s) \in Views
              /\ Head(session[s].script).do \in {"lock", "lock_dependent"}
              /\ session' = [session EXCEPT ![s].script = p \o Tail(session[s].script)]
              /\ UnlocksOnce(p) /\ Shaped(p)
              /\ Head(session[s].script).do = "lock" =>
                    ToSet(p) = Dropping(Of(s)) \union {Do("unlock", Of(s))}
                                    \union {Do("drop_delta", t) : t \in SourcesOf(Of(s))}
              /\ Head(session[s].script).do = "lock_dependent" =>
                    ToSet(p) = Dropping(Of(s)) \union {Do("drop_view", Of(s)), Do("unlock", Of(s))}
                                    \union {Do("drop_delta", t) : t \in SourcesOf(Of(s))}
  BY LockedScript
<1> DEFINE q == p \o r
<1>2. lock[u] = Idle /\ lock' = [lock EXCEPT ![u] = s] /\ refresh' = refresh
  BY DEF LockView
<1>3. /\ r \in Seq(Items) /\ Scripts(s) \in Seq(Items) /\ Scripts(s) = session[s].script
      /\ ToSet(Scripts(s)) = {Do(Head(session[s].script).do, u)} \union ToSet(r)
  BY <1>1, HeadOK
<1>4. session' = [session EXCEPT ![s].script = q] /\ u \in Views
  BY <1>1
<1>5. /\ Do("unlock", u) \in ToSet(p)
      /\ \A x \in ToSet(p) : x.do = "unlock" => x = Do("unlock", u)
  BY <1>1, DoOK DEF Dropping
<1>6. UnlocksOnce(r)
  BY <1>1, <1>3, UnlocksTail DEF TInv, Holding
<1> HIDE DEF u, r
<1>7. /\ s # Idle /\ DOMAIN lock' = Views /\ lock'[u] = s
      /\ \A v \in Views \ {u} : lock'[v] = lock[v]
  BY <1>2, <1>4, NamesAssumption DEF TInv, Holding
<1>8. Do("unlock", u) \notin ToSet(r)
  BY <1>2, <1>3, <1>4, <1>7 DEF TInv, Holding
<1>9. q \in Seq(Items) /\ ToSet(q) = ToSet(p) \union ToSet(r)
  BY <1>3, ConcatOK
<1>10. UnlocksOnce(q)
  BY <1>1, <1>3, <1>5, <1>6, <1>8, UnlocksConcat
<1> HIDE DEF q
<1>11. \A v \in Views \ {u} : lock[v] = s <=> Do("unlock", v) \in ToSet(q)
  <2>1. \A v \in Views \ {u} : lock[v] = s <=> Do("unlock", v) \in ToSet(Scripts(s))
    BY DEF TInv, Holding
  <2>2. \A v \in Views \ {u} : Do("unlock", v) \notin ToSet(p)
    BY <1>5, DoOK
  <2>3. \A v \in Views : Do("unlock", v) # Do(Head(session[s].script).do, u)
    BY <1>1, DoOK
  <2> QED
    BY <1>3, <1>9, <2>1, <2>2, <2>3
<1>12. \A v \in Views :
              /\ lock'[v] \in {lock[v], s, Idle} /\ (lock'[v] # lock[v] => lock[v] \in {Idle, s})
              /\ lock'[v] = s <=> Do("unlock", v) \in ToSet(q)
  BY <1>2, <1>5, <1>7, <1>9, <1>11
<1>13. session[s] # Idle
  BY <1>1
<1> QED
  BY <1>2, <1>4, <1>7, <1>9, <1>10, <1>12, <1>13, HoldingScript
-----------------------------------------------------------------------------
(* Scripts begin and end                                                   *)

\* A CREATE that fails in no rule holds no mutex, and its undo takes none.
LEMMA HoldingFail ==
    ASSUME TInv, NEW s \in Sessions, FailCreate(s)
    PROVE  Holding'
<1> DEFINE v == session[s].view
           q == CleanupScript(v)
<1>1. /\ session[s] # Idle /\ session[s].op \in {"create", "replace"} /\ ~InRule(s)
      /\ session' = [session EXCEPT ![s].undo = TRUE, ![s].script = q]
      /\ UNCHANGED <<lock, refresh>>
  BY DEF FailCreate, Creating
<1>2. session[s] \in Jobs /\ Scripts(s) = session[s].script /\ v \in Views
  BY <1>1, HeadOK
<1>3. q \in Seq(Items) /\ UnlocksOnce(q) /\ ToSet(q) = Dropping(v) \union {Do("drop_view", v)}
  BY <1>2, CleanupOK
<1>4. \A x \in ToSet(q) : x.do # "unlock"
  BY <1>3, DoOK DEF Dropping
<1>5. \A x \in ToSet(Scripts(s)) : x.do # "unlock"
  BY <1>1, <1>2 DEF InRule, ToSet
<1> HIDE DEF q
<1>6. session \in [Sessions -> {Idle} \union Jobs] /\ DOMAIN lock = Views
  BY DEF TInv, Holding
<1>7. /\ session'[s] = [session[s] EXCEPT !.undo = TRUE, !.script = q]
      /\ \A x \in Sessions \ {s} : session'[x] = session[x]
      /\ session' = [x \in Sessions |-> session'[x]]
  BY <1>1, <1>6
<1>8. session'[s] \in Jobs /\ session'[s].script = q /\ session'[s].view = v
  BY <1>2, <1>3, <1>7 DEF Jobs
<1>9. session'[s] # Idle /\ session' \in [Sessions -> {Idle} \union Jobs]
  BY <1>6, <1>7, <1>8, NamesOK DEF TInv
<1>10. Scripts(s)' = q
  BY <1>8, <1>9 DEF Scripts
<1>11. \A x \in Views : Do("unlock", x) \notin ToSet(q) /\ Do("unlock", x) \notin ToSet(Scripts(s))
  BY <1>4, <1>5, DoOK
<1>12. \A x \in Views : lock[x] # s
  BY <1>11 DEF TInv, Holding
<1>13. \A x \in Views :
              /\ lock'[x] \in {lock[x], s, Idle} /\ (lock'[x] # lock[x] => lock[x] \in {Idle, s})
              /\ lock'[x] = s <=> Do("unlock", x) \in ToSet(q)
  BY <1>1, <1>11, <1>12
<1>14. DOMAIN lock' = Views /\ refresh' = refresh
  BY <1>1, <1>6
<1> QED
  BY <1>2, <1>3, <1>7, <1>8, <1>9, <1>10, <1>13, <1>14, HoldingMoves

\* A session begins a script.
LEMMA HoldingStart ==
    ASSUME TInv, NEW s \in Sessions, NEW op \in {"create", "replace", "drop", "cascade"},
           NEW v \in Views \union {Idle}, op \in {"create", "replace"} => v \in Views,
           NEW q \in Seq(Items), \A x \in ToSet(q) : x.do # "unlock", Start(s, op, v, q)
    PROVE  /\ Holding' /\ Scripts(s)' = q /\ session'[s] # Idle
           /\ session'[s].op = op /\ session'[s].view = v /\ ~session'[s].undo
<1> DEFINE j == [op |-> op, view |-> v, script |-> q, undo |-> FALSE]
<1>1. session[s] = Idle /\ session' = [session EXCEPT ![s] = j] /\ UNCHANGED <<lock, refresh>>
  BY DEF Start
<1>2. session \in [Sessions -> {Idle} \union Jobs] /\ DOMAIN lock = Views
  BY DEF TInv, Holding
<1>3. /\ session'[s] = j /\ \A x \in Sessions \ {s} : session'[x] = session[x]
      /\ session' = [x \in Sessions |-> session'[x]]
  BY <1>1, <1>2
<1>4. j \in Jobs /\ j.script = q /\ j.view = v /\ j.op = op /\ j.undo = FALSE
  BY DEF Jobs
<1>5. j # Idle
  BY <1>4, NamesOK DEF TInv
<1> HIDE DEF j
<1>6. Scripts(s)' = q /\ Scripts(s) = <<>>
  BY <1>1, <1>3, <1>4, <1>5 DEF Scripts
<1>7. session' \in [Sessions -> {Idle} \union Jobs]
  BY <1>2, <1>3, <1>4
<1>8. \A x \in Views : Do("unlock", x) \notin ToSet(q) /\ Do("unlock", x) \notin ToSet(Scripts(s))
  BY <1>6, DoOK DEF ToSet
<1>9. \A x \in Views : lock[x] # s
  BY <1>8 DEF TInv, Holding
<1>10. UnlocksOnce(q)
  BY Unlocking
<1>11. \A x \in Views :
              /\ lock'[x] \in {lock[x], s, Idle} /\ (lock'[x] # lock[x] => lock[x] \in {Idle, s})
              /\ lock'[x] = s <=> Do("unlock", x) \in ToSet(q)
  BY <1>1, <1>8, <1>9
<1>12. DOMAIN lock' = Views /\ refresh' = refresh
  BY <1>1, <1>2
<1>13. session'[s] # Idle /\ session'[s].op \in {"create", "replace"} => session'[s].view \in Views
  BY <1>3, <1>4
<1>14. Holding'
  BY <1>3, <1>6, <1>7, <1>10, <1>11, <1>12, <1>13, HoldingMoves
<1> QED
  BY <1>3, <1>4, <1>5, <1>6, <1>14

\* The four statements, with their scripts.
LEMMA Starting ==
    ASSUME TInv, NEW s \in Sessions
    PROVE  /\ \A v \in Views : CreateView(s, v) \/ ReplaceView(s, v) \/ DropView(s, v) => Holding'
           /\ \A t \in Tables : DropTable(s, t) => Holding'
<1>1. ASSUME NEW v \in Views, CreateView(s, v) PROVE Holding'
  <2> DEFINE q == CreateScript(v, FALSE)
  <2>1. /\ q \in Seq(Items)
        /\ ToSet(q) = Preparing(v, FALSE) \union Creating1(v) \union Publishing(v)
    BY CreateOK
  <2>2. \A x \in ToSet(q) : x.do # "unlock"
    <3> HIDE DEF q
    <3>1. /\ \A x \in Preparing(v, FALSE) : x.do # "unlock"
          /\ \A x \in Creating1(v) : x.do # "unlock"
      BY CreatesOK
    <3>2. \A x \in Publishing(v) : x.do # "unlock"
      BY CreatesOK
    <3> QED
      BY <2>1, <3>1, <3>2
  <2>3. Start(s, "create", v, q)
    BY <1>1 DEF CreateView
  <2> HIDE DEF q
  <2> QED
    BY <2>1, <2>2, <2>3, HoldingStart
<1>2. ASSUME NEW v \in Views, ReplaceView(s, v) PROVE Holding'
  <2> DEFINE q == CreateScript(v, TRUE)
  <2>1. /\ q \in Seq(Items)
        /\ ToSet(q) = Preparing(v, TRUE) \union Creating1(v) \union Publishing(v)
    BY CreateOK
  <2>2. \A x \in ToSet(q) : x.do # "unlock"
    <3> HIDE DEF q
    <3>1. /\ \A x \in Preparing(v, TRUE) : x.do # "unlock"
          /\ \A x \in Creating1(v) : x.do # "unlock"
      BY CreatesOK
    <3>2. \A x \in Publishing(v) : x.do # "unlock"
      BY CreatesOK
    <3> QED
      BY <2>1, <3>1, <3>2
  <2>3. Start(s, "replace", v, q)
    BY <1>2 DEF ReplaceView
  <2> HIDE DEF q
  <2> QED
    BY <2>1, <2>2, <2>3, HoldingStart
<1>3. ASSUME NEW v \in Views, DropView(s, v) PROVE Holding'
  <2> DEFINE q == <<Do("drop_view", v)>>
  <2>1. Do("drop_view", v) \in Items
    BY DoOK DEF ViewWords
  <2>2. q \in Seq(Items) /\ ToSet(q) = {Do("drop_view", v)}
    BY <2>1, WordsOK
  <2>3. \A x \in ToSet(q) : x.do # "unlock"
    BY <2>2, DoOK
  <2>4. Start(s, "drop", v, q)
    BY <1>3 DEF DropView
  <2> HIDE DEF q
  <2> QED
    BY <2>2, <2>3, <2>4, HoldingStart
<1>4. ASSUME NEW t \in Tables, DropTable(s, t) PROVE Holding'
  <2> DEFINE q == CascadeScript(t)
  <2>1. /\ q \in Seq(Items)
        /\ ToSet(q) = {Do("lock_dependent", v) : v \in {u \in Views : t \in SourcesOf(u)}}
                        \union {Do("drop_base", t)}
    BY CascadeOK
  <2>2. \A x \in ToSet(q) : x.do # "unlock"
    BY <2>1, DoOK
  <2>3. Start(s, "cascade", Idle, q)
    BY <1>4 DEF DropTable
  <2> HIDE DEF q
  <2> QED
    BY <2>1, <2>2, <2>3, HoldingStart
<1> QED
  BY <1>1, <1>2, <1>3, <1>4

\* A session has executed its script.
LEMMA HoldingFinish ==
    ASSUME TInv, NEW s \in Sessions, Finish(s)
    PROVE  Holding'
<1>1. /\ session[s] # Idle /\ session[s].script = <<>> /\ session' = [session EXCEPT ![s] = Idle]
      /\ UNCHANGED <<lock, refresh>>
  BY DEF Finish
<1>2. session \in [Sessions -> {Idle} \union Jobs] /\ DOMAIN lock = Views
  BY DEF TInv, Holding
<1>3. /\ session'[s] = Idle /\ \A x \in Sessions \ {s} : session'[x] = session[x]
      /\ session' \in [Sessions -> {Idle} \union Jobs]
  BY <1>1, <1>2
<1>4. Scripts(s) = <<>> /\ Scripts(s)' = <<>> /\ ToSet(<<>>) = {} /\ UnlocksOnce(<<>>)
  BY <1>1, <1>3 DEF Scripts, ToSet, UnlocksOnce
<1>5. \A x \in Views :
              /\ lock'[x] \in {lock[x], s, Idle} /\ (lock'[x] # lock[x] => lock[x] \in {Idle, s})
              /\ lock'[x] = s <=> Do("unlock", x) \in ToSet(<<>>)
  BY <1>1, <1>4 DEF TInv, Holding
<1> QED
  BY <1>1, <1>2, <1>3, <1>4, <1>5, HoldingMoves

\* What holds when only mutexes of refreshes change hands.
LEMMA HoldingRefreshes ==
    ASSUME TInv, session' = session, DOMAIN lock' = Views,
           \A v \in Views :
              /\ lock'[v] = lock[v] \/ {lock[v], lock'[v]} \subseteq {v, Idle}
              /\ lock'[v] = v <=> refresh'[v] # Idle
    PROVE  Holding'
<1>1. \A x \in Sessions : Scripts(x)' = Scripts(x)
  BY DEF Scripts
<1>2. ASSUME NEW v \in Views
      PROVE  /\ lock'[v] \in {Idle, v} \union Sessions
             /\ \A x \in Sessions : lock'[v] = x <=> Do("unlock", v) \in ToSet(Scripts(x)')
  <2>1. /\ lock[v] \in {Idle, v} \union Sessions
        /\ \A x \in Sessions : lock[v] = x <=> Do("unlock", v) \in ToSet(Scripts(x))
    BY DEF TInv, Holding
  <2>2. v # Idle /\ v \notin Sessions /\ Idle \notin Sessions
    BY NamesAssumption
  <2> QED
    BY <1>1, <2>1, <2>2
<1> QED
  BY <1>1, <1>2 DEF TInv, Holding, UnlocksOnce

\* A refresh holds its view's mutex.
LEMMA HoldingBegin ==
    ASSUME TInv, NEW v \in Views, BeginRefresh(v)
    PROVE  Holding'
<1> DEFINE r == [at |-> now, rows |-> [t \in Sources[v] |-> Pending(v, t)]]
<1>1. /\ Whole(v) /\ lock[v] = Idle /\ lock' = [lock EXCEPT ![v] = v]
      /\ refresh' = [refresh EXCEPT ![v] = r] /\ session' = session
  BY DEF BeginRefresh
<1>2. \A t \in Sources[v] : Pending(v, t) \in SUBSET Past
  <2> SUFFICES ASSUME NEW t \in Sources[v] PROVE Pending(v, t) \in SUBSET Past
    OBVIOUS
  <2>1. t \in Tables /\ delta[t] # Absent
    BY <1>1, SourcesAssumption DEF Whole
  <2>2. delta[t] \in SUBSET Past
    BY <2>1 DEF TInv, Storing, Stored
  <2> QED
    BY <2>2 DEF Pending
<1>3. now \in 1 .. now
  BY SourcesAssumption DEF TInv, Storing
<1>4. r \in [at : 1 .. now, rows : [Sources[v] -> SUBSET Past]]
  BY <1>2, <1>3
<1>5. r # Idle
  BY <1>4, NamesOK DEF TInv
<1> HIDE DEF r
<1>6. DOMAIN lock = Views /\ DOMAIN refresh = Views
  BY DEF TInv, Holding, Storing
<1>7. /\ lock'[v] = v /\ refresh'[v] # Idle
      /\ \A u \in Views \ {v} : lock'[u] = lock[u] /\ refresh'[u] = refresh[u]
  BY <1>1, <1>5, <1>6
<1>8. \A u \in Views : lock[u] = u <=> refresh[u] # Idle
  BY DEF TInv, Holding
<1> QED
  BY <1>1, <1>6, <1>7, <1>8, HoldingRefreshes

\* A refresh lets go of its view's mutex.
LEMMA HoldingEnd ==
    ASSUME TInv, NEW v \in Views, EndRefresh(v)
    PROVE  Holding'
<1>1. /\ refresh[v] # Idle /\ lock' = [lock EXCEPT ![v] = Idle]
      /\ refresh' = [refresh EXCEPT ![v] = Idle] /\ session' = session
  BY DEF EndRefresh
<1>2. DOMAIN lock = Views /\ DOMAIN refresh = Views /\ v # Idle
  BY NamesAssumption DEF TInv, Holding, Storing
<1>3. \A u \in Views : lock[u] = u <=> refresh[u] # Idle
  BY DEF TInv, Holding
<1>4. /\ lock[v] = v /\ lock'[v] = Idle /\ refresh'[v] = Idle
      /\ \A u \in Views \ {v} : lock'[u] = lock[u] /\ refresh'[u] = refresh[u]
  BY <1>1, <1>2, <1>3
<1> QED
  BY <1>1, <1>2, <1>3, <1>4, HoldingRefreshes

\* The process has died: nobody does anything.
LEMMA HoldingCrash ==
    ASSUME TInv, Crash
    PROVE  Holding'
<1>1. /\ session' = [s \in Sessions |-> Idle] /\ refresh' = [v \in Views |-> Idle]
      /\ lock' = [v \in Views |-> Idle]
  BY DEF Crash
<1>2. \A s \in Sessions : Scripts(s)' = <<>>
  BY <1>1 DEF Scripts
<1>3. ToSet(<<>>) = {} /\ UnlocksOnce(<<>>)
  BY DEF ToSet, UnlocksOnce
<1>4. \A v \in Views : v # Idle /\ Idle \notin Sessions
  BY NamesAssumption
<1>5. \A s \in Sessions : UnlocksOnce(Scripts(s)')
  BY <1>2, <1>3
<1> QED
  BY <1>1, <1>2, <1>3, <1>4, <1>5 DEF Holding, UnlocksOnce

\* A step that is none of these.
LEMMA HoldingStill ==
    ASSUME TInv, UNCHANGED <<session, lock, refresh>>
    PROVE  Holding'
<1>1. \A u \in Views : lock[u] = u <=> refresh[u] # Idle
  BY DEF TInv, Holding
<1>2. DOMAIN lock = Views
  BY DEF TInv, Holding
<1> QED
  BY <1>1, <1>2, HoldingRefreshes
-----------------------------------------------------------------------------
(* What is stored                                                          *)

\* What a statement is about.
LEMMA CurrentOK ==
    ASSUME TInv, NEW s \in Sessions, NEW what, Current(s, what)
    PROVE  /\ session[s] # Idle /\ session[s].script # <<>> /\ Head(session[s].script).do = what
           /\ what \notin TableWords => Of(s) \in Views
           /\ what \in TableWords => Of(s) \in Tables
           /\ Scripts(s) \in Seq(Items) /\ Tail(session[s].script) \in Seq(Items)
           /\ ToSet(Scripts(s)) = {Do(what, Of(s))} \union ToSet(Tail(session[s].script))
<1>1. session[s] # Idle /\ session[s].script # <<>> /\ Head(session[s].script).do = what
  BY DEF Current
<1> QED
  BY <1>1, HeadOK

\* What a view's query yields.
LEMMA WrittenOK ==
    ASSUME Storing, NEW v \in Views
    PROVE  Written(v) \in SUBSET Past
<1>1. \A t \in Sources[v] : t \in Tables
  BY SourcesAssumption
<1>2. \A t \in Sources[v] : (IF base[t] = Absent THEN {} ELSE base[t]) \in SUBSET Past
  BY <1>1 DEF Storing, Stored
<1> QED
  BY <1>2 DEF Written

\* Most steps change no row.
LEMMA StoringStill ==
    ASSUME Storing,
           UNCHANGED <<now, tables, data, cursor, write, refresh, missed>>,
           deltaOf' \union shown' \union published' \union broken' \subseteq Views
    PROVE  Storing'
  BY DEF tables, Storing, Stored, Past

\* A statement changes what is stored as its type says.
LEMMA StoringStep ==
    ASSUME TInv, NEW s \in Sessions, Step(s)
    PROVE  Storing'
<1> USE DEF TInv
<1>1. /\ deltaOf \union shown \union published \union broken \subseteq Views
      /\ base \in [Tables -> Stored] /\ delta \in [Tables -> Stored] /\ data \in [Views -> Stored]
      /\ now \in 1 .. MaxRows + 1
  BY DEF Storing
<1>2. CASE \/ DropStale(s) \/ CheckDuplicate(s) \/ ShowView(s) \/ CreateViewDelta(s) \/ Publish(s)
           \/ Annotate(s) \/ Intercept(s) \/ HideView(s) \/ DropViewDelta(s) \/ Unpublish(s)
           \/ LockView(s) \/ UnlockView(s) \/ Finish(s)
  <2>1. UNCHANGED <<now, tables, data, cursor, write, refresh, missed>>
    BY <1>2 DEF DropStale, CheckDuplicate, ShowView, CreateViewDelta, Publish, Annotate, Intercept, HideView,
                DropViewDelta, Unpublish, LockView, UnlockView, Finish, objects, catalog, ghosts
  <2>2. deltaOf' \union shown' \union published' \union broken' \subseteq Views
    <3>1. CASE ShowView(s)
      <4>1. Of(s) \in Views
        BY <3>1, CurrentOK DEF ShowView, Statement, TableWords
      <4> QED
        BY <1>1, <3>1, <4>1 DEF ShowView, catalog, ghosts
    <3>2. CASE CreateViewDelta(s)
      <4>1. Of(s) \in Views
        BY <3>2, CurrentOK DEF CreateViewDelta, Statement, TableWords
      <4> QED
        BY <1>1, <3>2, <4>1 DEF CreateViewDelta, catalog, ghosts
    <3>3. CASE Publish(s)
      <4>1. Of(s) \in Views
        BY <3>3, CurrentOK DEF Publish, Statement, TableWords
      <4> QED
        BY <1>1, <3>3, <4>1 DEF Publish, objects
    <3>4. CASE \/ DropStale(s) \/ CheckDuplicate(s) \/ Annotate(s) \/ Intercept(s) \/ HideView(s)
               \/ DropViewDelta(s) \/ Unpublish(s) \/ LockView(s) \/ UnlockView(s) \/ Finish(s)
      BY <1>1, <3>4 DEF DropStale, CheckDuplicate, Annotate, Intercept, HideView, DropViewDelta, Unpublish,
                        LockView, UnlockView, Finish, objects, catalog, ghosts
    <3> QED
      BY <1>2, <3>1, <3>2, <3>3, <3>4
  <2> QED
    BY <2>1, <2>2, StoringStill
<1>3. CASE Load(s)
  <2>1. Of(s) \in Views
    BY <1>3, CurrentOK DEF Load, Statement, TableWords
  <2>2. /\ data' = [data EXCEPT ![Of(s)] = Written(Of(s))] /\ Written(Of(s)) \in Stored
        /\ UNCHANGED <<now, base, delta, deltaOf, shown, published, cursor, write, refresh, missed, broken>>
    BY <1>3, <2>1, WrittenOK DEF Load, tables, catalog, ghosts, Stored
  <2>3. data' \in [Views -> Stored]
    BY <1>1, <2>1, <2>2
  <2> QED
    BY <2>2, <2>3 DEF Storing, Stored, Past
<1>4. CASE CreateSourceDelta(s)
  <2>1. Of(s) \in Tables
    BY <1>4, CurrentOK DEF CreateSourceDelta, Statement, TableWords
  <2>2. /\ delta' = [delta EXCEPT ![Of(s)] = IF delta[Of(s)] = Absent THEN {} ELSE delta[Of(s)]]
        /\ UNCHANGED <<now, base, data, deltaOf, shown, published, cursor, write, refresh, missed, broken>>
    BY <1>4 DEF CreateSourceDelta, objects, catalog, ghosts
  <2>3. delta' \in [Tables -> Stored]
    BY <1>1, <2>1, <2>2 DEF Stored
  <2> QED
    BY <2>2, <2>3 DEF Storing, Stored, Past
<1>5. CASE Register(s)
  <2>1. Of(s) \in Views
    BY <1>5, CurrentOK DEF Register, Statement, TableWords
  <2>2. /\ cursor' = WithCursors(Of(s), [t \in Sources[Of(s)] |-> now])
        /\ DOMAIN missed' = DOMAIN missed
        /\ UNCHANGED <<now, base, delta, data, deltaOf, shown, published, write, refresh, broken>>
    BY <1>5 DEF Register, objects, tables
  <2>3. /\ DOMAIN cursor' = {Of(s)} \X Sources[Of(s)] \union DOMAIN cursor
        /\ \A p \in DOMAIN cursor' :
              cursor'[p] = IF p \in {Of(s)} \X Sources[Of(s)] THEN now ELSE cursor[p]
        /\ cursor' = [p \in DOMAIN cursor' |-> cursor'[p]]
    BY <2>2 DEF WithCursors
  <2>4. /\ DOMAIN cursor' \subseteq Views \X Tables
        /\ \A p \in DOMAIN cursor' : p[2] \in Sources[p[1]] /\ cursor'[p] \in 1 .. now
    BY <1>1, <2>1, <2>3, SourcesAssumption DEF Storing
  <2> QED
    BY <2>2, <2>3, <2>4 DEF Storing, Stored, Past
<1>6. CASE DropData(s)
  <2>1. /\ data' = [data EXCEPT ![Of(s)] = Absent]
        /\ UNCHANGED <<now, base, delta, deltaOf, shown, published, cursor, write, refresh, missed, broken>>
    BY <1>6 DEF DropData, tables, catalog, ghosts
  <2>2. data' \in [Views -> Stored]
    BY <1>1, <2>1 DEF Stored
  <2> QED
    BY <2>1, <2>2 DEF Storing, Stored, Past
<1>7. CASE DropCursors(s)
  <2>1. /\ cursor' = [p \in DOMAIN cursor \ CursorsOf(Of(s)) |-> cursor[p]]
        /\ UNCHANGED <<now, base, delta, data, deltaOf, shown, published, write, refresh, missed, broken>>
    BY <1>7 DEF DropCursors, Without, tables, objects, ghosts
  <2>2. /\ cursor' = [p \in DOMAIN cursor' |-> cursor'[p]] /\ DOMAIN cursor' \subseteq Views \X Tables
        /\ \A p \in DOMAIN cursor' : p[2] \in Sources[p[1]] /\ cursor'[p] \in 1 .. now
    BY <2>1 DEF Storing
  <2> QED
    BY <2>1, <2>2 DEF Storing, Stored, Past
<1>8. CASE DropSourceDelta(s)
  <2>1. /\ delta' = [delta EXCEPT ![Of(s)] = IF Registered(Of(s)) THEN delta[Of(s)] ELSE Absent]
        /\ UNCHANGED <<now, base, data, deltaOf, shown, published, cursor, write, refresh, missed, broken>>
    BY <1>8 DEF DropSourceDelta, objects, catalog, ghosts
  <2>2. Of(s) \in Tables
    BY <1>8, CurrentOK DEF DropSourceDelta, Statement, TableWords
  <2>3. delta' \in [Tables -> Stored]
    BY <1>1, <2>1, <2>2 DEF Stored
  <2> QED
    BY <2>1, <2>3 DEF Storing, Stored, Past
<1>9. CASE DropBase(s)
  <2>1. /\ base' = [base EXCEPT ![Of(s)] = Absent]
        /\ \A w \in Writers : write[w] # Idle => write[w].table # Of(s)
        /\ UNCHANGED <<now, delta, data, deltaOf, shown, published, cursor, write, refresh, missed, broken>>
    BY <1>9 DEF DropBase, objects, catalog, ghosts
  <2>2. base' \in [Tables -> Stored]
    BY <1>1, <2>1 DEF Stored
  <2>3. \A w \in Writers : write'[w] # Idle => base'[write'[w].table] # Absent
    <3> SUFFICES ASSUME NEW w \in Writers, write[w] # Idle
                 PROVE  base'[write[w].table] # Absent
      BY <2>1
    <3>1. write[w].table \in Tables /\ base[write[w].table] # Absent
      BY DEF Storing
    <3> QED
      BY <1>1, <2>1, <3>1
  <2> QED
    BY <2>1, <2>2, <2>3 DEF Storing, Stored, Past
<1> QED
  BY <1>2, <1>3, <1>4, <1>5, <1>6, <1>7, <1>8, <1>9 DEF Step

\* Rows are captured.
LEMMA StoringCapture ==
    ASSUME Storing, NEW w \in Writers, NEW t \in Tables, Capture(w, t)
    PROVE  Storing'
<1> DEFINE x == [table |-> t, row |-> now]
<1>1. /\ base[t] # Absent /\ now <= MaxRows /\ now' = now + 1
      /\ delta' = [delta EXCEPT ![t] = IF delta[t] = Absent THEN delta[t] ELSE delta[t] \union {now}]
      /\ write' = [write EXCEPT ![w] = x]
      /\ UNCHANGED <<base, data, deltaOf, shown, published, cursor, refresh, missed, broken>>
  BY DEF Capture, objects, catalog, ghosts
<1>2. now \in Nat /\ now >= 1 /\ MaxRows \in Nat
  BY SourcesAssumption DEF Storing
<1>3. Past \subseteq Past' /\ Stored \subseteq Stored' /\ now \in Past' /\ 1 .. now \subseteq 1 .. now'
  BY <1>1, <1>2 DEF Past, Stored
<1>4. now' \in 1 .. MaxRows + 1
  BY <1>1, <1>2
<1>5. base' \in [Tables -> Stored'] /\ data' \in [Views -> Stored']
  BY <1>1, <1>3 DEF Storing
<1>6. delta' \in [Tables -> Stored']
  <2>1. delta \in [Tables -> Stored]
    BY DEF Storing
  <2>2. (IF delta[t] = Absent THEN delta[t] ELSE delta[t] \union {now}) \in Stored'
    BY <1>3, <2>1 DEF Stored
  <2> QED
    BY <1>1, <1>3, <2>1, <2>2
<1>7. /\ write' \in [Writers -> {Idle} \union [table : Tables, row : Past']]
      /\ \A y \in Writers : write'[y] # Idle => base'[write'[y].table] # Absent
  <2>1. /\ write \in [Writers -> {Idle} \union [table : Tables, row : Past]]
        /\ \A y \in Writers : write[y] # Idle => base[write[y].table] # Absent
    BY DEF Storing
  <2>2. x \in [table : Tables, row : Past'] /\ x.table = t
    BY <1>3
  <2>3. [table : Tables, row : Past] \subseteq [table : Tables, row : Past']
    BY <1>3
  <2> HIDE DEF x
  <2>4. /\ write' \in [Writers -> {Idle} \union [table : Tables, row : Past']]
        /\ write'[w] = x /\ \A y \in Writers \ {w} : write'[y] = write[y]
    BY <1>1, <2>1, <2>2, <2>3
  <2> QED
    BY <1>1, <2>1, <2>2, <2>4
<1>8. \A v \in Views :
          refresh'[v] \in {Idle} \union [at : 1 .. now', rows : [Sources[v] -> SUBSET Past']]
  <2> SUFFICES ASSUME NEW v \in Views, refresh[v] # Idle
               PROVE  refresh[v] \in [at : 1 .. now', rows : [Sources[v] -> SUBSET Past']]
    BY <1>1
  <2>1. refresh[v] \in [at : 1 .. now, rows : [Sources[v] -> SUBSET Past]]
    BY DEF Storing
  <2>2. [Sources[v] -> SUBSET Past] \subseteq [Sources[v] -> SUBSET Past']
    BY <1>3
  <2> QED
    BY <1>3, <2>1, <2>2
<1>9. \A p \in DOMAIN cursor : p[2] \in Sources[p[1]] /\ cursor[p] \in 1 .. now'
  BY <1>3 DEF Storing
<1>10. /\ cursor = [p \in DOMAIN cursor |-> cursor[p]] /\ DOMAIN cursor \subseteq Views \X Tables
       /\ deltaOf \union shown \union published \union broken \subseteq Views
       /\ DOMAIN refresh = Views /\ DOMAIN missed = Views
  BY DEF Storing
<1> QED
  BY <1>1, <1>4, <1>5, <1>6, <1>7, <1>8, <1>9, <1>10 DEF Storing

\* A statement commits its rows.
LEMMA StoringCommit ==
    ASSUME Storing, NEW w \in Writers, CommitWrite(w)
    PROVE  Storing'
<1> DEFINE t == write[w].table
<1>1. /\ write[w] # Idle /\ base' = [base EXCEPT ![t] = base[t] \union {write[w].row}]
      /\ write' = [write EXCEPT ![w] = Idle]
      /\ UNCHANGED <<now, delta, data, deltaOf, shown, published, cursor, refresh, missed, broken>>
  BY DEF CommitWrite, objects, catalog, ghosts
<1>2. /\ write \in [Writers -> {Idle} \union [table : Tables, row : Past]]
      /\ base \in [Tables -> Stored]
      /\ \A y \in Writers : write[y] # Idle => base[write[y].table] # Absent
      /\ \A rows \in SUBSET Past : rows # Absent
  BY NamesOK DEF Storing
<1>3. t \in Tables /\ base[t] \in SUBSET Past /\ write[w].row \in Past
  BY <1>1, <1>2 DEF Stored
<1>4. base[t] \union {write[w].row} \in SUBSET Past
  BY <1>3
<1>5. base[t] \union {write[w].row} \in Stored /\ base[t] \union {write[w].row} # Absent
  BY <1>2, <1>4 DEF Stored
<1>6. base' \in [Tables -> Stored]
  BY <1>1, <1>2, <1>5
<1>7. \A y \in Tables : base'[y] = Absent => base[y] = Absent
  BY <1>1, <1>2, <1>5
<1>8. /\ write' \in [Writers -> {Idle} \union [table : Tables, row : Past]]
      /\ \A y \in Writers : write'[y] # Idle => base'[write'[y].table] # Absent
  <2>1. write' \in [Writers -> {Idle} \union [table : Tables, row : Past]]
    BY <1>1, <1>2
  <2>2. \A y \in Writers : write'[y] # Idle => write'[y] = write[y] /\ write[y].table \in Tables
    BY <1>1, <1>2
  <2> QED
    BY <1>2, <1>7, <2>1, <2>2
<1> QED
  BY <1>1, <1>6, <1>8 DEF Storing, Stored, Past

\* A refresh has read its rows.
LEMMA StoringBegin ==
    ASSUME Storing, NEW v \in Views, BeginRefresh(v)
    PROVE  Storing'
<1> DEFINE r == [at |-> now, rows |-> [t \in Sources[v] |-> Pending(v, t)]]
<1>1. /\ Whole(v) /\ refresh' = [refresh EXCEPT ![v] = r]
      /\ UNCHANGED <<now, base, delta, data, deltaOf, shown, published, cursor, write, missed, broken>>
  BY DEF BeginRefresh, tables, objects, catalog, ghosts
<1>2. \A t \in Sources[v] : Pending(v, t) \in SUBSET Past
  <2> SUFFICES ASSUME NEW t \in Sources[v] PROVE Pending(v, t) \in SUBSET Past
    OBVIOUS
  <2>1. t \in Tables /\ delta[t] # Absent
    BY <1>1, SourcesAssumption DEF Whole
  <2>2. delta[t] \in SUBSET Past
    BY <2>1 DEF Storing, Stored
  <2> QED
    BY <2>2 DEF Pending
<1>3. now \in 1 .. now
  BY SourcesAssumption DEF Storing
<1>4. r \in [at : 1 .. now, rows : [Sources[v] -> SUBSET Past]]
  BY <1>2, <1>3
<1> HIDE DEF r
<1>5. /\ DOMAIN refresh' = Views
      /\ \A u \in Views :
            refresh'[u] \in {Idle} \union [at : 1 .. now, rows : [Sources[u] -> SUBSET Past]]
  BY <1>1, <1>4 DEF Storing
<1> QED
  BY <1>1, <1>5 DEF Storing, Stored, Past

\* The latest of some rows: those from a row on are finitely many, and there is
\* a row from which on there are the fewest.
LEMMA LatestOK ==
    ASSUME NEW n \in Nat, NEW R \in SUBSET (1 .. n), R # {}
    PROVE  Max(R) \in R /\ \A r \in R : r <= Max(R)
<1> DEFINE From(m) == {r \in R : r >= m}
           T == {From(m) : m \in R}
<1>1. IsFiniteSet(R)
  <2>1. 1 \in Int /\ n \in Int
    OBVIOUS
  <2> QED
    BY <2>1, FS_Interval, FS_Subset
<1>2. IsWellFoundedOn(StrictSubsetOrdering(R), SUBSET R)
  BY <1>1, FS_StrictSubsetOrderingWellFounded, FS_FiniteSubsetsOfFinite
<1>3. T \subseteq SUBSET R /\ T # {}
  OBVIOUS
<1>4. PICK X \in T : \A Y \in T : <<Y, X>> \notin StrictSubsetOrdering(R)
  <2> HIDE DEF T
  <2> QED
    BY <1>2, <1>3, WFMin
<1>5. PICK m \in R : X = From(m)
  BY <1>4
<1>6. ASSUME NEW r \in R, ~(r <= m)
      PROVE  FALSE
  <2>0. \A x \in R : x \in Int
    OBVIOUS
  <2>1. r \in Int /\ m \in Int /\ r > m
    BY <1>6
  <2>2. From(r) \subseteq From(m) /\ m \in From(m) /\ m \notin From(r)
    <3>1. \A x \in R : x >= r => x >= m
      BY <2>0, <2>1
    <3>2. m >= m /\ ~(m >= r)
      BY <2>1
    <3> QED
      BY <3>1, <3>2
  <2>3. From(r) # From(m) /\ From(r) \in SUBSET R /\ From(m) \in SUBSET R
    BY <2>2
  <2>4. <<From(r), From(m)>> \in StrictSubsetOrdering(R)
    BY <2>2, <2>3 DEF StrictSubsetOrdering
  <2> QED
    BY <1>4, <1>5, <2>4
<1>7. \A r \in R : m >= r
  BY <1>6
<1>8. Max(R) \in R /\ \A r \in R : Max(R) >= r
  BY <1>7 DEF Max
<1> QED
  BY <1>8

\* A cursor moves past what has been read.
LEMMA NextOK ==
    ASSUME Storing, NEW v \in Views, refresh[v] # Idle, NEW t \in Sources[v]
    PROVE  /\ refresh[v].at \in 1 .. now /\ refresh[v].rows[t] \in SUBSET Past
           /\ NextCursor(v, t) \in 1 .. now
           /\ \A r \in refresh[v].rows[t] : r < NextCursor(v, t)
<1> DEFINE R == refresh[v].rows[t]
<1>1. /\ refresh[v].at \in 1 .. now /\ R \in SUBSET Past /\ now \in Nat /\ now >= 1
      /\ now - 1 \in Nat
  BY SourcesAssumption DEF Storing
<1>2. CASE R = {}
  BY <1>1, <1>2 DEF NextCursor
<1>3. CASE R # {}
  <2> HIDE DEF R
  <2>1. Max(R) \in R /\ \A r \in R : r <= Max(R)
    BY <1>1, <1>3, LatestOK DEF Past
  <2>2. NextCursor(v, t) = Max(R) + 1
    BY <1>3 DEF NextCursor, R
  <2>3. Max(R) \in 1 .. now - 1 /\ \A r \in R : r \in 1 .. now - 1
    BY <1>1, <2>1 DEF Past
  <2> QED
    BY <1>1, <2>1, <2>2, <2>3 DEF R
<1> QED
  BY <1>1, <1>2, <1>3

\* A refresh has written what it has read.
LEMMA StoringEnd ==
    ASSUME Storing, NEW v \in Views, EndRefresh(v)
    PROVE  Storing'
<1> DEFINE U == UNION {refresh[v].rows[t] : t \in Sources[v]}
<1>1. /\ refresh[v] # Idle /\ Whole(v)
      /\ cursor' = WithCursors(v, [t \in Sources[v] |-> NextCursor(v, t)])
      /\ data' = [data EXCEPT ![v] = data[v] \union U]
      /\ delta' = [t \in Tables |-> IF t \in Sources[v] THEN Unread(t, cursor') ELSE delta[t]]
      /\ refresh' = [refresh EXCEPT ![v] = Idle]
      /\ UNCHANGED <<now, base, deltaOf, shown, published, write, missed, broken>>
  BY DEF EndRefresh, ghosts
<1>2. \A t \in Sources[v] : refresh[v].rows[t] \in SUBSET Past /\ NextCursor(v, t) \in 1 .. now
  BY <1>1, NextOK
<1>3. U \in SUBSET Past
  BY <1>2
<1> HIDE DEF U
<1>4. data' \in [Views -> Stored]
  <2>1. data \in [Views -> Stored] /\ data[v] # Absent
    BY <1>1 DEF Storing, Whole
  <2>2. data[v] \union U \in Stored
    BY <1>3, <2>1 DEF Stored
  <2> QED
    BY <1>1, <2>1, <2>2
<1>5. delta' \in [Tables -> Stored]
  <2>1. delta \in [Tables -> Stored] /\ \A t \in Sources[v] : t \in Tables /\ delta[t] # Absent
    BY <1>1, SourcesAssumption DEF Storing, Whole
  <2>2. \A t \in Sources[v] : Unread(t, cursor') \subseteq delta[t] /\ delta[t] \in SUBSET Past
    BY <2>1 DEF Unread, Stored
  <2>3. \A t \in Sources[v] : Unread(t, cursor') \in Stored
    BY <2>2 DEF Stored
  <2>4. \A t \in Tables : (IF t \in Sources[v] THEN Unread(t, cursor') ELSE delta[t]) \in Stored
    BY <2>1, <2>3
  <2> QED
    BY <1>1, <2>4
<1>6. /\ cursor' = [p \in DOMAIN cursor' |-> cursor'[p]] /\ DOMAIN cursor' \subseteq Views \X Tables
      /\ \A p \in DOMAIN cursor' : p[2] \in Sources[p[1]] /\ cursor'[p] \in 1 .. now
  <2> DEFINE at == [t \in Sources[v] |-> NextCursor(v, t)]
  <2>1. \A t \in Sources[v] : at[t] \in 1 .. now
    BY <1>2
  <2>2. cursor' = WithCursors(v, at)
    BY <1>1
  <2> HIDE DEF at
  <2>3. /\ DOMAIN cursor' = {v} \X Sources[v] \union DOMAIN cursor
        /\ \A p \in DOMAIN cursor' :
              cursor'[p] = IF p \in {v} \X Sources[v] THEN at[p[2]] ELSE cursor[p]
        /\ cursor' = [p \in DOMAIN cursor' |-> cursor'[p]]
    BY <2>2 DEF WithCursors
  <2> QED
    BY <2>1, <2>3, SourcesAssumption DEF Storing
<1>7. /\ DOMAIN refresh' = Views
      /\ \A u \in Views :
            refresh'[u] \in {Idle} \union [at : 1 .. now, rows : [Sources[u] -> SUBSET Past]]
  BY <1>1 DEF Storing
<1> QED
  BY <1>1, <1>4, <1>5, <1>6, <1>7 DEF Storing, Stored, Past

\* The process has died.
LEMMA StoringCrash ==
    ASSUME Storing, Crash
    PROVE  Storing'
<1>1. /\ write' = [w \in Writers |-> Idle] /\ refresh' = [v \in Views |-> Idle]
      /\ broken' \subseteq broken \union Views
      /\ UNCHANGED <<now, base, delta, data, deltaOf, shown, published, cursor, missed>>
  BY DEF Crash, tables, objects, catalog
<1>2. /\ write' \in [Writers -> {Idle} \union [table : Tables, row : Past]]
      /\ \A w \in Writers : write'[w] = Idle
      /\ DOMAIN refresh' = Views /\ \A v \in Views : refresh'[v] = Idle
  BY <1>1
<1> QED
  BY <1>1, <1>2 DEF Storing, Stored, Past

\* A statement was passed over.
LEMMA StoringPassOver ==
    ASSUME Storing, NEW s \in Sessions, PassOver(s)
    PROVE  Storing'
<1>1. /\ UNCHANGED <<now, tables, data, cursor, write, refresh, missed>>
      /\ UNCHANGED <<deltaOf, shown, published>>
      /\ broken' \subseteq broken \union Views
  BY DEF PassOver, objects, catalog
<1> QED
  BY <1>1, StoringStill DEF Storing

-----------------------------------------------------------------------------
(* The types hold                                                          *)

\* The steps of the program.
LEMMA StoringNext ==
    ASSUME TInv, [Next]_vars
    PROVE  Storing'
<1>1. ASSUME NEW s \in Sessions, NEW v \in Views, CreateView(s, v) \/ ReplaceView(s, v) \/ DropView(s, v)
      PROVE  Storing'
  <2>1. /\ UNCHANGED <<now, tables, data, cursor, write, refresh, missed>>
        /\ UNCHANGED <<deltaOf, shown, published, broken>>
    BY <1>1 DEF CreateView, ReplaceView, DropView, Start, objects, catalog, ghosts
  <2> QED
    BY <2>1, StoringStill DEF TInv, Storing
<1>2. ASSUME NEW s \in Sessions, NEW t \in Tables, DropTable(s, t)
      PROVE  Storing'
  <2>1. /\ UNCHANGED <<now, tables, data, cursor, write, refresh, missed>>
        /\ UNCHANGED <<deltaOf, shown, published, broken>>
    BY <1>2 DEF DropTable, Start, objects, catalog, ghosts
  <2> QED
    BY <2>1, StoringStill DEF TInv, Storing
<1>3. ASSUME NEW s \in Sessions, FailCreate(s)
      PROVE  Storing'
  <2>1. /\ UNCHANGED <<now, tables, data, cursor, write, refresh, missed>>
        /\ UNCHANGED <<deltaOf, shown, published, broken>>
    BY <1>3 DEF FailCreate, objects, catalog, ghosts
  <2> QED
    BY <2>1, StoringStill DEF TInv, Storing
<1>4. CASE UNCHANGED vars
  <2>1. /\ UNCHANGED <<now, tables, data, cursor, write, refresh, missed>>
        /\ UNCHANGED <<deltaOf, shown, published, broken>>
    BY <1>4 DEF vars, objects, catalog, ghosts
  <2> QED
    BY <2>1, StoringStill DEF TInv, Storing
<1>5. Storing
  BY DEF TInv
<1> QED
  BY <1>1, <1>2, <1>3, <1>4, <1>5, StoringStep, StoringPassOver, StoringCommit, StoringCapture,
     StoringBegin, StoringEnd, StoringCrash DEF Next

\* A statement that neither waits for a mutex nor releases one.
LEMMA HoldingStep ==
    ASSUME TInv, NEW s \in Sessions, Step(s)
    PROVE  Holding'
<1>1. CASE \/ DropStale(s) \/ CheckDuplicate(s) \/ Load(s) \/ ShowView(s) \/ CreateSourceDelta(s)
           \/ CreateViewDelta(s) \/ Register(s) \/ Publish(s) \/ Annotate(s) \/ HideView(s) \/ DropData(s)
           \/ DropViewDelta(s) \/ DropCursors(s) \/ Unpublish(s) \/ DropSourceDelta(s) \/ DropBase(s)
  <2>1. \E what \in (ViewWords \union TableWords) \ {"unlock"} : Current(s, what) /\ Advance(s)
    BY <1>1 DEF DropStale, CheckDuplicate, Load, ShowView, CreateSourceDelta, CreateViewDelta, Register,
                Publish, Annotate, HideView, DropData, DropViewDelta, DropCursors, Unpublish,
                DropSourceDelta, DropBase, Statement, ViewWords, TableWords
  <2>2. UNCHANGED <<lock, refresh>>
    BY <1>1 DEF DropStale, CheckDuplicate, Load, ShowView, CreateSourceDelta, CreateViewDelta, Register,
                Publish, Annotate, HideView, DropData, DropViewDelta, DropCursors, Unpublish,
                DropSourceDelta, DropBase
  <2> QED
    BY <2>1, <2>2, HoldingAdvance DEF Current
<1> QED
  BY <1>1, HoldingIntercept, HoldingLock, HoldingUnlock, HoldingFinish DEF Step

\* Every step keeps mutexes with those who release them.
LEMMA HoldingNext ==
    ASSUME TInv, [Next]_vars
    PROVE  Holding'
<1>1. ASSUME NEW s \in Sessions, PassOver(s)
      PROVE  Holding'
  <2>1. /\ session[s] # Idle /\ session[s].script # <<>> /\ Head(session[s].script).do # "unlock"
        /\ Advance(s) /\ UNCHANGED <<lock, refresh>>
    BY <1>1 DEF PassOver
  <2> QED
    BY <2>1, HoldingAdvance
<1>2. ASSUME NEW w \in Writers, CommitWrite(w) \/ \E t \in Tables : Capture(w, t)
      PROVE  Holding'
  <2>1. UNCHANGED <<session, lock, refresh>>
    BY <1>2 DEF CommitWrite, Capture
  <2> QED
    BY <2>1, HoldingStill
<1>3. CASE UNCHANGED vars
  BY <1>3, HoldingStill DEF vars
<1> QED
  BY <1>1, <1>2, <1>3, Starting, HoldingStep, HoldingFail, HoldingBegin, HoldingEnd, HoldingCrash
     DEF Next

\* Sessions dispute views.
LEMMA DisputedNext ==
    ASSUME TInv, [Next]_vars
    PROVE  disputed' \subseteq Views
<1>1. disputed \subseteq Views
  BY DEF TInv
<1>2. ASSUME NEW s \in Sessions, NEW op, NEW v, NEW q, Start(s, op, v, q)
      PROVE  disputed' \subseteq Views
  BY <1>1, <1>2 DEF Start
<1>3. ASSUME NEW s \in Sessions, Step(s) PROVE disputed' = disputed
  <2>1. CASE \/ DropStale(s) \/ CheckDuplicate(s) \/ Load(s) \/ ShowView(s) \/ CreateSourceDelta(s)
             \/ CreateViewDelta(s) \/ Register(s) \/ Publish(s) \/ Annotate(s) \/ Intercept(s)
    BY <2>1 DEF DropStale, CheckDuplicate, Load, ShowView, CreateSourceDelta, CreateViewDelta, Register,
                Publish, Annotate, Intercept, ghosts
  <2>2. CASE \/ HideView(s) \/ DropData(s) \/ DropViewDelta(s) \/ DropCursors(s) \/ Unpublish(s)
             \/ DropSourceDelta(s) \/ DropBase(s) \/ LockView(s) \/ UnlockView(s) \/ Finish(s)
    BY <2>2 DEF HideView, DropData, DropViewDelta, DropCursors, Unpublish, DropSourceDelta, DropBase,
                LockView, UnlockView, Finish, ghosts
  <2> QED
    BY <1>3, <2>1, <2>2 DEF Step
<1>4. ASSUME NEW s \in Sessions, FailCreate(s) \/ PassOver(s) PROVE disputed' = disputed
  BY <1>4 DEF FailCreate, PassOver, ghosts
<1>5. ASSUME NEW w \in Writers, CommitWrite(w) \/ \E t \in Tables : Capture(w, t)
      PROVE  disputed' = disputed
  BY <1>5 DEF CommitWrite, Capture, ghosts
<1>6. ASSUME NEW v \in Views, BeginRefresh(v) \/ EndRefresh(v) PROVE disputed' = disputed
  BY <1>6 DEF BeginRefresh, EndRefresh, ghosts
<1>7. CASE Crash \/ UNCHANGED vars
  BY <1>1, <1>7 DEF Crash, vars, ghosts
<1>8. ASSUME NEW s \in Sessions, NEW v \in Views, CreateView(s, v) \/ ReplaceView(s, v) \/ DropView(s, v)
      PROVE  disputed' \subseteq Views
  BY <1>2, <1>8 DEF CreateView, ReplaceView, DropView
<1>9. ASSUME NEW s \in Sessions, NEW t \in Tables, DropTable(s, t) PROVE disputed' \subseteq Views
  BY <1>2, <1>9 DEF DropTable
<1> QED
  BY <1>1, <1>3, <1>4, <1>5, <1>6, <1>7, <1>8, <1>9 DEF Next

LEMMA TInvInit == Init => TInv
  BY StoringInit, HoldingInit DEF Init, TInv

LEMMA TInvNext == TInv /\ [Next]_vars => TInv'
  BY StoringNext, HoldingNext, DisputedNext DEF TInv

\* TypeOK of every run, for any tables, views, sessions, writers and failures:
\* nothing is from the future, and a mutex that a session holds is released by
\* what is left of its script.
THEOREM LifecycleTypesHold == Spec => [](TInv /\ TypeOK)
<1>1. TInv => TypeOK
  BY TypesOK
<1> QED
  BY <1>1, TInvInit, TInvNext, PTL DEF Spec
-----------------------------------------------------------------------------
(* What is left to do keeps its promise                                    *)

\* There is as much of v as there was.
Same(v) ==
    /\ v \in published' <=> v \in published
    /\ v \in deltaOf' <=> v \in deltaOf
    /\ v \in shown' <=> v \in shown
    /\ data'[v] = Absent <=> data[v] = Absent
    /\ CursorsOf(v) \intersect DOMAIN cursor' = CursorsOf(v) \intersect DOMAIN cursor

\* What LifeInv says of a view.
Kept(v) == (v \notin broken => Tidy(v)) /\ Completes(v) /\ Clear(v)

\* One session has all that is left to do.
LEMMA OneScript ==
    ASSUME OneSession, NEW s \in Sessions
    PROVE  ToDo = ToSet(Scripts(s)) /\ ToDo' = ToSet(Scripts(s)') /\ Sessions = {s}
<1>1. Sessions = {s}
  BY DEF OneSession
<1>2. ToDo = ToSet(Scripts(s))
  BY <1>1 DEF ToDo
<1>3. ToDo' = ToSet(Scripts(s)')
  BY <1>1 DEF ToDo
<1> QED
  BY <1>1, <1>2, <1>3

\* The cursors of v.
LEMMA CursorsIn ==
    ASSUME NEW v \in Views
    PROVE  /\ \A t \in Sources[v] : <<v, t>> \in CursorsOf(v)
           /\ {v} \X Sources[v] \subseteq CursorsOf(v)
  BY SourcesAssumption DEF CursorsOf

\* A step that leaves v, and what is to be done about it, as they were.
LEMMA Elsewhere ==
    ASSUME NEW v \in Views, Kept(v), Same(v), v \in broken => v \in broken',
           \A a : a \notin {"drop_stale", "duplicate", "unlock"} =>
              (Do(a, v) \in ToDo' <=> Do(a, v) \in ToDo),
           Alone(v) => Alone(v)',
           \A t \in Sources[v] : delta'[t] = Absent =>
              \/ delta[t] = Absent /\ (Do("create_delta", t) \in ToDo => Do("create_delta", t) \in ToDo')
              \/ <<v, t>> \notin DOMAIN cursor /\ (Coming(v) => Do("create_delta", t) \in ToDo'),
           (\E x \in ToDo' : x.do \notin CreateWords) =>
              /\ \E x \in ToDo : x.do \notin CreateWords
              /\ \A t \in Tables : Do("create_delta", t) \in ToDo => Do("create_delta", t) \in ToDo'
    PROVE  Kept(v)'
<1>1. Coming(v)' <=> Coming(v)
  BY DEF Coming
<1>2. Ahead(v) => Ahead(v)'
  BY DEF Ahead, Same
<1>3. Dismantling(v)' <=> Dismantling(v)
  BY DEF Dismantling, Same, CursorsOf
<1>4. \A t \in Sources[v] : <<v, t>> \in DOMAIN cursor' <=> <<v, t>> \in DOMAIN cursor
  BY CursorsIn DEF Same
<1>5. Whole(v) => Whole(v)'
  BY <1>4 DEF Whole, Same
<1>6. v \notin broken' => Tidy(v)'
  BY <1>1, <1>2, <1>3, <1>5 DEF Kept, Tidy
<1>7. Completes(v)'
  <2> SUFFICES ASSUME Coming(v)
               PROVE  Completes(v)'
    BY <1>1 DEF Completes
  <2>1. /\ data'[v] # Absent \/ Do("load", v) \in ToDo'
        /\ v \in shown' \/ Do("create_view", v) \in ToDo'
        /\ v \in deltaOf' \/ Do("create_mv_delta", v) \in ToDo'
    BY DEF Kept, Completes, Same
  <2>2. {v} \X Sources[v] \subseteq DOMAIN cursor' \/ Do("cursors", v) \in ToDo'
    BY CursorsIn DEF Kept, Completes, Same
  <2>3. \A t \in Sources[v] : delta'[t] # Absent \/ Do("create_delta", t) \in ToDo'
    BY DEF Kept, Completes
  <2>4. (\E x \in ToDo' : x.do \notin CreateWords) =>
              /\ {Do("load", v), Do("create_view", v), Do("create_mv_delta", v), Do("cursors", v)}
                    \subseteq ToDo'
              /\ \A t \in Sources[v] : Do("create_delta", t) \in ToDo'
    BY SourcesAssumption DEF Kept, Completes
  <2> QED
    BY <2>1, <2>2, <2>3, <2>4 DEF Completes
<1>8. Clear(v)'
  BY <1>3 DEF Kept, Clear, Same, CursorsOf
<1> QED
  BY <1>6, <1>7, <1>8 DEF Kept

\* A step that is of no session.
LEMMA LifeStill ==
    ASSUME OneSession, TInv, LifeInv, session' = session, broken' = broken, published' = published,
           \A v \in Views : Same(v),
           \A t \in Tables : delta'[t] = Absent => delta[t] = Absent
    PROVE  LifeInv'
<1>1. \A s \in Sessions : Scripts(s)' = Scripts(s)
  BY DEF Scripts
<1>2. ToDo' = ToDo
  BY <1>1 DEF ToDo
<1>3. ASSUME NEW v \in Views
      PROVE  Kept(v)'
  <2>1. Kept(v)
    BY DEF LifeInv, Kept
  <2>2. \A t \in Sources[v] : t \in Tables
    BY SourcesAssumption
  <2>3. Alone(v) => Alone(v)'
    BY <1>2 DEF Alone
  <2> QED
    BY <1>2, <2>1, <2>2, <2>3, Elsewhere
<1>4. ASSUME NEW s \in Sessions
      PROVE  Shaped(Scripts(s)') /\ OfOneView(s)'
  <2>1. Shaped(Scripts(s)) /\ OfOneView(s)
    BY DEF LifeInv
  <2>2. OfOneView(s)'
    BY <1>1, <2>1 DEF OfOneView
  <2> QED
    BY <1>1, <2>1, <2>2
<1> QED
  BY <1>3, <1>4 DEF LifeInv, Kept, Shaped, CreatesLast, PublishesLast, LocksFirst

\* What a session with a statement to execute has to do.
LEMMA AtWork ==
    ASSUME OneSession, TInv, LifeInv, NEW s \in Sessions, session[s] # Idle, session[s].script # <<>>
    PROVE  /\ ToDo = {Do(Head(session[s].script).do, Of(s))} \union ToSet(Tail(session[s].script))
           /\ ToDo = ToSet(Scripts(s)) /\ Scripts(s) = session[s].script
           /\ Head(session[s].script) = Do(Head(session[s].script).do, Of(s))
           /\ Head(session[s].script).do \in CreateWords => \A x \in ToDo : x.do \in CreateWords
           /\ Head(session[s].script).do = "cursors" =>
                \A x \in ToSet(Tail(session[s].script)) : x.do \in {"publish", "annotate"}
           /\ Head(session[s].script).do = "publish" =>
                \A x \in ToSet(Tail(session[s].script)) : x.do = "annotate"
           /\ Head(session[s].script).do = "annotate" => Tail(session[s].script) = <<>>
           /\ \A x \in ToSet(Tail(session[s].script)) : x.do # "lock"
           /\ Shaped(Tail(session[s].script)) /\ Tail(session[s].script) \in Seq(Items)
<1>1. /\ ToDo = ToSet(Scripts(s)) /\ Scripts(s) = session[s].script /\ Scripts(s) \in Seq(Items)
      /\ Head(session[s].script) = Do(Head(session[s].script).do, Of(s))
      /\ ToSet(Scripts(s)) = {Do(Head(session[s].script).do, Of(s))} \union ToSet(Tail(session[s].script))
      /\ Tail(session[s].script) \in Seq(Items)
  BY HeadOK, OneScript
<1>2. Shaped(session[s].script)
  BY <1>1 DEF LifeInv
<1> QED
  BY <1>1, <1>2, ShapedTail

\* A step of a session leaves its promise about the views that it is not about.
LEMMA StepElsewhere ==
    ASSUME OneSession, TInv, LifeInv, NEW s \in Sessions, session[s] # Idle, session[s].script # <<>>,
           NEW N, ToDo' = N \union ToSet(Tail(session[s].script)),
           \A y \in N : y.do \notin CreateWords /\ (y.of = Of(s) \/ y.of \in Tables),
           N # {} => Head(session[s].script).do \notin CreateWords,
           NEW v \in Views, v # Of(s), Same(v), v \in broken => v \in broken',
           \A t \in Tables : delta'[t] = Absent =>
              \/ delta[t] = Absent /\ ~(Head(session[s].script).do = "create_delta" /\ Of(s) = t)
              \/ Head(session[s].script).do \notin CreateWords /\ ~Registered(t)
    PROVE  Kept(v)'
<1> DEFINE T == ToSet(Tail(session[s].script))
           w == Head(session[s].script).do
           u == Of(s)
<1>1. /\ ToDo = {Do(w, u)} \union T /\ ToDo' = N \union T
      /\ w \in CreateWords => \A x \in ToDo : x.do \in CreateWords
  BY AtWork
<1>2. Kept(v) /\ v \notin Tables /\ \A t \in Sources[v] : t \in Tables
  BY SourcesAssumption DEF LifeInv, Kept
<1> HIDE DEF T, w, u
<1>3. \A a : Do(a, v) \in ToDo' <=> Do(a, v) \in ToDo
  <2>1. \A a : Do(a, v) # Do(w, u)
    BY DoOK DEF u
  <2>2. \A a : Do(a, v) \notin N
    BY <1>2, DoOK DEF u
  <2> QED
    BY <1>1, <2>1, <2>2
<1>4. Alone(v) => Alone(v)'
  BY <1>1, <1>2 DEF Alone, u
<1>5. \A t : w \notin CreateWords => Do("create_delta", t) # Do(w, u)
  BY DoOK DEF CreateWords
<1>6. \A t \in Sources[v] : delta'[t] = Absent =>
              \/ delta[t] = Absent /\ (Do("create_delta", t) \in ToDo => Do("create_delta", t) \in ToDo')
              \/ <<v, t>> \notin DOMAIN cursor /\ (Coming(v) => Do("create_delta", t) \in ToDo')
  <2> SUFFICES ASSUME NEW t \in Sources[v], delta'[t] = Absent
               PROVE  \/ /\ delta[t] = Absent
                         /\ Do("create_delta", t) \in ToDo => Do("create_delta", t) \in ToDo'
                      \/ /\ <<v, t>> \notin DOMAIN cursor
                         /\ Coming(v) => Do("create_delta", t) \in ToDo'
    OBVIOUS
  <2>1. CASE delta[t] = Absent /\ ~(w = "create_delta" /\ u = t)
    <3>1. Do("create_delta", t) # Do(w, u)
      BY <2>1, DoOK
    <3> QED
      BY <1>1, <2>1, <3>1
  <2>2. CASE w \notin CreateWords /\ ~Registered(t)
    <3>1. <<v, t>> \notin DOMAIN cursor
      BY <2>2 DEF Registered
    <3>2. Do(w, u) \in ToDo /\ Do(w, u).do \notin CreateWords
      BY <1>1, <2>2, DoOK
    <3>3. Coming(v) => Do("create_delta", t) \in ToDo
      BY <1>2, <3>2 DEF Kept, Completes
    <3> QED
      BY <1>1, <1>5, <2>2, <3>1, <3>3
  <2> QED
    BY <1>2, <2>1, <2>2 DEF w, u
<1>7. ASSUME NEW x \in ToDo', x.do \notin CreateWords
      PROVE  /\ \E y \in ToDo : y.do \notin CreateWords
             /\ \A t \in Tables : Do("create_delta", t) \in ToDo => Do("create_delta", t) \in ToDo'
  <2>1. w \notin CreateWords
    BY <1>1, <1>7 DEF w
  <2>2. Do(w, u) \in ToDo /\ Do(w, u).do \notin CreateWords
    BY <1>1, <2>1, DoOK
  <2> QED
    BY <1>1, <1>5, <2>1, <2>2
<1> QED
  BY <1>2, <1>3, <1>4, <1>6, <1>7, Elsewhere

\* What OfOneView says, at work.
LEMMA Maker ==
    ASSUME OneSession, TInv, LifeInv, NEW s \in Sessions, session[s] # Idle, session[s].script # <<>>
    PROVE  LET w == Head(session[s].script).do IN
           /\ w \in Making => session[s].op \in {"create", "replace"} /\ ~session[s].undo
           /\ w \in Making \ {"create_delta"} => Of(s) = session[s].view
           /\ w \in Making \ {"create_delta", "annotate"} => Coming(Of(s))
<1> DEFINE w == Head(session[s].script).do
<1>1. OfOneView(s) /\ ToDo = ToSet(Scripts(s)) /\ Do(w, Of(s)) \in ToDo
  BY AtWork DEF LifeInv
<1>2. w \in Making =>
        /\ session[s].op \in {"create", "replace"} /\ ~session[s].undo
        /\ w # "annotate" => Do("publish", session[s].view) \in ToDo
  BY <1>1, DoOK DEF OfOneView
<1>3. ASSUME w \in Making \ {"create_delta"}
      PROVE  Of(s) = session[s].view
  <2>1. w \notin TableWords
    BY <1>3 DEF Making, CreateWords, TableWords
  <2>2. Of(s) \in Views
    BY <2>1, HeadOK
  <2> QED
    BY <1>1, <1>2, <1>3, <2>2, DoOK DEF OfOneView
<1> QED
  BY <1>2, <1>3 DEF Coming

\* A session has gone on to its next statement.
LEMMA Advanced ==
    ASSUME OneSession, TInv, NEW s \in Sessions, session[s] # Idle, session[s].script # <<>>, Advance(s)
    PROVE  /\ ToDo' = ToSet(Tail(session[s].script)) /\ Scripts(s)' = Tail(session[s].script)
           /\ session'[s] # Idle /\ session'[s].op = session[s].op
           /\ session'[s].view = session[s].view /\ session'[s].undo = session[s].undo
<1> DEFINE q == Tail(session[s].script)
<1>1. q \in Seq(Items)
  BY HeadOK
<1>2. session' = [session EXCEPT ![s].script = q]
  BY DEF Advance
<1> HIDE DEF q
<1>3. /\ Scripts(s)' = q /\ session'[s] # Idle /\ session'[s].op = session[s].op
      /\ session'[s].view = session[s].view /\ session'[s].undo = session[s].undo
  BY <1>1, <1>2, Rescripted
<1> QED
  BY <1>3, OneScript DEF q

\* A statement that drops something of its view.
LEMMA DropsOwn ==
    ASSUME OneSession, TInv, LifeInv, NEW s \in Sessions, session[s] # Idle, session[s].script # <<>>,
           NEW u \in Views, u = Of(s), Advance(s), UNCHANGED <<broken, delta>>,
           Head(session[s].script).do \notin CreateWords \union {"lock", "lock_dependent"},
           u \in published' => u \in published,
           u \in deltaOf' => u \in deltaOf,
           u \in shown' => u \in shown,
           data[u] = Absent => data'[u] = Absent,
           DOMAIN cursor' \subseteq DOMAIN cursor,
           Head(session[s].script).do \notin {"unpublish", "drop_stale"} =>
              (u \in published => u \in published'),
           Head(session[s].script).do = "unpublish" => u \notin published',
           Head(session[s].script).do = "drop_mv_delta" => u \notin deltaOf',
           Head(session[s].script).do = "drop_data" => data'[u] = Absent,
           Head(session[s].script).do = "drop_cursors" =>
              CursorsOf(u) \intersect DOMAIN cursor' = {},
           Head(session[s].script).do = "hide" => u \notin shown',
           Head(session[s].script).do = "drop_view" => u \notin shown' /\ u \notin published
    PROVE  Kept(u)'
<1> DEFINE T == ToSet(Tail(session[s].script))
           w == Head(session[s].script).do
<1>1. ToDo = {Do(w, u)} \union T /\ ToDo' = T
  BY AtWork, Advanced
<1>2. Kept(u) /\ Do(w, u).of = u /\ Do(w, u).do = w
  BY DoOK DEF LifeInv, Kept
<1>3. w \in {"drop_stale", "duplicate"} => Coming(u)
  BY Maker DEF Making, CreateWords
<1> HIDE DEF T, w
<1>4. \A a : a # w => (Do(a, u) \in ToDo' <=> Do(a, u) \in ToDo)
  BY <1>1, DoOK
<1>5. \A t : Do("create_delta", t) \in ToDo => Do("create_delta", t) \in ToDo'
  <2>1. \A t : Do("create_delta", t) # Do(w, u)
    BY DoOK DEF w, CreateWords
  <2> QED
    BY <1>1, <2>1
<1>6. Dismantling(u) => Dismantling(u)'
  <2> SUFFICES ASSUME Dismantling(u) PROVE Dismantling(u)'
    OBVIOUS
  <2>1. u \in published' => Do("unpublish", u) \in ToDo'
    BY <1>4 DEF Dismantling, w
  <2>2. u \in deltaOf' => Do("drop_mv_delta", u) \in ToDo'
    BY <1>4 DEF Dismantling, w
  <2>3. data'[u] # Absent => Do("drop_data", u) \in ToDo'
    BY <1>4 DEF Dismantling, w
  <2>4. CursorsOf(u) \intersect DOMAIN cursor' # {} => Do("drop_cursors", u) \in ToDo'
    BY <1>4 DEF Dismantling, w
  <2>5. u \in shown' => Do("hide", u) \in ToDo' \/ Do("drop_view", u) \in ToDo'
    BY <1>4 DEF Dismantling, w
  <2> QED
    BY <2>1, <2>2, <2>3, <2>4, <2>5 DEF Dismantling, CursorsOf
<1>7. Coming(u) => Coming(u)'
  BY <1>4 DEF Coming, w, CreateWords
<1>8. ~(Whole(u) /\ Alone(u))
  BY <1>1, <1>2 DEF Alone, w, CreateWords
<1>9. u \notin broken' => Tidy(u)'
  <2> SUFFICES ASSUME u \notin broken, ~Coming(u)
               PROVE  Tidy(u)'
    BY <1>7 DEF Tidy
  <2>1. CASE w = "unpublish"
    <3>1. Dismantling(u)
      BY <1>1, <1>2, <2>1 DEF Kept, Clear
    <3> QED
      BY <1>6, <3>1 DEF Tidy
  <2>2. CASE w # "unpublish"
    <3>1. u \in published => u \in published'
      BY <1>3, <2>2 DEF w
    <3>2. Ahead(u) => Ahead(u)'
      BY <1>4, <3>1 DEF Ahead, w
    <3> QED
      BY <1>2, <1>6, <1>8, <3>2 DEF Kept, Tidy
  <2> QED
    BY <2>1, <2>2
<1>10. Completes(u)'
  <2> SUFFICES ASSUME Coming(u)'
               PROVE  Completes(u)'
    BY DEF Completes
  <2>1. Coming(u)
    BY <1>1 DEF Coming
  <2>2. /\ {Do("load", u), Do("create_view", u), Do("create_mv_delta", u), Do("cursors", u)} \subseteq ToDo
        /\ \A t \in Sources[u] : Do("create_delta", t) \in ToDo
    BY <1>1, <1>2, <2>1 DEF Kept, Completes, w
  <2>3. w \notin {"load", "create_view", "create_mv_delta", "cursors"}
    BY DEF w, CreateWords
  <2>4. /\ Do("load", u) \in ToDo' /\ Do("create_view", u) \in ToDo'
        /\ Do("create_mv_delta", u) \in ToDo' /\ Do("cursors", u) \in ToDo'
        /\ \A t \in Sources[u] : Do("create_delta", t) \in ToDo'
    BY <1>4, <1>5, <2>2, <2>3
  <2> QED
    BY <2>4 DEF Completes
<1>11. Clear(u)'
  <2> SUFFICES ASSUME u \notin broken
               PROVE  /\ Do("unpublish", u) \in ToDo' => Dismantling(u)'
                      /\ Do("cursors", u) \in ToDo' =>
                            CursorsOf(u) \intersect DOMAIN cursor' = {} \/ Do("drop_cursors", u) \in ToDo'
    BY DEF Clear, CursorsOf
  <2>1. /\ Do("unpublish", u) \in ToDo => Dismantling(u)
        /\ Do("cursors", u) \in ToDo =>
              CursorsOf(u) \intersect DOMAIN cursor = {} \/ Do("drop_cursors", u) \in ToDo
    BY <1>2 DEF Kept, Clear
  <2>2. Do("unpublish", u) \in ToDo' => Do("unpublish", u) \in ToDo
    BY <1>1
  <2>3. Do("cursors", u) \in ToDo' => Do("cursors", u) \in ToDo
    BY <1>1
  <2> QED
    BY <1>4, <1>6, <2>1, <2>2, <2>3 DEF w
<1> QED
  BY <1>9, <1>10, <1>11 DEF Kept

\* A statement that creates something of its view.
LEMMA CreatesOwn ==
    ASSUME OneSession, TInv, LifeInv, NEW s \in Sessions, session[s] # Idle, session[s].script # <<>>,
           NEW u \in Views, u = Of(s), Advance(s), UNCHANGED <<broken, delta>>,
           Head(session[s].script).do \in {"load", "create_view", "create_mv_delta", "cursors"},
           u \in deltaOf => u \in deltaOf',
           u \in shown => u \in shown',
           data[u] # Absent => data'[u] # Absent,
           DOMAIN cursor \subseteq DOMAIN cursor',
           Head(session[s].script).do # "cursors" => DOMAIN cursor' = DOMAIN cursor,
           Head(session[s].script).do = "load" => data'[u] # Absent,
           Head(session[s].script).do = "create_view" => u \in shown',
           Head(session[s].script).do = "create_mv_delta" => u \in deltaOf',
           Head(session[s].script).do = "cursors" => {u} \X Sources[u] \subseteq DOMAIN cursor'
    PROVE  Kept(u)'
<1> DEFINE T == ToSet(Tail(session[s].script))
           w == Head(session[s].script).do
<1>1. ToDo = {Do(w, u)} \union T /\ ToDo' = T /\ \A x \in ToDo : x.do \in CreateWords
  BY AtWork, Advanced DEF CreateWords
<1>2. Kept(u)
  BY DEF LifeInv, Kept
<1>3. Coming(u)
  BY Maker DEF Making, CreateWords
<1>4. w = "cursors" => \A x \in T : x.do # "cursors"
  BY AtWork
<1> HIDE DEF T, w
<1>5. \A a : a # w => (Do(a, u) \in ToDo' <=> Do(a, u) \in ToDo)
  BY <1>1, DoOK
<1>6. \A t : Do("create_delta", t) \in ToDo => Do("create_delta", t) \in ToDo'
  <2>1. \A t : Do("create_delta", t) # Do(w, u)
    BY DoOK DEF w
  <2> QED
    BY <1>1, <2>1
<1>7. Coming(u)'
  BY <1>3, <1>5 DEF Coming, w
<1>8. Completes(u)'
  <2>1. /\ data[u] # Absent \/ Do("load", u) \in ToDo
        /\ u \in shown \/ Do("create_view", u) \in ToDo
        /\ u \in deltaOf \/ Do("create_mv_delta", u) \in ToDo
        /\ {u} \X Sources[u] \subseteq DOMAIN cursor \/ Do("cursors", u) \in ToDo
        /\ \A t \in Sources[u] : delta[t] # Absent \/ Do("create_delta", t) \in ToDo
    BY <1>2, <1>3 DEF Kept, Completes
  <2>2. data'[u] # Absent \/ Do("load", u) \in ToDo'
    BY <1>5, <2>1 DEF w
  <2>3. u \in shown' \/ Do("create_view", u) \in ToDo'
    BY <1>5, <2>1 DEF w
  <2>4. u \in deltaOf' \/ Do("create_mv_delta", u) \in ToDo'
    BY <1>5, <2>1 DEF w
  <2>5. {u} \X Sources[u] \subseteq DOMAIN cursor' \/ Do("cursors", u) \in ToDo'
    BY <1>5, <2>1 DEF w
  <2>6. \A t \in Sources[u] : delta'[t] # Absent \/ Do("create_delta", t) \in ToDo'
    BY <1>6, <2>1
  <2>7. \A x \in ToDo' : x.do \in CreateWords
    BY <1>1
  <2> QED
    BY <2>2, <2>3, <2>4, <2>5, <2>6, <2>7 DEF Completes
<1>9. Clear(u)'
  <2> SUFFICES ASSUME u \notin broken
               PROVE  /\ Do("unpublish", u) \notin ToDo'
                      /\ Do("cursors", u) \in ToDo' =>
                            CursorsOf(u) \intersect DOMAIN cursor' = {} \/ Do("drop_cursors", u) \in ToDo'
    BY DEF Clear, CursorsOf
  <2>1. Do("unpublish", u) \notin ToDo'
    BY <1>1, DoOK DEF CreateWords
  <2>2. CASE w = "cursors"
    BY <1>1, <1>4, <2>1, <2>2, DoOK
  <2>3. CASE w # "cursors"
    <3>1. Do("cursors", u) \in ToDo =>
              CursorsOf(u) \intersect DOMAIN cursor = {} \/ Do("drop_cursors", u) \in ToDo
      BY <1>2 DEF Kept, Clear
    <3>2. w # "drop_cursors" /\ DOMAIN cursor' = DOMAIN cursor
      BY <2>3 DEF w
    <3> QED
      BY <1>5, <2>1, <2>3, <3>1, <3>2
  <2> QED
    BY <2>2, <2>3
<1> QED
  BY <1>7, <1>8, <1>9 DEF Kept, Tidy

\* The last statement of a CREATE makes all of it visible.
LEMMA PublishOwn ==
    ASSUME OneSession, TInv, LifeInv, NEW s \in Sessions, NEW u \in Views, u = Of(s), Publish(s)
    PROVE  Kept(u)'
<1>1. /\ session[s] # Idle /\ session[s].script # <<>> /\ Head(session[s].script).do = "publish"
      /\ Advance(s) /\ published' = published \union {u}
      /\ UNCHANGED <<data, deltaOf, shown, cursor, delta>>
  BY DEF Publish, Statement, Current, tables, objects
<1> DEFINE T == ToSet(Tail(session[s].script))
<1>2. /\ ToDo = {Do("publish", u)} \union T /\ ToDo' = T
      /\ \A x \in T : x.do = "annotate"
  BY <1>1, AtWork, Advanced
<1> HIDE DEF T
<1>3. Coming(u) /\ Completes(u)
  BY <1>2 DEF Coming, LifeInv
<1>4. \A a, x : a \notin {"publish", "annotate"} => Do(a, x) \notin ToDo
  BY <1>2, DoOK
<1>5. /\ data[u] # Absent /\ u \in shown /\ u \in deltaOf /\ {u} \X Sources[u] \subseteq DOMAIN cursor
      /\ \A t \in Sources[u] : delta[t] # Absent
  BY <1>3, <1>4 DEF Completes
<1>6. Whole(u)'
  BY <1>1, <1>5 DEF Whole
<1>7. Alone(u)'
  BY <1>2 DEF Alone
<1>8. \A a, x : a # "annotate" => Do(a, x) \notin ToDo'
  BY <1>2, DoOK
<1> QED
  BY <1>6, <1>7, <1>8 DEF Kept, Tidy, Completes, Clear, Coming

\* Something else has come before the next statement.
LEMMA Prepended ==
    ASSUME OneSession, TInv, NEW s \in Sessions, session[s] # Idle, session[s].script # <<>>,
           NEW p \in Seq(Items), session' = [session EXCEPT ![s].script = p \o Tail(session[s].script)]
    PROVE  /\ ToDo' = ToSet(p) \union ToSet(Tail(session[s].script))
           /\ Scripts(s)' = p \o Tail(session[s].script)
           /\ session'[s] # Idle /\ session'[s].op = session[s].op
           /\ session'[s].view = session[s].view /\ session'[s].undo = session[s].undo
<1> DEFINE r == Tail(session[s].script)
           q == p \o r
<1>1. r \in Seq(Items)
  BY HeadOK
<1> HIDE DEF r
<1>2. q \in Seq(Items) /\ ToSet(q) = ToSet(p) \union ToSet(r)
  BY <1>1, ConcatOK
<1>3. session' = [session EXCEPT ![s].script = q]
  BY DEF r
<1> HIDE DEF q
<1>4. /\ Scripts(s)' = q /\ session'[s] # Idle /\ session'[s].op = session[s].op
      /\ session'[s].view = session[s].view /\ session'[s].undo = session[s].undo
  BY <1>2, <1>3, Rescripted
<1> QED
  BY <1>2, <1>4, OneScript DEF q, r

\* What the rule is going to do, once it has the mutex.
LEMMA LockOwn ==
    ASSUME OneSession, TInv, LifeInv, NEW s \in Sessions, NEW u \in Views, u = Of(s), LockView(s)
    PROVE  Kept(u)'
<1> DEFINE T == ToSet(Tail(session[s].script))
           w == Head(session[s].script).do
<1>1. PICK p \in Seq(Items) :
              /\ session[s] # Idle /\ session[s].script # <<>> /\ u \in Views
              /\ Head(session[s].script).do \in {"lock", "lock_dependent"}
              /\ session' = [session EXCEPT ![s].script = p \o Tail(session[s].script)]
              /\ UnlocksOnce(p) /\ Shaped(p)
              /\ Head(session[s].script).do = "lock" =>
                    ToSet(p) = Dropping(u) \union {Do("unlock", u)}
                                    \union {Do("drop_delta", t) : t \in SourcesOf(u)}
              /\ Head(session[s].script).do = "lock_dependent" =>
                    ToSet(p) = Dropping(u) \union {Do("drop_view", u), Do("unlock", u)}
                                    \union {Do("drop_delta", t) : t \in SourcesOf(u)}
  BY LockedScript
<1>2. ToDo = {Do(w, u)} \union T /\ ToDo' = ToSet(p) \union T
  BY <1>1, AtWork, Prepended
<1>3. w = "lock" => Do("hide", u) \in ToDo
  <2>1. /\ Shaped(Scripts(s)) /\ Scripts(s) = session[s].script /\ Scripts(s) \in Seq(Items)
        /\ ToDo = ToSet(Scripts(s)) /\ Head(session[s].script) = Do(w, u)
    BY <1>1, AtWork, HeadOK DEF LifeInv
  <2>2. Scripts(s)[1] = Do(w, u) /\ 1 \in DOMAIN Scripts(s)
    BY <1>1, <2>1, TailOK
  <2>3. w = "lock" => Do("hide", u) \in ToSet(Scripts(s))
    BY <2>1, <2>2, DoOK DEF Shaped, LocksFirst
  <2> QED
    BY <2>1, <2>3
<1>4. Kept(u)
  BY DEF LifeInv, Kept
<1>5. w \in {"lock", "lock_dependent"}
  BY <1>1
<1>6. /\ Dropping(u) \subseteq ToSet(p)
      /\ w = "lock_dependent" => Do("drop_view", u) \in ToSet(p)
  BY <1>1
<1>7. UNCHANGED <<published, deltaOf, shown, data, cursor, delta, broken>>
  BY DEF LockView, tables, objects, catalog, ghosts
<1> HIDE DEF T, w
<1>8. T \subseteq ToDo' /\ \A a, x : a \notin {"lock", "lock_dependent"} /\ Do(a, x) \in ToDo => Do(a, x) \in T
  BY <1>2, <1>5, DoOK
<1>9. Dismantling(u)'
  <2>1. /\ Do("unpublish", u) \in ToDo' /\ Do("drop_cursors", u) \in ToDo'
        /\ Do("drop_mv_delta", u) \in ToDo' /\ Do("drop_data", u) \in ToDo'
    BY <1>2, <1>6 DEF Dropping
  <2>2. Do("hide", u) \in ToDo' \/ Do("drop_view", u) \in ToDo'
    BY <1>2, <1>3, <1>5, <1>6, <1>8
  <2> QED
    BY <2>1, <2>2 DEF Dismantling
<1>10. Completes(u)'
  <2> SUFFICES ASSUME Coming(u)' PROVE Completes(u)'
    BY DEF Completes
  <2>1. Do("publish", u) \notin ToSet(p)
    BY <1>1, <1>5, DoOK DEF Dropping, w
  <2>2. Coming(u)
    BY <1>2, <2>1 DEF Coming
  <2>3. Do(w, u) \in ToDo /\ Do(w, u).do \notin CreateWords
    BY <1>2, <1>5, DoOK DEF CreateWords
  <2>4. /\ {Do("load", u), Do("create_view", u), Do("create_mv_delta", u), Do("cursors", u)} \subseteq ToDo
        /\ \A t \in Sources[u] : Do("create_delta", t) \in ToDo
    BY <1>4, <2>2, <2>3 DEF Kept, Completes
  <2>5. /\ Do("load", u) \in ToDo' /\ Do("create_view", u) \in ToDo'
        /\ Do("create_mv_delta", u) \in ToDo' /\ Do("cursors", u) \in ToDo'
        /\ \A t \in Sources[u] : Do("create_delta", t) \in ToDo'
    BY <1>8, <2>4
  <2> QED
    BY <2>5 DEF Completes
<1>11. Clear(u)'
  BY <1>2, <1>6, <1>9 DEF Clear, Dropping
<1> QED
  BY <1>9, <1>10, <1>11 DEF Kept, Tidy

\* DROP VIEW waits for the rule.
LEMMA InterceptOwn ==
    ASSUME OneSession, TInv, LifeInv, NEW s \in Sessions, NEW u \in Views, u = Of(s), Intercept(s)
    PROVE  /\ Kept(u)'
           /\ ToDo' = {Do("lock", u), Do("hide", u)} \union ToSet(Tail(session[s].script))
           /\ session'[s] # Idle /\ session'[s].op = session[s].op
           /\ session'[s].view = session[s].view /\ session'[s].undo = session[s].undo
           /\ Scripts(s)' = OnView(u, <<"lock", "hide">>) \o Tail(session[s].script)
           /\ OnView(u, <<"lock", "hide">>) \in Seq(Items)
<1> DEFINE T == ToSet(Tail(session[s].script))
           l == <<"lock", "hide">>
           p == OnView(u, l)
<1>1. /\ session[s] # Idle /\ session[s].script # <<>> /\ Head(session[s].script).do = "drop_view"
      /\ session' = [session EXCEPT ![s].script = p \o Tail(session[s].script)]
      /\ UNCHANGED <<published, deltaOf, shown, data, cursor, delta, broken>>
  BY DEF Intercept, Current, Prepend, tables, objects, catalog, ghosts
<1>2. l \in Seq(ViewWords)
  BY DEF ViewWords
<1>3. ToSet(p) = {Do("lock", u), Do("hide", u)}
  BY WordsOK
<1>4. p \in Seq(Items)
  <2> HIDE DEF l
  <2>1. OnView(u, l) \in Seq({Do(x, u) : x \in ViewWords})
    BY <1>2, OnViewOK
  <2>2. {Do(x, u) : x \in ViewWords} \subseteq Items
    BY DoOK
  <2> QED
    BY <2>1, <2>2, Wider
<1>5. ToDo = {Do("drop_view", u)} \union T
  BY <1>1, AtWork
<1> HIDE DEF p, l
<1>6. /\ ToDo' = {Do("lock", u), Do("hide", u)} \union T
      /\ session'[s] # Idle /\ session'[s].op = session[s].op
      /\ session'[s].view = session[s].view /\ session'[s].undo = session[s].undo
      /\ Scripts(s)' = p \o Tail(session[s].script)
  BY <1>1, <1>3, <1>4, Prepended
<1>7. Kept(u)
  BY DEF LifeInv, Kept
<1> HIDE DEF T
<1>8. /\ \A a, x : a # "drop_view" /\ Do(a, x) \in ToDo => Do(a, x) \in ToDo'
      /\ \A a, x : a \notin {"lock", "hide"} /\ Do(a, x) \in ToDo' => Do(a, x) \in ToDo
      /\ Do("lock", u) \in ToDo' /\ Do("hide", u) \in ToDo'
  BY <1>5, <1>6, DoOK
<1>9. Ahead(u)'
  BY <1>8 DEF Ahead
<1>10. Dismantling(u) => Dismantling(u)'
  BY <1>1, <1>8 DEF Dismantling, CursorsOf
<1>11. Completes(u)'
  <2> SUFFICES ASSUME Coming(u)' PROVE Completes(u)'
    BY DEF Completes
  <2>1. Coming(u)
    BY <1>8 DEF Coming
  <2>2. Do("drop_view", u) \in ToDo /\ Do("drop_view", u).do \notin CreateWords
    BY <1>5, DoOK DEF CreateWords
  <2>3. /\ {Do("load", u), Do("create_view", u), Do("create_mv_delta", u), Do("cursors", u)} \subseteq ToDo
        /\ \A t \in Sources[u] : Do("create_delta", t) \in ToDo
    BY <1>7, <2>1, <2>2 DEF Kept, Completes
  <2>4. /\ Do("load", u) \in ToDo' /\ Do("create_view", u) \in ToDo'
        /\ Do("create_mv_delta", u) \in ToDo' /\ Do("cursors", u) \in ToDo'
        /\ \A t \in Sources[u] : Do("create_delta", t) \in ToDo'
    BY <1>8, <2>3
  <2> QED
    BY <2>4 DEF Completes
<1>12. Clear(u)'
  <2>1. u \notin broken =>
          /\ Do("unpublish", u) \in ToDo => Dismantling(u)
          /\ Do("cursors", u) \in ToDo =>
                CursorsOf(u) \intersect DOMAIN cursor = {} \/ Do("drop_cursors", u) \in ToDo
    BY <1>7 DEF Kept, Clear
  <2>2. /\ Do("unpublish", u) \in ToDo' => Do("unpublish", u) \in ToDo
        /\ Do("cursors", u) \in ToDo' => Do("cursors", u) \in ToDo
        /\ Do("drop_cursors", u) \in ToDo => Do("drop_cursors", u) \in ToDo'
    BY <1>8
  <2> QED
    BY <1>1, <1>10, <2>1, <2>2 DEF Clear, CursorsOf
<1>13. Kept(u)'
  BY <1>9, <1>11, <1>12 DEF Kept, Tidy
<1> QED
  BY <1>4, <1>6, <1>13 DEF p, l, T
\* What LifeInv says of a session.
Working(s) == Shaped(Scripts(s)) /\ OfOneView(s)

\* A session that goes on keeps to what it is for.
LEMMA AdvanceKeeps ==
    ASSUME OneSession, TInv, LifeInv, NEW s \in Sessions, session[s] # Idle, session[s].script # <<>>,
           Advance(s)
    PROVE  Working(s)'
<1> DEFINE r == Tail(session[s].script)
           T == ToSet(r)
           w == Head(session[s].script).do
           v == session[s].view
<1>1. /\ ToDo = {Do(w, Of(s))} \union T /\ ToDo = ToSet(Scripts(s)) /\ Scripts(s) = session[s].script
      /\ w = "cursors" => \A x \in T : x.do \in {"publish", "annotate"}
      /\ w = "publish" => \A x \in T : x.do = "annotate"
      /\ w = "annotate" => r = <<>>
      /\ Shaped(r)
  BY AtWork
<1>2. /\ Scripts(s)' = r /\ session'[s] # Idle /\ session'[s].op = session[s].op
      /\ session'[s].view = v /\ session'[s].undo = session[s].undo
  BY Advanced
<1>3. OfOneView(s)
  BY DEF LifeInv
<1> HIDE DEF r
<1>4. T # {} => r # <<>>
  BY DEF ToSet
<1> HIDE DEF T, w, v
<1>5. Shaped(Scripts(s))'
  BY <1>1, <1>2 DEF Shaped, CreatesLast, PublishesLast, LocksFirst
<1>6. OfOneView(s)'
  <2>1. \A x \in T : x.of \in Views /\ session[s].op \in {"create", "replace"} => x.of = v
    BY <1>1, <1>3 DEF OfOneView, v
  <2>2. ASSUME NEW x \in T, x.do \in Making
        PROVE  /\ session[s].op \in {"create", "replace"} /\ ~session[s].undo
               /\ x.do # "annotate" => Do("publish", v) \in T
               /\ x.do \notin Ends => Do("cursors", v) \in T
    <3>1. /\ session[s].op \in {"create", "replace"} /\ ~session[s].undo
          /\ x.do # "annotate" => Do("publish", v) \in ToDo
          /\ x.do \notin Ends => Do("cursors", v) \in ToDo
      BY <1>1, <1>3, <2>2 DEF OfOneView, v
    <3>2. w # "annotate" /\ (w = "publish" => x.do = "annotate")
      BY <1>1, <1>4, <2>2
    <3>3. x.do # "annotate" => Do("publish", v) \in T
      BY <1>1, <3>1, <3>2, DoOK
    <3>4. w \in {"cursors", "publish"} => x.do \in Ends
      BY <1>1, <2>2 DEF Ends
    <3> QED
      BY <1>1, <3>1, <3>3, <3>4, DoOK
  <2> QED
    BY <1>2, <2>1, <2>2 DEF OfOneView, T
<1> QED
  BY <1>5, <1>6 DEF Working

\* And so does one that drops something first.
LEMMA PrependKeeps ==
    ASSUME OneSession, TInv, LifeInv, NEW s \in Sessions, session[s] # Idle, session[s].script # <<>>,
           Of(s) \in Views, Head(session[s].script).do \notin Making, NEW p \in Seq(Items), Shaped(p),
           \A x \in ToSet(p) : x.do \notin Making /\ (x.of = Of(s) \/ x.of \in Tables),
           session' = [session EXCEPT ![s].script = p \o Tail(session[s].script)]
    PROVE  Working(s)'
<1> DEFINE r == Tail(session[s].script)
           T == ToSet(r)
           w == Head(session[s].script).do
           v == session[s].view
<1>1. /\ ToDo = {Do(w, Of(s))} \union T /\ ToDo = ToSet(Scripts(s)) /\ Scripts(s) = session[s].script
      /\ Shaped(r) /\ r \in Seq(Items) /\ \A x \in T : x.do # "lock"
  BY AtWork
<1>2. /\ Scripts(s)' = p \o r /\ session'[s] # Idle /\ session'[s].op = session[s].op
      /\ session'[s].view = v /\ session'[s].undo = session[s].undo
      /\ ToDo' = ToSet(p) \union T
  BY Prepended
<1>3. OfOneView(s) /\ ToDo' = ToSet(Scripts(s)')
  BY OneScript DEF LifeInv
<1> HIDE DEF r
<1>4. Shaped(p \o r)
  BY <1>1, ShapedConcat DEF Making
<1> HIDE DEF T, w, v
<1>5. Shaped(Scripts(s))'
  BY <1>2, <1>4 DEF Shaped, CreatesLast, PublishesLast, LocksFirst
<1>6. OfOneView(s)'
  <2>1. ASSUME NEW x \in ToDo', x.of \in Views, session[s].op \in {"create", "replace"}
        PROVE  x.of = v
    <3>1. \A y \in ToDo : y.of \in Views => y.of = v
      BY <1>1, <1>3, <2>1 DEF OfOneView, v
    <3>2. Do(w, Of(s)) \in ToDo /\ Do(w, Of(s)).of = Of(s)
      BY <1>1, DoOK
    <3>3. Of(s) = v
      BY <3>1, <3>2
    <3>4. x.of \notin Tables
      BY <2>1, SourcesAssumption
    <3> QED
      BY <1>1, <1>2, <2>1, <3>1, <3>3, <3>4
  <2>2. ASSUME NEW x \in ToDo', x.do \in Making
        PROVE  /\ session[s].op \in {"create", "replace"} /\ ~session[s].undo
               /\ x.do # "annotate" => Do("publish", v) \in ToDo'
               /\ x.do \notin Ends => Do("cursors", v) \in ToDo'
    <3>1. x \in T /\ x \in ToDo
      BY <1>1, <1>2, <2>2
    <3>2. /\ session[s].op \in {"create", "replace"} /\ ~session[s].undo
          /\ x.do # "annotate" => Do("publish", v) \in ToDo
          /\ x.do \notin Ends => Do("cursors", v) \in ToDo
      BY <1>1, <1>3, <2>2, <3>1 DEF OfOneView, v
    <3>3. w \notin {"cursors", "publish"}
      BY DEF w, Making, CreateWords
    <3> QED
      BY <1>1, <1>2, <3>2, <3>3, DoOK
  <2> QED
    BY <1>2, <1>3, <2>1, <2>2 DEF OfOneView
<1> QED
  BY <1>5, <1>6 DEF Working

\* The promise holds after a step of the session that goes on.
LEMMA LifeAdvance ==
    ASSUME OneSession, TInv, LifeInv, NEW s \in Sessions, session[s] # Idle, session[s].script # <<>>,
           Advance(s), NEW u, u = Of(s), u \in Views => Kept(u)',
           \A v \in Views \ {u} : Same(v) /\ (v \in broken => v \in broken'),
           \A t \in Tables : delta'[t] = Absent =>
              \/ delta[t] = Absent /\ ~(Head(session[s].script).do = "create_delta" /\ u = t)
              \/ Head(session[s].script).do \notin CreateWords /\ ~Registered(t)
    PROVE  LifeInv'
<1>1. Working(s)'
  BY AdvanceKeeps
<1>2. ASSUME NEW v \in Views PROVE Kept(v)'
  <2>1. CASE v = u
    BY <2>1
  <2>2. CASE v # u
    <3>1. ToDo' = {} \union ToSet(Tail(session[s].script))
      BY Advanced
    <3>2. Same(v) /\ (v \in broken => v \in broken') /\ v # Of(s)
      BY <2>2
    <3>3. \A t \in Tables : delta'[t] = Absent =>
              \/ delta[t] = Absent /\ ~(Head(session[s].script).do = "create_delta" /\ Of(s) = t)
              \/ Head(session[s].script).do \notin CreateWords /\ ~Registered(t)
      OBVIOUS
    <3> DEFINE N == {}
    <3>4. /\ ToDo' = N \union ToSet(Tail(session[s].script))
          /\ \A y \in N : y.do \notin CreateWords /\ (y.of = Of(s) \/ y.of \in Tables)
          /\ N # {} => Head(session[s].script).do \notin CreateWords
      BY <3>1
    <3> HIDE DEF N
    <3> QED
      BY <3>2, <3>3, <3>4, StepElsewhere
  <2> QED
    BY <2>1, <2>2
<1>3. Sessions = {s}
  BY OneScript
<1> QED
  BY <1>1, <1>2, <1>3 DEF LifeInv, Working, Kept, Shaped, CreatesLast, PublishesLast, LocksFirst

\* Statements that drop something of their view, or look at it.
LEMMA LifeDrops ==
    ASSUME OneSession, TInv, LifeInv, NEW s \in Sessions,
           \/ DropStale(s) \/ CheckDuplicate(s) \/ HideView(s) \/ DropData(s) \/ DropViewDelta(s)
           \/ DropCursors(s) \/ Unpublish(s) \/ UnlockView(s)
    PROVE  LifeInv'
<1> DEFINE w == Head(session[s].script).do
<1>1. /\ w \in {"drop_stale", "duplicate", "hide", "drop_view", "drop_data", "drop_mv_delta",
                "drop_cursors", "unpublish", "unlock"}
      /\ Current(s, w) /\ Advance(s)
  BY DEF DropStale, CheckDuplicate, HideView, DropData, DropViewDelta, DropCursors, Unpublish, UnlockView,
         Statement, Current
<1>2. PICK u \in Views : u = Of(s)
  <2>1. w \notin TableWords
    BY <1>1 DEF TableWords
  <2> QED
    BY <1>1, <2>1, CurrentOK
<1>3. session[s] # Idle /\ session[s].script # <<>>
  BY <1>1 DEF Current
<1>4. UNCHANGED <<broken, delta>>
  BY DEF DropStale, CheckDuplicate, HideView, DropData, DropViewDelta, DropCursors, Unpublish, UnlockView,
         tables, ghosts
<1>5. /\ published' \subseteq published
      /\ w \notin {"unpublish", "drop_stale"} => published' = published
      /\ w = "unpublish" => u \notin published'
      /\ published \subseteq published' \union {u}
      /\ w = "drop_view" => u \notin published
  BY <1>2 DEF DropStale, CheckDuplicate, HideView, DropData, DropViewDelta, DropCursors, Unpublish, UnlockView,
              catalog, Statement, Current
<1>6. /\ deltaOf' \subseteq deltaOf /\ deltaOf \subseteq deltaOf' \union {u}
      /\ w = "drop_mv_delta" => u \notin deltaOf'
  BY <1>2 DEF DropStale, CheckDuplicate, HideView, DropData, DropViewDelta, DropCursors, Unpublish, UnlockView,
              objects, Statement, Current
<1>7. /\ shown' \subseteq shown /\ shown \subseteq shown' \union {u}
      /\ w \in {"hide", "drop_view"} => u \notin shown'
  BY <1>2 DEF DropStale, CheckDuplicate, HideView, DropData, DropViewDelta, DropCursors, Unpublish, UnlockView,
              objects, Statement, Current
<1>8. /\ \A v \in Views \ {u} : data'[v] = data[v]
      /\ data[u] = Absent => data'[u] = Absent
      /\ w = "drop_data" => data'[u] = Absent
  <2>1. DOMAIN data = Views
    BY DEF TInv, Storing
  <2> QED
    BY <1>2, <2>1
       DEF DropStale, CheckDuplicate, HideView, DropData, DropViewDelta, DropCursors, Unpublish, UnlockView,
           objects, Statement, Current
<1>9. /\ DOMAIN cursor' \subseteq DOMAIN cursor /\ DOMAIN cursor \subseteq DOMAIN cursor' \union CursorsOf(u)
      /\ w = "drop_cursors" => CursorsOf(u) \intersect DOMAIN cursor' = {}
  BY <1>2 DEF DropStale, CheckDuplicate, HideView, DropData, DropViewDelta, DropCursors, Unpublish, UnlockView,
              catalog, Statement, Current, Without
<1>10. w \notin CreateWords \union {"lock", "lock_dependent"}
  BY <1>1 DEF CreateWords
<1>11. Kept(u)'
  BY <1>1, <1>2, <1>3, <1>4, <1>5, <1>6, <1>7, <1>8, <1>9, <1>10, DropsOwn
<1>12. \A v \in Views \ {u} : Same(v)
  <2> SUFFICES ASSUME NEW v \in Views \ {u} PROVE Same(v)
    OBVIOUS
  <2>1. CursorsOf(v) \intersect CursorsOf(u) = {}
    BY DEF CursorsOf
  <2> QED
    BY <1>5, <1>6, <1>7, <1>8, <1>9, <2>1 DEF Same
<1> HIDE DEF w
<1>13. \A t \in Tables : delta'[t] = Absent =>
              \/ delta[t] = Absent /\ ~(w = "create_delta" /\ u = t)
              \/ w \notin CreateWords /\ ~Registered(t)
  BY <1>1, <1>4
<1> QED
  BY <1>1, <1>2, <1>3, <1>4, <1>11, <1>12, <1>13, LifeAdvance DEF w

\* Statements that create something of their view.
LEMMA LifeCreates ==
    ASSUME OneSession, TInv, LifeInv, NEW s \in Sessions,
           Load(s) \/ ShowView(s) \/ CreateViewDelta(s) \/ Register(s)
    PROVE  LifeInv'
<1> DEFINE w == Head(session[s].script).do
<1>1. w \in {"load", "create_view", "create_mv_delta", "cursors"} /\ Current(s, w) /\ Advance(s)
  BY DEF Load, ShowView, CreateViewDelta, Register, Statement, Current
<1>2. PICK u \in Views : u = Of(s)
  <2>1. w \notin TableWords
    BY <1>1 DEF TableWords
  <2> QED
    BY <1>1, <2>1, CurrentOK
<1>3. session[s] # Idle /\ session[s].script # <<>>
  BY <1>1 DEF Current
<1>4. UNCHANGED <<broken, delta, published>>
  BY DEF Load, ShowView, CreateViewDelta, Register, tables, catalog, ghosts
<1>5. /\ deltaOf \subseteq deltaOf' /\ deltaOf' \subseteq deltaOf \union {u}
      /\ w = "create_mv_delta" => u \in deltaOf'
  BY <1>2 DEF Load, ShowView, CreateViewDelta, Register, objects, Statement, Current
<1>6. /\ shown \subseteq shown' /\ shown' \subseteq shown \union {u}
      /\ w = "create_view" => u \in shown'
  BY <1>2 DEF Load, ShowView, CreateViewDelta, Register, objects, Statement, Current
<1>7. /\ \A v \in Views \ {u} : data'[v] = data[v]
      /\ w # "load" => data'[u] = data[u]
      /\ w = "load" => data'[u] # Absent
  <2>1. CASE Load(s)
    <3>1. data' = [data EXCEPT ![u] = Written(u)]
      BY <1>2, <2>1 DEF Load
    <3>2. Written(u) # Absent
      BY WrittenOK, NamesOK DEF TInv
    <3>3. DOMAIN data = Views
      BY DEF TInv, Storing
    <3> QED
      BY <2>1, <3>1, <3>2, <3>3 DEF Load, Statement, Current
  <2>2. CASE ShowView(s) \/ CreateViewDelta(s) \/ Register(s)
    BY <2>2 DEF ShowView, CreateViewDelta, Register, objects, Statement, Current
  <2> QED
    BY <2>1, <2>2
<1>8. /\ DOMAIN cursor \subseteq DOMAIN cursor'
      /\ DOMAIN cursor' \subseteq DOMAIN cursor \union ({u} \X Sources[u])
      /\ w # "cursors" => DOMAIN cursor' = DOMAIN cursor
      /\ w = "cursors" => {u} \X Sources[u] \subseteq DOMAIN cursor'
  <2>1. CASE Register(s)
    <3>1. DOMAIN cursor' = ({u} \X Sources[u]) \union DOMAIN cursor
      BY <1>2, <2>1 DEF Register, WithCursors
    <3> QED
      BY <2>1, <3>1 DEF Register, Statement, Current
  <2>2. CASE Load(s) \/ ShowView(s) \/ CreateViewDelta(s)
    BY <2>2 DEF Load, ShowView, CreateViewDelta, catalog, Statement, Current
  <2> QED
    BY <2>1, <2>2
<1>9. data[u] # Absent => data'[u] # Absent
  BY <1>7
<1>10. Kept(u)'
  BY <1>1, <1>2, <1>3, <1>4, <1>5, <1>6, <1>7, <1>8, <1>9, CreatesOwn
<1>11. \A v \in Views \ {u} : Same(v)
  <2> SUFFICES ASSUME NEW v \in Views \ {u} PROVE Same(v)
    OBVIOUS
  <2>1. CursorsOf(v) \intersect ({u} \X Sources[u]) = {}
    BY DEF CursorsOf
  <2> QED
    BY <1>4, <1>5, <1>6, <1>7, <1>8, <2>1 DEF Same
<1> HIDE DEF w
<1>12. \A t \in Tables : delta'[t] = Absent =>
              \/ delta[t] = Absent /\ ~(w = "create_delta" /\ u = t)
              \/ w \notin CreateWords /\ ~Registered(t)
  BY <1>1, <1>4
<1> QED
  BY <1>1, <1>2, <1>3, <1>4, <1>10, <1>11, <1>12, LifeAdvance DEF w

\* The end of a CREATE.
LEMMA LifePublish ==
    ASSUME OneSession, TInv, LifeInv, NEW s \in Sessions, Publish(s)
    PROVE  LifeInv'
<1> DEFINE w == Head(session[s].script).do
<1>1. w = "publish" /\ Current(s, w) /\ Advance(s)
  BY DEF Publish, Statement, Current
<1>2. PICK u \in Views : u = Of(s)
  <2>1. w \notin TableWords
    BY <1>1 DEF TableWords
  <2> QED
    BY <1>1, <2>1, CurrentOK
<1>3. session[s] # Idle /\ session[s].script # <<>>
  BY <1>1 DEF Current
<1>4. /\ UNCHANGED <<tables, objects, cursor>> /\ broken' = broken \ {u}
      /\ published' = published \union {u}
  BY <1>2 DEF Publish
<1>5. Kept(u)'
  BY <1>2, PublishOwn
<1>6. \A v \in Views \ {u} : Same(v) /\ (v \in broken => v \in broken')
  BY <1>4 DEF Same, objects
<1> HIDE DEF w
<1>7. \A t \in Tables : delta'[t] = Absent =>
              \/ delta[t] = Absent /\ ~(w = "create_delta" /\ u = t)
              \/ w \notin CreateWords /\ ~Registered(t)
  BY <1>1, <1>4 DEF tables
<1> QED
  BY <1>1, <1>2, <1>3, <1>5, <1>6, <1>7, LifeAdvance DEF w

\* A step that leaves v as it was, when nothing is to be done about it.
LEMMA Apart ==
    ASSUME NEW v \in Views, Kept(v), Same(v), v \in broken => v \in broken',
           v \notin broken' => Alone(v), Alone(v)',
           \A t \in Tables : delta'[t] = Absent => delta[t] = Absent
    PROVE  Kept(v)'
<1>1. \A a : a # "annotate" => Do(a, v) \notin ToDo'
  BY DoOK DEF Alone
<1>2. Completes(v)' /\ Clear(v)'
  BY <1>1 DEF Completes, Coming, Clear
<1>3. ASSUME v \notin broken' PROVE Tidy(v)'
  <2>1. \A a : a # "annotate" => Do(a, v) \notin ToDo
    BY <1>3, DoOK DEF Alone
  <2>2. CASE Dismantling(v)
    BY <1>1, <2>1, <2>2 DEF Tidy, Dismantling, Same, CursorsOf
  <2>3. CASE Whole(v)
    <3>1. \A t \in Sources[v] : t \in Tables /\ (<<v, t>> \in DOMAIN cursor => <<v, t>> \in DOMAIN cursor')
      BY CursorsIn, SourcesAssumption DEF Same
    <3>2. Whole(v)'
      BY <2>3, <3>1 DEF Whole, Same
    <3> QED
      BY <3>2 DEF Tidy
  <2> QED
    BY <1>3, <2>1, <2>2, <2>3 DEF Kept, Tidy, Coming, Ahead
<1> QED
  BY <1>2, <1>3 DEF Kept

\* The invariant is what it says of the session and of each view.
LEMMA LifeParts ==
    ASSUME OneSession, NEW s \in Sessions
    PROVE  /\ LifeInv <=> Working(s) /\ \A v \in Views : Kept(v)
           /\ LifeInv' <=> Working(s)' /\ \A v \in Views : Kept(v)'
<1>1. Sessions = {s}
  BY OneScript
<1> QED
  BY <1>1 DEF LifeInv, Working, Kept, Shaped, CreatesLast, PublishesLast, LocksFirst

\* A CREATE completes the metadata of its view, and has nothing left to do.
LEMMA LifeAnnotate ==
    ASSUME OneSession, TInv, LifeInv, NEW s \in Sessions, Annotate(s)
    PROVE  LifeInv'
<1>1. /\ session[s] # Idle /\ session[s].script # <<>> /\ Head(session[s].script).do = "annotate"
      /\ Advance(s) /\ UNCHANGED <<published, deltaOf, shown, data, cursor, delta, broken>>
  BY DEF Annotate, Statement, Current, tables, objects, catalog, ghosts
<1>2. ToDo = {Do("annotate", Of(s))} /\ ToDo' = {}
  BY <1>1, AtWork, Advanced DEF ToSet
<1>3. ASSUME NEW v \in Views PROVE Kept(v)'
  <2>1. Kept(v) /\ Same(v)
    BY <1>1 DEF LifeInv, Kept, Same
  <2>2. Alone(v) /\ Alone(v)'
    BY <1>2, DoOK DEF Alone
  <2> QED
    BY <1>1, <2>1, <2>2, Apart
<1>4. Working(s)'
  BY <1>1, AdvanceKeeps
<1> QED
  BY <1>3, <1>4, LifeParts

\* Statements about tables.
LEMMA LifeTables ==
    ASSUME OneSession, TInv, LifeInv, NEW s \in Sessions,
           CreateSourceDelta(s) \/ DropSourceDelta(s) \/ DropBase(s)
    PROVE  LifeInv'
<1> DEFINE w == Head(session[s].script).do
<1>1. w \in TableWords /\ Current(s, w) /\ Advance(s)
  BY DEF CreateSourceDelta, DropSourceDelta, DropBase, Statement, Current, TableWords
<1>2. PICK u \in Tables : u = Of(s)
  BY <1>1, CurrentOK
<1>3. session[s] # Idle /\ session[s].script # <<>> /\ u \notin Views
  BY <1>1, SourcesAssumption DEF Current
<1>4. UNCHANGED <<objects, catalog, broken>>
  BY DEF CreateSourceDelta, DropSourceDelta, DropBase, ghosts
<1>5. \A v \in Views \ {u} : Same(v) /\ (v \in broken => v \in broken')
  BY <1>4 DEF Same, objects, catalog
<1>6. DOMAIN delta = Tables /\ delta \in [Tables -> Stored] /\ {} # Absent
  BY NamesOK DEF TInv, Storing
<1>7. ASSUME NEW t \in Tables, delta'[t] = Absent
      PROVE  \/ delta[t] = Absent /\ ~(w = "create_delta" /\ u = t)
             \/ w \notin CreateWords /\ ~Registered(t)
  <2>1. CASE CreateSourceDelta(s)
    <3>1. delta' = [delta EXCEPT ![u] = IF delta[u] = Absent THEN {} ELSE delta[u]]
      BY <1>2, <2>1 DEF CreateSourceDelta
    <3> QED
      BY <1>6, <1>7, <3>1
  <2>2. CASE DropSourceDelta(s)
    <3>1. delta' = [delta EXCEPT ![u] = IF Registered(u) THEN delta[u] ELSE Absent] /\ w = "drop_delta"
      BY <1>2, <2>2 DEF DropSourceDelta, Statement, Current
    <3> QED
      BY <1>6, <1>7, <3>1 DEF CreateWords
  <2>3. CASE DropBase(s)
    BY <1>7, <2>3 DEF DropBase, Statement, Current
  <2> QED
    BY <2>1, <2>2, <2>3
<1> HIDE DEF w
<1> QED
  BY <1>1, <1>2, <1>3, <1>5, <1>7, LifeAdvance DEF w

\* The promise holds when something else has come first.
LEMMA LifePrepend ==
    ASSUME OneSession, TInv, LifeInv, NEW s \in Sessions, session[s] # Idle, session[s].script # <<>>,
           NEW u \in Views, u = Of(s), Kept(u)',
           Head(session[s].script).do \notin Making, NEW p \in Seq(Items), Shaped(p),
           \A x \in ToSet(p) : x.do \notin Making /\ (x.of = u \/ x.of \in Tables),
           session' = [session EXCEPT ![s].script = p \o Tail(session[s].script)],
           UNCHANGED <<published, deltaOf, shown, data, cursor, delta, broken>>
    PROVE  LifeInv'
<1>1. Working(s)'
  BY PrependKeeps
<1>2. ASSUME NEW v \in Views PROVE Kept(v)'
  <2>1. CASE v = u
    BY <2>1
  <2>2. CASE v # u
    <3> DEFINE N == ToSet(p)
    <3>1. ToDo' = N \union ToSet(Tail(session[s].script))
      BY Prepended
    <3>2. Same(v) /\ (v \in broken => v \in broken') /\ v # Of(s)
      BY <2>2 DEF Same
    <3>3. /\ \A y \in N : y.do \notin CreateWords /\ (y.of = Of(s) \/ y.of \in Tables)
          /\ Head(session[s].script).do \notin CreateWords
      BY DEF Making
    <3>4. \A t \in Tables : delta'[t] = Absent =>
              \/ delta[t] = Absent /\ ~(Head(session[s].script).do = "create_delta" /\ Of(s) = t)
              \/ Head(session[s].script).do \notin CreateWords /\ ~Registered(t)
      BY <3>3 DEF CreateWords
    <3> HIDE DEF N
    <3> QED
      BY <3>1, <3>2, <3>3, <3>4, StepElsewhere
  <2> QED
    BY <2>1, <2>2
<1>3. Sessions = {s}
  BY OneScript
<1> QED
  BY <1>1, <1>2, <1>3 DEF LifeInv, Working, Kept, Shaped, CreatesLast, PublishesLast, LocksFirst

\* The script that waits for a mutex and hides the view has its shape.
LEMMA HideShaped ==
    ASSUME NEW S, NEW p \in Seq(S), NEW u, Len(p) = 2, p[1] = Do("lock", u), p[2] = Do("hide", u)
    PROVE  Shaped(p)
<1>1. DOMAIN p = 1 .. 2 /\ \A i \in 1 .. 2 : i = 1 \/ i = 2
  OBVIOUS
<1>2. \A i \in DOMAIN p : p[i].do \notin Ends \union CreateWords
  BY <1>1, DoOK DEF CreateWords, Ends
<1>3. \A i \in DOMAIN p : p[i].do = "lock" => i = 1 /\ p[i].of = u
  BY <1>1, DoOK
<1>4. Do("hide", u) \in ToSet(p)
  BY <1>1 DEF ToSet
<1>5. CreatesLast(p)
  BY <1>2 DEF CreatesLast
<1>6. PublishesLast(p)
  BY <1>2 DEF PublishesLast, Ends
<1>7. LocksFirst(p)
  BY <1>3, <1>4 DEF LocksFirst
<1> QED
  BY <1>5, <1>6, <1>7 DEF Shaped

\* DROP VIEW waits for the rule, and the rule for its mutex.
LEMMA LifeIntercept ==
    ASSUME OneSession, TInv, LifeInv, NEW s \in Sessions, Intercept(s)
    PROVE  LifeInv'
<1>1. /\ session[s] # Idle /\ session[s].script # <<>> /\ Head(session[s].script).do = "drop_view"
      /\ session' = [session EXCEPT ![s].script = OnView(Of(s), <<"lock", "hide">>)
                                                      \o Tail(session[s].script)]
      /\ UNCHANGED <<published, deltaOf, shown, data, cursor, delta, broken>>
  BY DEF Intercept, Current, Prepend, tables, objects, catalog, ghosts
<1>2. PICK u \in Views : u = Of(s)
  BY <1>1, HeadOK DEF TableWords
<1> DEFINE p == OnView(u, <<"lock", "hide">>)
<1>3. Kept(u)' /\ p \in Seq(Items)
  BY <1>2, InterceptOwn
<1>4. /\ ToSet(p) = {Do("lock", u), Do("hide", u)}
      /\ p[1] = Do("lock", u) /\ p[2] = Do("hide", u) /\ Len(p) = 2
  BY WordsOK
<1>5. session' = [session EXCEPT ![s].script = p \o Tail(session[s].script)]
  BY <1>1, <1>2
<1> HIDE DEF p
<1>6. \A x \in ToSet(p) : x.do \notin Making /\ (x.of = u \/ x.of \in Tables)
  BY <1>4, DoOK DEF Making, CreateWords
<1>7. Shaped(p)
  BY <1>3, <1>4, HideShaped
<1>8. Head(session[s].script).do \notin Making
  BY <1>1 DEF Making, CreateWords
<1> QED
  BY <1>1, <1>2, <1>3, <1>5, <1>6, <1>7, <1>8, LifePrepend

\* A mutex is taken: the rule's script replaces the wait for it.
LEMMA LifeLock ==
    ASSUME OneSession, TInv, LifeInv, NEW s \in Sessions, LockView(s)
    PROVE  LifeInv'
<1>1. PICK p \in Seq(Items) :
              /\ session[s] # Idle /\ session[s].script # <<>> /\ Of(s) \in Views
              /\ Head(session[s].script).do \in {"lock", "lock_dependent"}
              /\ session' = [session EXCEPT ![s].script = p \o Tail(session[s].script)]
              /\ UnlocksOnce(p) /\ Shaped(p)
              /\ Head(session[s].script).do = "lock" =>
                    ToSet(p) = Dropping(Of(s)) \union {Do("unlock", Of(s))}
                                    \union {Do("drop_delta", t) : t \in SourcesOf(Of(s))}
              /\ Head(session[s].script).do = "lock_dependent" =>
                    ToSet(p) = Dropping(Of(s)) \union {Do("drop_view", Of(s)), Do("unlock", Of(s))}
                                    \union {Do("drop_delta", t) : t \in SourcesOf(Of(s))}
  BY LockedScript
<1>2. PICK u \in Views : u = Of(s)
  BY <1>1
<1>3. Kept(u)'
  BY <1>2, LockOwn
<1>4. \A x \in ToSet(p) : x.do \notin Making /\ (x.of = u \/ x.of \in Tables)
  <2>1. \A x \in Dropping(u) \union {Do("drop_view", u), Do("unlock", u)} : x.do \notin Making /\ x.of = u
    BY DoOK DEF Dropping, Making, CreateWords
  <2>2. \A x \in {Do("drop_delta", t) : t \in SourcesOf(u)} : x.do \notin Making /\ x.of \in Tables
    <3>1. \A t : Do("drop_delta", t).do = "drop_delta" /\ Do("drop_delta", t).of = t
      BY DoOK
    <3>2. "drop_delta" \notin Making /\ SourcesOf(u) \subseteq Tables
      BY DEF Making, CreateWords, SourcesOf
    <3> QED
      BY <3>1, <3>2
  <2> QED
    BY <1>1, <1>2, <2>1, <2>2
<1>5. UNCHANGED <<published, deltaOf, shown, data, cursor, delta, broken>>
  BY DEF LockView, tables, objects, catalog, ghosts
<1>6. Head(session[s].script).do \notin Making
  BY <1>1 DEF Making, CreateWords
<1> QED
  BY <1>1, <1>2, <1>3, <1>4, <1>5, <1>6, LifePrepend

\* What is passed over makes nothing: a CREATE that fails is undone.
LEMMA PassedOver ==
    ASSUME OneSession, TInv, LifeInv, NEW s \in Sessions, PassOver(s)
    PROVE  Head(session[s].script).do \notin CreateWords
<1> DEFINE w == Head(session[s].script).do
<1>1. session[s] # Idle /\ session[s].script # <<>> /\ ~Creating(s)
  BY DEF PassOver
<1>2. /\ w \in CreateWords => \A x \in ToDo : x.do \in CreateWords
      /\ ToDo = ToSet(Scripts(s)) /\ Scripts(s) = session[s].script
  BY <1>1, AtWork
<1>3. ASSUME w \in Making, ~InRule(s) PROVE FALSE
  <2>1. session[s].op \in {"create", "replace"} /\ ~session[s].undo
    BY <1>1, <1>3, Maker
  <2> QED
    BY <1>1, <1>3, <2>1 DEF Creating
<1>4. ASSUME InRule(s) PROVE \E x \in ToDo : x.do \in {"lock", "unlock"}
  BY <1>2, <1>4 DEF InRule, ToSet
<1> SUFFICES ASSUME w \in CreateWords PROVE FALSE
  OBVIOUS
<1>5. w \in Making
  BY DEF Making
<1>6. ~InRule(s)
  BY <1>2, <1>4 DEF CreateWords
<1> QED
  BY <1>3, <1>5, <1>6

\* A statement was passed over: what it is about is broken, and it creates
\* nothing.
LEMMA LifePassOver ==
    ASSUME OneSession, TInv, LifeInv, NEW s \in Sessions, PassOver(s)
    PROVE  LifeInv'
<1> DEFINE w == Head(session[s].script).do
<1>1. /\ session[s] # Idle /\ session[s].script # <<>> /\ ~Creating(s)
      /\ Advance(s) /\ UNCHANGED <<delta, objects, catalog>>
      /\ broken' = IF Of(s) \in Views THEN broken \union {Of(s)} ELSE broken
  BY DEF PassOver, tables
<1>2. PICK u : u = Of(s)
  OBVIOUS
<1>3. /\ ToDo = {Do(w, u)} \union ToSet(Tail(session[s].script)) /\ ToDo = ToSet(Scripts(s))
      /\ w \in CreateWords => \A x \in ToDo : x.do \in CreateWords
      /\ Scripts(s) = session[s].script
  BY <1>1, <1>2, AtWork
<1>4. w \notin CreateWords
  BY PassedOver
<1>5. ToDo' = ToSet(Tail(session[s].script))
  BY <1>1, Advanced
<1>6. ASSUME u \in Views PROVE Kept(u)'
  <2>1. u \in broken' /\ Completes(u)
    BY <1>1, <1>2, <1>6 DEF LifeInv
  <2>2. Completes(u)'
    <3> SUFFICES ASSUME Coming(u)' PROVE Completes(u)'
      BY DEF Completes
    <3>1. Coming(u)
      BY <1>3, <1>5 DEF Coming
    <3>2. Do(w, u) \in ToDo /\ Do(w, u).do \notin CreateWords
      BY <1>3, <1>4, DoOK
    <3>3. /\ {Do("load", u), Do("create_view", u), Do("create_mv_delta", u), Do("cursors", u)} \subseteq ToDo
          /\ \A t \in Sources[u] : Do("create_delta", t) \in ToDo
      BY <2>1, <3>1, <3>2 DEF Completes
    <3>4. \A a, x : a \in CreateWords /\ Do(a, x) \in ToDo => Do(a, x) \in ToDo'
      BY <1>3, <1>4, <1>5, DoOK
    <3>5. /\ Do("load", u) \in ToDo' /\ Do("create_view", u) \in ToDo'
          /\ Do("create_mv_delta", u) \in ToDo' /\ Do("cursors", u) \in ToDo'
          /\ \A t \in Sources[u] : Do("create_delta", t) \in ToDo'
      BY <3>3, <3>4 DEF CreateWords
    <3> QED
      BY <3>5 DEF Completes
  <2> QED
    BY <2>1, <2>2 DEF Kept, Clear
<1>7. \A v \in Views \ {u} : Same(v) /\ (v \in broken => v \in broken')
  BY <1>1 DEF Same, objects, catalog
<1> HIDE DEF w
<1> QED
  BY <1>1, <1>2, <1>4, <1>6, <1>7, LifeAdvance DEF w, CreateWords

\* A script that is done.
LEMMA LifeFinish ==
    ASSUME OneSession, TInv, LifeInv, NEW s \in Sessions, Finish(s)
    PROVE  LifeInv'
<1>1. /\ session[s] # Idle /\ session[s].script = <<>> /\ session' = [session EXCEPT ![s] = Idle]
      /\ UNCHANGED <<published, deltaOf, shown, data, cursor, delta, broken>>
  BY DEF Finish, tables, objects, catalog, ghosts
<1>2. session'[s] = Idle
  BY <1>1 DEF TInv, Holding
<1>3. Scripts(s) = <<>> /\ Scripts(s)' = <<>>
  BY <1>1, <1>2 DEF Scripts
<1>4. ToDo = {} /\ ToDo' = {}
  BY <1>3, OneScript DEF ToSet
<1>5. ASSUME NEW v \in Views PROVE Kept(v)'
  <2>1. Kept(v) /\ Same(v) /\ broken' = broken
    BY <1>1, LifeParts DEF Same
  <2>2. Alone(v) /\ Alone(v)'
    BY <1>4 DEF Alone
  <2> QED
    BY <1>1, <2>1, <2>2, Apart
<1>6. Working(s)'
  <2>1. Shaped(Scripts(s))
    BY DEF LifeInv
  <2>2. OfOneView(s)'
    BY <1>2 DEF OfOneView
  <2> QED
    BY <1>3, <2>1, <2>2 DEF Working
<1> QED
  BY <1>5, <1>6, LifeParts

\* CREATE has failed, and has its undo script.
LEMMA Undoing ==
    ASSUME OneSession, TInv, NEW s \in Sessions, FailCreate(s), NEW v, v = session[s].view
    PROVE  /\ v \in Views /\ session'[s] # Idle /\ session'[s].op = session[s].op
           /\ session'[s].view = v /\ session'[s].undo
           /\ Scripts(s)' = CleanupScript(v)
           /\ ToDo = ToSet(Scripts(s)) /\ ToDo' = Dropping(v) \union {Do("drop_view", v)}
<1> DEFINE q == CleanupScript(v)
<1>1. /\ session[s] # Idle /\ session[s].op \in {"create", "replace"}
      /\ session' = [session EXCEPT ![s].undo = TRUE, ![s].script = q]
  BY DEF FailCreate, Creating
<1>2. v \in Views
  BY <1>1, HeadOK
<1>3. q \in Seq(Items) /\ Shaped(q) /\ ToSet(q) = Dropping(v) \union {Do("drop_view", v)}
  BY <1>2, CleanupOK
<1>4. session \in [Sessions -> {Idle} \union Jobs] /\ session[s] \in Jobs
  BY <1>1, HeadOK DEF TInv, Holding
<1> HIDE DEF q
<1>5. session'[s] = [session[s] EXCEPT !.undo = TRUE, !.script = q]
  BY <1>1, <1>4
<1>6. /\ session'[s] \in Jobs /\ session'[s].op = session[s].op /\ session'[s].view = v
      /\ session'[s].undo /\ session'[s].script = q
  BY <1>2, <1>3, <1>4, <1>5 DEF Jobs
<1>7. session'[s] # Idle
  BY <1>6, NamesOK DEF TInv
<1>8. Scripts(s)' = q
  BY <1>6, <1>7 DEF Scripts
<1>9. ToDo = ToSet(Scripts(s)) /\ ToDo' = Dropping(v) \union {Do("drop_view", v)}
  BY <1>3, <1>8, OneScript
<1> QED
  BY <1>2, <1>6, <1>7, <1>8, <1>9 DEF q

\* CREATE has failed: whatever there is of its view will be dropped, and no
\* other view is touched.
LEMMA LifeFail ==
    ASSUME OneSession, TInv, LifeInv, NEW s \in Sessions, FailCreate(s)
    PROVE  LifeInv'
<1>1. PICK v \in Views : v = session[s].view
  BY HeadOK DEF FailCreate, Creating
<1>2. /\ session[s] # Idle /\ session[s].script # <<>> /\ ~session[s].undo
      /\ session[s].op \in {"create", "replace"}
      /\ UNCHANGED <<published, deltaOf, shown, data, cursor, delta, broken>>
  BY DEF FailCreate, Creating, tables, objects, catalog, ghosts
<1>3. Shaped(CleanupScript(v))
  BY CleanupOK
<1>4. /\ session'[s] # Idle /\ session'[s].op = session[s].op /\ session'[s].view = v
      /\ session'[s].undo
  BY <1>1, Undoing
<1>5. Scripts(s)' = CleanupScript(v)
  BY <1>1, Undoing
<1>6. ToDo = ToSet(Scripts(s)) /\ ToDo' = Dropping(v) \union {Do("drop_view", v)}
  BY <1>1, Undoing
<1>7. \A x \in ToDo' : x.of = v /\ x.do \notin Making
  BY <1>6, DoOK DEF Dropping, Making, CreateWords
<1>8. ASSUME NEW u \in Views PROVE Kept(u)'
  <2>1. CASE u = v
    <3>1. Dismantling(u)'
      BY <1>6, <2>1 DEF Dismantling, Dropping
    <3>2. Completes(u)' /\ Do("cursors", u) \notin ToDo'
      BY <1>7, DoOK DEF Completes, Coming, Making, CreateWords
    <3> QED
      BY <3>1, <3>2 DEF Kept, Tidy, Clear
  <2>2. CASE u # v
    <3>1. Alone(u) /\ Alone(u)'
      BY <1>1, <1>2, <1>6, <1>7, <2>2, LifeParts DEF Alone, Working, OfOneView
    <3>2. Kept(u) /\ Same(u)
      BY <1>2, LifeParts DEF Same
    <3> QED
      BY <1>2, <3>1, <3>2, Apart
  <2> QED
    BY <2>1, <2>2
<1>9. Working(s)'
  <2>1. ToSet(Scripts(s))' = ToDo' /\ Shaped(Scripts(s))'
    BY <1>3, <1>5, OneScript DEF Shaped, CreatesLast, PublishesLast, LocksFirst
  <2>2. OfOneView(s)'
    BY <1>4, <1>7, <2>1 DEF OfOneView
  <2> QED
    BY <2>1, <2>2 DEF Working
<1> QED
  BY <1>8, <1>9, LifeParts

\* The process dies: what it was at is broken, and nothing is left to do.
LEMMA LifeCrash ==
    ASSUME OneSession, TInv, LifeInv, Crash
    PROVE  LifeInv'
<1>1. /\ session' = [s \in Sessions |-> Idle]
      /\ broken' = broken \union {v \in Views : \E s \in Sessions :
                    session[s] # Idle /\ \E n \in DOMAIN session[s].script : session[s].script[n].of = v}
      /\ UNCHANGED <<published, deltaOf, shown, data, cursor, delta>>
  BY DEF Crash, tables, objects, catalog
<1>2. \A s \in Sessions : session'[s] = Idle /\ Scripts(s)' = <<>>
  BY <1>1 DEF Scripts
<1>3. ToDo' = {}
  BY <1>2 DEF ToDo, ToSet
<1>4. ASSUME NEW v \in Views PROVE Kept(v)'
  <2>1. Kept(v) /\ Same(v) /\ (v \in broken => v \in broken')
    BY <1>1 DEF LifeInv, Kept, Same
  <2>2. Alone(v)'
    BY <1>3 DEF Alone
  <2>3. ASSUME v \notin broken' PROVE Alone(v)
    <3> SUFFICES ASSUME NEW s \in Sessions, NEW x \in ToSet(Scripts(s)), x.of = v
                 PROVE  FALSE
      BY DEF Alone, ToDo
    <3>1. session[s] # Idle /\ \E n \in DOMAIN session[s].script : session[s].script[n].of = v
      BY DEF ToSet, Scripts
    <3> QED
      BY <1>1, <2>3, <3>1
  <2> QED
    BY <1>1, <2>1, <2>2, <2>3, Apart
<1>5. ASSUME NEW s \in Sessions PROVE Shaped(Scripts(s)') /\ OfOneView(s)'
  BY <1>2 DEF Shaped, CreatesLast, PublishesLast, LocksFirst, OfOneView
<1> QED
  BY <1>4, <1>5 DEF LifeInv, Kept, Shaped, CreatesLast, PublishesLast, LocksFirst

\* At the start every view is gone and nothing is to be done.
LEMMA LifeInit ==
    ASSUME Init
    PROVE  LifeInv
<1>1. \A s \in Sessions : session[s] = Idle /\ Scripts(s) = <<>>
  BY DEF Init, Scripts
<1>2. ToDo = {}
  BY <1>1 DEF ToDo, ToSet
<1>3. DOMAIN cursor = {}
  BY DEF Init
<1>4. ASSUME NEW v \in Views PROVE Tidy(v) /\ Completes(v) /\ Clear(v)
  <2>1. Dismantling(v)
    BY <1>3 DEF Init, Dismantling
  <2> QED
    BY <1>2, <2>1 DEF Tidy, Completes, Coming, Clear
<1>5. ASSUME NEW s \in Sessions PROVE Shaped(Scripts(s)) /\ OfOneView(s)
  BY <1>1 DEF Shaped, CreatesLast, PublishesLast, LocksFirst, OfOneView
<1> QED
  BY <1>4, <1>5 DEF LifeInv

\* A session that has nothing to do begins a script.
LEMMA LifeStart ==
    ASSUME OneSession, TInv, LifeInv, NEW s \in Sessions,
           NEW op \in {"create", "replace", "drop", "cascade"},
           NEW v \in Views \union {Idle}, op \in {"create", "replace"} => v \in Views,
           NEW q \in Seq(Items), \A x \in ToSet(q) : x.do # "unlock", Start(s, op, v, q), Shaped(q),
           \A x \in ToSet(q) : x.do \in Making => op \in {"create", "replace"},
           op \in {"create", "replace"} =>
              /\ {Do("publish", v), Do("cursors", v)} \subseteq ToSet(q)
              /\ \A x \in ToSet(q) : x.of \in Views => x.of = v,
           \A u \in Views :
              \/ \A x \in ToSet(q) : x.of # u
              \/ /\ ToDo' = ToSet(q)
                 /\ (u \notin broken => Coming(u)' \/ Ahead(u)') /\ Completes(u)' /\ Clear(u)'
    PROVE  LifeInv'
<1>1. /\ Scripts(s)' = q /\ session'[s] # Idle
      /\ session'[s].op = op /\ session'[s].view = v /\ ~session'[s].undo
  BY HoldingStart
<1>2. /\ session[s] = Idle
      /\ UNCHANGED <<published, deltaOf, shown, data, cursor, delta, broken>>
  BY DEF Start, tables, objects, catalog, ghosts
<1>3. ToDo = {} /\ ToDo' = ToSet(q)
  <2>1. Scripts(s) = <<>>
    BY <1>2 DEF Scripts
  <2> QED
    BY <1>1, <2>1, OneScript DEF ToSet
<1>4. ASSUME NEW u \in Views PROVE Kept(u)'
  <2>1. CASE \A x \in ToSet(q) : x.of # u
    <3>1. Alone(u) /\ Alone(u)'
      BY <1>3, <2>1 DEF Alone
    <3>2. Kept(u) /\ Same(u)
      BY <1>2, LifeParts DEF Same
    <3> QED
      BY <1>2, <3>1, <3>2, Apart
  <2>2. CASE ~ \A x \in ToSet(q) : x.of # u
    BY <1>2, <2>2 DEF Kept, Tidy
  <2> QED
    BY <2>1, <2>2
<1>5. Working(s)'
  <2>1. Shaped(Scripts(s))'
    BY <1>1 DEF Shaped, CreatesLast, PublishesLast, LocksFirst
  <2>2. OfOneView(s)'
    BY <1>1 DEF OfOneView
  <2> QED
    BY <2>1, <2>2 DEF Working
<1> QED
  BY <1>4, <1>5, LifeParts

\* A view with nothing to do, that is not broken, is whole or gone.
LEMMA AtRest ==
    ASSUME LifeInv, NEW v \in Views, v \notin broken, Alone(v)
    PROVE  Whole(v) \/ Gone(v)
<1>1. \A a : a # "annotate" => Do(a, v) \notin ToDo
  BY DoOK DEF Alone
<1>2. Tidy(v)
  BY DEF LifeInv
<1>3. Dismantling(v) => Gone(v)
  BY <1>1 DEF Dismantling, Gone
<1> QED
  BY <1>1, <1>2, <1>3 DEF Tidy, Coming, Ahead

\* CREATE begins, over what is gone or with OR REPLACE.
LEMMA LifeCreate ==
    ASSUME OneSession, TInv, LifeInv, NEW s \in Sessions, NEW v \in Views, NEW replace \in BOOLEAN,
           replace => ReplaceView(s, v), ~replace => CreateView(s, v)
    PROVE  LifeInv'
<1> DEFINE q == CreateScript(v, replace)
           op == IF replace THEN "replace" ELSE "create"
<1>1. Start(s, op, v, q) /\ (~replace => data[v] = Absent)
  BY DEF CreateView, ReplaceView, RelationExists
<1>2. /\ q \in Seq(Items) /\ Shaped(q)
      /\ ToSet(q) = Preparing(v, replace) \union Creating1(v) \union Publishing(v)
  BY CreateOK
<1> HIDE DEF q
<1>3. /\ op \in {"create", "replace"}
      /\ op \in {"create", "replace", "drop", "cascade"}
  OBVIOUS
<1> HIDE DEF op
<1>4. /\ \A x \in Preparing(v, replace) : x.of = v /\ x.do \notin {"unlock", "unpublish"}
      /\ \A x \in Creating1(v) : x.do \notin {"unlock", "unpublish"}
      /\ \A x \in Publishing(v) : x.of = v /\ x.do \notin {"unlock", "unpublish"}
  BY CreatesOK
<1>5. \A x \in ToSet(q) : x.do \notin {"unlock", "unpublish"}
  BY <1>2, <1>4
<1>6. \A x \in ToSet(q) : x.of \in Views => x.of = v
  <2>1. \A x \in {Do("create_delta", t) : t \in Sources[v]} : x.of \notin Views
    BY DoOK, SourcesAssumption
  <2>2. \A a : Do(a, v).of = v
    BY DoOK
  <2>3. \A x \in Creating1(v) : x.of \in Views => x.of = v
    BY <2>1, <2>2 DEF Creating1
  <2> QED
    BY <1>2, <1>4, <2>3
<1>7. Creating1(v) \union {Do("publish", v)} \subseteq ToSet(q)
  BY <1>2 DEF Publishing
<1>8. session[s] = Idle /\ UNCHANGED <<published, deltaOf, shown, data, cursor, delta, broken>>
  BY <1>1 DEF Start, tables, objects, catalog, ghosts
<1>9. ToDo' = ToSet(q) /\ ToDo = {}
  <2>1. Scripts(s) = <<>>
    BY <1>8 DEF Scripts
  <2>2. Scripts(s)' = q
    BY <1>1, <1>2, <1>3, <1>5, HoldingStart
  <2> QED
    BY <2>1, <2>2, OneScript DEF ToSet
<1>10. Coming(v)'
  BY <1>7, <1>9 DEF Coming
<1>11. Completes(v)'
  <2>1. {Do("load", v), Do("create_view", v), Do("create_mv_delta", v), Do("cursors", v)} \subseteq ToDo'
    BY <1>7, <1>9 DEF Creating1
  <2>2. \A t \in Sources[v] : Do("create_delta", t) \in ToDo'
    BY <1>7, <1>9 DEF Creating1
  <2> QED
    BY <2>1, <2>2 DEF Completes
<1>12. Clear(v)'
  <2>1. Do("unpublish", v) \notin ToDo'
    BY <1>5, <1>9, DoOK
  <2>2. CASE replace
    <3>1. Do("drop_cursors", v) \in ToDo'
      BY <1>2, <1>9, <2>2 DEF Preparing
    <3> QED
      BY <2>1, <3>1 DEF Clear
  <2>3. CASE ~replace
    <3>1. v \notin broken => CursorsOf(v) \intersect DOMAIN cursor = {}
      BY <1>1, <1>9, <2>3, AtRest DEF Alone, Whole, Gone
    <3> QED
      BY <1>8, <2>1, <3>1 DEF Clear, CursorsOf
  <2> QED
    BY <2>2, <2>3
<1>13. Do("publish", v) \in ToSet(q) /\ Do("cursors", v) \in ToSet(q)
  BY <1>7 DEF Creating1
<1>14. \A u \in Views :
              \/ \A x \in ToSet(q) : x.of # u
              \/ /\ ToDo' = ToSet(q)
                 /\ (u \notin broken => Coming(u)' \/ Ahead(u)') /\ Completes(u)' /\ Clear(u)'
  BY <1>6, <1>9, <1>10, <1>11, <1>12
<1> QED
  BY <1>1, <1>2, <1>3, <1>5, <1>6, <1>13, <1>14, LifeStart

\* DROP VIEW begins, of a view that is there.
LEMMA LifeDrop ==
    ASSUME OneSession, TInv, LifeInv, NEW s \in Sessions, NEW v \in Views, DropView(s, v)
    PROVE  LifeInv'
<1> DEFINE q == <<Do("drop_view", v)>>
<1>1. Start(s, "drop", v, q) /\ v \in shown
  BY DEF DropView
<1>2. Do("drop_view", v) \in Items
  BY DoOK DEF ViewWords
<1>3. q \in Seq(Items) /\ ToSet(q) = {Do("drop_view", v)}
  BY <1>2, WordsOK
<1> HIDE DEF q
<1>4. \A x \in ToSet(q) : x.do = "drop_view" /\ x.of = v
  BY <1>3, DoOK
<1>5. Shaped(q)
  BY <1>3, <1>4, Shapeless DEF CreateWords
<1>6. session[s] = Idle /\ UNCHANGED <<published, deltaOf, shown, data, cursor, delta, broken>>
  BY <1>1 DEF Start, tables, objects, catalog, ghosts
<1>7. ToDo' = ToSet(q) /\ ToDo = {}
  <2>1. Scripts(s) = <<>>
    BY <1>6 DEF Scripts
  <2>2. Scripts(s)' = q
    BY <1>1, <1>3, <1>4, HoldingStart
  <2> QED
    BY <2>1, <2>2, OneScript DEF ToSet
<1>8. v \notin broken => Ahead(v)'
  <2>1. v \notin broken => v \in published
    BY <1>1, <1>7, AtRest DEF Alone, Whole, Gone
  <2> QED
    BY <1>3, <1>6, <1>7, <2>1 DEF Ahead
<1>9. Completes(v)' /\ Clear(v)'
  BY <1>4, <1>7, DoOK DEF Completes, Coming, Clear
<1>10. \A u \in Views :
              \/ \A x \in ToSet(q) : x.of # u
              \/ /\ ToDo' = ToSet(q)
                 /\ (u \notin broken => Coming(u)' \/ Ahead(u)') /\ Completes(u)' /\ Clear(u)'
  BY <1>4, <1>7, <1>8, <1>9
<1>11. \A x \in ToSet(q) : x.do # "unlock" /\ x.do \notin Making
  BY <1>4 DEF Making, CreateWords
<1> QED
  BY <1>1, <1>3, <1>5, <1>10, <1>11, LifeStart

\* DROP TABLE ... CASCADE begins: the views that read the table are ahead.
LEMMA LifeCascade ==
    ASSUME OneSession, TInv, LifeInv, NEW s \in Sessions, NEW t \in Tables, DropTable(s, t)
    PROVE  LifeInv'
<1> DEFINE q == CascadeScript(t)
           R == {v \in Views : t \in SourcesOf(v)}
<1>1. Start(s, "cascade", Idle, q)
  BY DEF DropTable
<1>2. /\ q \in Seq(Items) /\ Shaped(q)
      /\ ToSet(q) = {Do("lock_dependent", v) : v \in R} \union {Do("drop_base", t)}
  BY CascadeOK
<1> HIDE DEF q
<1>3. /\ \A x \in ToSet(q) : x.do \in {"lock_dependent", "drop_base"}
      /\ \A x \in ToSet(q) : x.of \in R \union {t}
  BY <1>2, DoOK
<1>4. \A v \in R : Do("lock_dependent", v) \in ToSet(q)
  BY <1>2
<1>5. R \subseteq Views /\ t \notin Views
  BY SourcesAssumption
<1> HIDE DEF R
<1>6. session[s] = Idle
  BY <1>1 DEF Start
<1>7. \A x \in ToSet(q) : x.do # "unlock" /\ x.do \notin Making
  BY <1>3 DEF Making, CreateWords
<1>8. ToDo' = ToSet(q)
  <2>1. Scripts(s)' = q
    BY <1>1, <1>2, <1>7, HoldingStart
  <2> QED
    BY <2>1, OneScript
<1>9. ASSUME NEW u \in Views, ~ \A x \in ToSet(q) : x.of # u
      PROVE  Ahead(u)' /\ Completes(u)' /\ Clear(u)'
  <2>1. u \in R
    BY <1>3, <1>5, <1>9
  <2>2. Ahead(u)'
    BY <1>4, <1>8, <2>1 DEF Ahead
  <2>3. Completes(u)' /\ Clear(u)'
    BY <1>3, <1>8, DoOK DEF Completes, Coming, Clear
  <2> QED
    BY <2>2, <2>3
<1> QED
  BY <1>1, <1>2, <1>7, <1>8, <1>9, LifeStart

\* Writers and refreshes neither make nor drop anything.
LEMMA LifeOthers ==
    ASSUME OneSession, TInv, LifeInv,
           \/ \E w \in Writers : CommitWrite(w) \/ \E t \in Tables : Capture(w, t)
           \/ \E v \in Views : BeginRefresh(v) \/ EndRefresh(v)
    PROVE  LifeInv'
<1>1. delta \in [Tables -> Stored] /\ data \in [Views -> Stored] /\ now \in Nat /\ MaxRows \in Nat
  BY SourcesAssumption DEF TInv, Storing
<1>2. \A rows \in SUBSET Past : rows # Absent
  BY NamesOK DEF TInv
<1>3. ASSUME NEW w \in Writers, NEW t \in Tables, Capture(w, t) PROVE LifeInv'
  <2>1. /\ now <= MaxRows
        /\ delta' = [delta EXCEPT ![t] = IF delta[t] = Absent THEN delta[t] ELSE delta[t] \union {now}]
        /\ session' = session /\ broken' = broken /\ published' = published
        /\ UNCHANGED <<deltaOf, shown, data, cursor>>
    BY <1>3 DEF Capture, objects, catalog, ghosts
  <2>2. delta[t] # Absent => delta[t] \union {now} # Absent
    <3> SUFFICES ASSUME delta[t] # Absent PROVE delta[t] \union {now} # Absent
      OBVIOUS
    <3>1. delta[t] \in SUBSET Past
      BY <1>1 DEF Stored
    <3>2. now >= 1 /\ Past \subseteq 1 .. MaxRows
      BY <2>1, <1>1 DEF Past, TInv, Storing
    <3>3. now \in 1 .. MaxRows
      BY <1>1, <2>1, <3>2
    <3>4. delta[t] \union {now} \in SUBSET (1 .. MaxRows)
      BY <3>1, <3>2, <3>3
    <3> QED
      BY <3>4, NamesAssumption
  <2>3. \A u \in Tables : delta'[u] = Absent => delta[u] = Absent
    BY <1>1, <2>1, <2>2
  <2>4. \A v \in Views : Same(v)
    BY <2>1 DEF Same
  <2> QED
    BY <2>1, <2>3, <2>4, LifeStill
<1>4. ASSUME NEW w \in Writers, CommitWrite(w) PROVE LifeInv'
  <2>1. /\ session' = session /\ broken' = broken /\ published' = published
        /\ UNCHANGED <<deltaOf, shown, data, cursor, delta>>
    BY <1>4 DEF CommitWrite, objects, catalog, ghosts
  <2>2. \A v \in Views : Same(v)
    BY <2>1 DEF Same
  <2> QED
    BY <2>1, <2>2, LifeStill
<1>5. ASSUME NEW v \in Views, BeginRefresh(v) PROVE LifeInv'
  <2>1. /\ session' = session /\ broken' = broken /\ published' = published
        /\ UNCHANGED <<deltaOf, shown, data, cursor, delta>>
    BY <1>5 DEF BeginRefresh, tables, objects, catalog, ghosts
  <2>2. \A u \in Views : Same(u)
    BY <2>1 DEF Same
  <2> QED
    BY <2>1, <2>2, LifeStill
<1>6. ASSUME NEW v \in Views, EndRefresh(v) PROVE LifeInv'
  <2> DEFINE U == UNION {refresh[v].rows[t] : t \in Sources[v]}
             at == [t \in Sources[v] |-> NextCursor(v, t)]
  <2>1. /\ refresh[v] # Idle /\ Whole(v)
        /\ cursor' = WithCursors(v, at)
        /\ data' = [data EXCEPT ![v] = data[v] \union U]
        /\ delta' = [t \in Tables |-> IF t \in Sources[v] THEN Unread(t, cursor') ELSE delta[t]]
        /\ session' = session /\ broken' = broken /\ published' = published
        /\ UNCHANGED <<deltaOf, shown>>
    BY <1>6 DEF EndRefresh, ghosts
  <2>2. \A t \in Sources[v] : refresh[v].rows[t] \in SUBSET Past
    BY <2>1, NextOK DEF TInv
  <2>3. U \in SUBSET Past
    BY <2>2
  <2> HIDE DEF U, at
  <2>4. data[v] \union U # Absent /\ data[v] # Absent
    <3>1. data[v] # Absent /\ data[v] \in SUBSET Past
      BY <1>1, <2>1 DEF Whole, Stored
    <3>2. data[v] \union U \in SUBSET Past
      BY <2>3, <3>1
    <3> QED
      BY <1>2, <3>1, <3>2
  <2>5. \A u \in Views : data'[u] = Absent <=> data[u] = Absent
    BY <1>1, <2>1, <2>4
  <2>6. \A t \in Tables : delta'[t] = Absent => delta[t] = Absent
    <3> SUFFICES ASSUME NEW t \in Tables, t \in Sources[v] PROVE delta'[t] # Absent
      BY <2>1
    <3>1. delta[t] \in SUBSET Past
      BY <1>1, <2>1 DEF Whole, Stored
    <3>2. Unread(t, cursor') \in SUBSET Past
      BY <3>1 DEF Unread
    <3> QED
      BY <1>2, <2>1, <3>2
  <2>7. DOMAIN cursor' = DOMAIN cursor
    <3>1. DOMAIN cursor' = {v} \X Sources[v] \union DOMAIN cursor
      BY <2>1 DEF WithCursors
    <3>2. {v} \X Sources[v] \subseteq DOMAIN cursor
      BY <2>1 DEF Whole
    <3> QED
      BY <3>1, <3>2
  <2>8. \A u \in Views : Same(u)
    BY <2>1, <2>5, <2>7 DEF Same
  <2> QED
    BY <2>1, <2>6, <2>8, LifeStill
<1> QED
  BY <1>3, <1>4, <1>5, <1>6

\* Every step keeps what is left to do sufficient.
LEMMA LifeNext ==
    ASSUME OneSession, TInv, LifeInv, [Next]_vars
    PROVE  LifeInv'
<1>1. ASSUME NEW s \in Sessions, NEW v \in Views, CreateView(s, v) \/ ReplaceView(s, v)
      PROVE  LifeInv'
  <2>1. CASE CreateView(s, v)
    <3>1. (FALSE => ReplaceView(s, v)) /\ (~FALSE => CreateView(s, v)) /\ FALSE \in BOOLEAN
      BY <2>1
    <3> QED
      BY <3>1, LifeCreate
  <2>2. CASE ReplaceView(s, v)
    <3>1. (TRUE => ReplaceView(s, v)) /\ (~TRUE => CreateView(s, v)) /\ TRUE \in BOOLEAN
      BY <2>2
    <3> QED
      BY <3>1, LifeCreate
  <2> QED
    BY <1>1, <2>1, <2>2
<1>2. ASSUME NEW s \in Sessions, Step(s) PROVE LifeInv'
  BY <1>2, LifeDrops, LifeCreates, LifePublish, LifeAnnotate, LifeTables, LifeIntercept, LifeLock, LifeFinish DEF Step
<1>3. CASE UNCHANGED vars
  <2>1. /\ session' = session /\ broken' = broken /\ published' = published
        /\ UNCHANGED <<deltaOf, shown, data, cursor, delta>>
    BY <1>3 DEF vars, tables, objects, catalog, ghosts
  <2>2. \A v \in Views : Same(v)
    BY <2>1 DEF Same
  <2> QED
    BY <2>1, <2>2, LifeStill
<1> QED
  BY <1>1, <1>2, <1>3, LifeDrop, LifeCascade, LifeFail, LifePassOver, LifeCrash, LifeOthers DEF Next

\* With one session, a view that no crash and no failed undo has touched is
\* whole or gone whenever no script is at work on it: whatever fails, whenever
\* the process dies, and whatever writers and refreshes do meanwhile.
THEOREM WholeOrGone ==
    ASSUME OneSession
    PROVE  Spec => []AllOrNothing
<1>1. Init => TInv /\ LifeInv
  BY TInvInit, LifeInit
<1>2. TInv /\ LifeInv /\ [Next]_vars => (TInv /\ LifeInv)'
  BY TInvNext, LifeNext
<1>3. TInv /\ LifeInv => AllOrNothing
  <2> SUFFICES ASSUME TInv, LifeInv, NEW v \in Views, v \notin broken,
                      \A s \in Sessions : ~Mentions(s, v)
               PROVE  Whole(v) \/ Gone(v)
    BY DEF AllOrNothing
  <2>1. Alone(v)
    BY DEF Alone, ToDo, Mentions, IsAbout, ToSet
  <2> QED
    BY <2>1, AtRest
<1> QED
  BY <1>1, <1>2, <1>3, PTL DEF Spec

-----------------------------------------------------------------------------
(* Every row is shown, pending or known to be missed                       *)

\* What a step that reads or loads nothing leaves as it was.
LEMMA AccountsStill ==
    ASSUME NEW v \in Views, Accounts(v),
           \A t \in Sources[v] :
              <<v, t>> \in DOMAIN cursor' /\ delta'[t] # Absent /\ data'[v] # Absent =>
                 /\ <<v, t>> \in DOMAIN cursor /\ delta[t] # Absent
                 /\ cursor'[<<v, t>>] = cursor[<<v, t>>] /\ delta'[t] = delta[t]
                 /\ data'[v] = data[v] /\ missed'[v] = missed[v],
           \A t \in Sources[v] :
              /\ base'[t] # Absent => base[t] # Absent /\ base'[t] \subseteq base[t] \union InWrite(t)
              /\ InWrite(t)' \subseteq InWrite(t)
    PROVE  Accounts(v)'
<1> SUFFICES ASSUME NEW t \in Sources[v],
                    <<v, t>> \in DOMAIN cursor', delta'[t] # Absent, data'[v] # Absent
             PROVE  /\ Pending(v, t)' \intersect data'[v] = {}
                    /\ base'[t] # Absent =>
                          base'[t] \subseteq data'[v] \union Pending(v, t)' \union missed'[v]
                    /\ InWrite(t)' \subseteq data'[v] \union Pending(v, t)' \union missed'[v]
  BY DEF Accounts
<1>1. Pending(v, t)' = Pending(v, t)
  BY DEF Pending
<1>2. /\ Pending(v, t) \intersect data[v] = {}
      /\ base[t] # Absent => base[t] \subseteq data[v] \union Pending(v, t) \union missed[v]
      /\ InWrite(t) \subseteq data[v] \union Pending(v, t) \union missed[v]
  BY DEF Accounts
<1> QED
  BY <1>1, <1>2

\* What a refresh has read is still all that there is to read.
LEMMA ReadingStill ==
    ASSUME Storing, NEW v \in Views, Reading(v),
           refresh'[v] # Idle => refresh'[v] = refresh[v],
           \A t \in Sources[v] : delta'[t] # Absent =>
              delta'[t] = {} \/ (delta[t] # Absent /\ delta'[t] \subseteq delta[t]),
           \A t \in Sources[v] : <<v, t>> \in DOMAIN cursor' =>
              \/ <<v, t>> \in DOMAIN cursor /\ cursor'[<<v, t>>] = cursor[<<v, t>>]
              \/ cursor'[<<v, t>>] = now
    PROVE  Reading(v)'
<1> SUFFICES ASSUME refresh'[v] # Idle, NEW t \in Sources[v], delta'[t] # Absent, delta'[t] # {}
             PROVE  /\ \A r \in delta'[t] :
                          /\ r < refresh[v].at
                          /\ refresh[v].rows[t] # {} => \E m \in refresh[v].rows[t] : r <= m
                    /\ <<v, t>> \in DOMAIN cursor' => Pending(v, t)' \subseteq refresh[v].rows[t]
  BY DEF Reading, Pending
<1>1. /\ delta[t] # Absent /\ delta'[t] \subseteq delta[t] /\ refresh[v] # Idle
      /\ delta[t] \in SUBSET Past
  BY SourcesAssumption DEF Storing, Stored
<1>2. /\ \A r \in delta[t] :
            /\ r < refresh[v].at
            /\ refresh[v].rows[t] # {} => \E m \in refresh[v].rows[t] : r <= m
      /\ <<v, t>> \in DOMAIN cursor => Pending(v, t) \subseteq refresh[v].rows[t]
  BY <1>1 DEF Reading
<1>3. ASSUME <<v, t>> \in DOMAIN cursor' PROVE Pending(v, t)' \subseteq refresh[v].rows[t]
  <2>1. CASE <<v, t>> \in DOMAIN cursor /\ cursor'[<<v, t>>] = cursor[<<v, t>>]
    BY <1>1, <1>2, <2>1 DEF Pending
  <2>2. CASE cursor'[<<v, t>>] = now
    <3>1. now \in Nat /\ \A r \in delta[t] : r < now /\ r \in Nat
      BY <1>1 DEF Past, Storing
    <3>2. Pending(v, t)' = {}
      BY <1>1, <2>2, <3>1 DEF Pending
    <3> QED
      BY <3>2
  <2> QED
    BY <1>3, <2>1, <2>2
<1> QED
  BY <1>1, <1>2, <1>3

\* Which views are settled after a step: those that were, and the one whose
\* cursors it registers.
LEMMA SettledAdvance ==
    ASSUME OneSession, TInv, LifeInv, NEW s \in Sessions, session[s] # Idle, session[s].script # <<>>,
           NEW N, ToDo' = N \union ToSet(Tail(session[s].script)), \A x \in N : x.do # "publish",
           NEW v \in Views, Settled(v)',
           v \in broken => v \in broken' \/ (Head(session[s].script).do = "publish" /\ v = Of(s)),
           ~(Head(session[s].script).do = "cursors" /\ v = Of(s))
    PROVE  Settled(v)
<1> SUFFICES ASSUME v \in broken PROVE Coming(v) /\ Do("cursors", v) \notin ToDo
  BY DEF Settled
<1> DEFINE w == Head(session[s].script).do
<1>1. ToDo = {Do(w, Of(s))} \union ToSet(Tail(session[s].script))
  BY AtWork
<1>2. CASE v \in broken'
  <2>1. Coming(v)' /\ Do("cursors", v) \notin ToDo'
    BY <1>2 DEF Settled
  <2>2. Do("publish", v) \in ToSet(Tail(session[s].script))
    BY <2>1, DoOK DEF Coming
  <2>3. Do("cursors", v) # Do(w, Of(s))
    BY DoOK
  <2> QED
    BY <1>1, <2>1, <2>2, <2>3 DEF Coming
<1>3. CASE w = "publish" /\ v = Of(s)
  <2>1. \A x \in ToSet(Tail(session[s].script)) : x.do = "annotate"
    BY <1>3, AtWork
  <2>2. Do("publish", v) \in ToDo /\ Do("cursors", v).do = "cursors" /\ Do("publish", v).do = "publish"
    BY <1>1, <1>3, DoOK
  <2> QED
    BY <1>1, <1>3, <2>1, <2>2 DEF Coming
<1> QED
  BY <1>2, <1>3

\* The same, when the script only goes on.
LEMMA SettledTail ==
    ASSUME OneSession, TInv, LifeInv, NEW s \in Sessions, session[s] # Idle, session[s].script # <<>>,
           Advance(s), NEW v \in Views, Settled(v)', broken' = broken,
           ~(Head(session[s].script).do = "cursors" /\ v = Of(s))
    PROVE  Settled(v)
<1> DEFINE N == {}
<1>1. ToDo' = N \union ToSet(Tail(session[s].script)) /\ \A x \in N : x.do # "publish"
  BY Advanced
<1> HIDE DEF N
<1> QED
  BY <1>1, SettledAdvance

\* A view is settled after a step of no session if it was before.
LEMMA SettledStill ==
    ASSUME session' = session, broken' = broken, NEW v \in Views
    PROVE  Settled(v)' <=> Settled(v)
<1>1. \A s \in Sessions : Scripts(s)' = Scripts(s)
  BY DEF Scripts
<1>2. ToDo' = ToDo
  BY <1>1 DEF ToDo
<1> QED
  BY <1>2 DEF Settled, Coming

\* A captured row is pending for every view that is registered.
LEMMA RowsCapture ==
    ASSUME TInv, RowInv, NEW w \in Writers, NEW t \in Tables, Capture(w, t)
    PROVE  RowInv'
<1>1. /\ write[w] = Idle /\ base[t] # Absent /\ now' = now + 1 /\ now <= MaxRows
      /\ \A v \in Views : refresh[v] # Idle => t \notin Sources[v]
      /\ delta' = [delta EXCEPT ![t] = IF delta[t] = Absent THEN delta[t] ELSE delta[t] \union {now}]
      /\ write' = [write EXCEPT ![w] = [table |-> t, row |-> now]]
      /\ UNCHANGED <<base, data, cursor, session, refresh, missed, broken>>
  BY DEF Capture, objects, catalog, ghosts
<1>2. /\ delta \in [Tables -> Stored] /\ data \in [Views -> Stored] /\ now \in Nat
      /\ write \in [Writers -> {Idle} \union [table : Tables, row : Past]]
      /\ DOMAIN write = Writers
      /\ \A p \in DOMAIN cursor : cursor[p] \in 1 .. now
  BY DEF TInv, Storing
<1>3. /\ \A u \in Tables \ {t} : delta'[u] = delta[u]
      /\ delta'[t] = IF delta[t] = Absent THEN delta[t] ELSE delta[t] \union {now}
  BY <1>1, <1>2
<1>4. \A u \in Tables : InWrite(u)' \subseteq InWrite(u) \union (IF u = t THEN {now} ELSE {})
  <2> SUFFICES ASSUME NEW u \in Tables, NEW x \in Writers, write'[x] # Idle, write'[x].table = u
               PROVE  write'[x].row \in InWrite(u) \union (IF u = t THEN {now} ELSE {})
    BY DEF InWrite
  <2>1. CASE x = w
    <3>1. write'[x] = [table |-> t, row |-> now]
      BY <1>1, <1>2, <2>1
    <3> QED
      BY <3>1
  <2>2. CASE x # w
    <3>1. write'[x] = write[x]
      BY <1>1, <1>2, <2>2
    <3> QED
      BY <3>1 DEF InWrite
  <2> QED
    BY <2>1, <2>2
<1>5. ASSUME NEW v \in Views PROVE Reading(v)'
  <2>1. Reading(v)
    BY DEF RowInv
  <2>2. \A u \in Sources[v] : refresh[v] # Idle => delta'[u] = delta[u]
    BY <1>1, <1>3, SourcesAssumption
  <2>3. CASE refresh[v] # Idle
    BY <1>1, <2>1, <2>2, <2>3 DEF Reading, Pending
  <2>4. CASE refresh[v] = Idle
    BY <1>1, <2>4 DEF Reading
  <2> QED
    BY <2>3, <2>4
<1>6. ASSUME NEW v \in Views, Settled(v)' PROVE Accounts(v)'
  <2> SUFFICES ASSUME NEW u \in Sources[v], <<v, u>> \in DOMAIN cursor, delta'[u] # Absent,
                      data[v] # Absent
               PROVE  /\ Pending(v, u)' \intersect data[v] = {}
                      /\ base[u] # Absent => base[u] \subseteq data[v] \union Pending(v, u)' \union missed[v]
                      /\ InWrite(u)' \subseteq data[v] \union Pending(v, u)' \union missed[v]
    BY <1>1 DEF Accounts
  <2>1. Settled(v) /\ Accounts(v) /\ u \in Tables
    BY <1>1, <1>6, SettledStill, SourcesAssumption DEF RowInv
  <2>2. delta[u] # Absent
    BY <1>3, <2>1
  <2>3. /\ Pending(v, u) \intersect data[v] = {}
        /\ base[u] # Absent => base[u] \subseteq data[v] \union Pending(v, u) \union missed[v]
        /\ InWrite(u) \subseteq data[v] \union Pending(v, u) \union missed[v]
    BY <2>1, <2>2 DEF Accounts
  <2>4. now \notin data[v]
    <3>1. data[v] \in SUBSET Past
      BY <1>2 DEF Stored
    <3> QED
      BY <1>2, <3>1 DEF Past
  <2>5. CASE u = t
    <3>1. delta'[u] = delta[u] \union {now} /\ now >= cursor[<<v, u>>]
      BY <1>2, <1>3, <2>2, <2>5
    <3>2. Pending(v, u)' = Pending(v, u) \union {now}
      BY <1>1, <3>1 DEF Pending
    <3>3. InWrite(u)' \subseteq InWrite(u) \union {now}
      BY <1>4, <2>5
    <3> QED
      BY <2>3, <2>4, <3>2, <3>3
  <2>6. CASE u # t
    <3>1. Pending(v, u)' = Pending(v, u)
      BY <1>1, <1>3, <2>1, <2>6 DEF Pending
    <3>2. InWrite(u)' \subseteq InWrite(u)
      BY <1>4, <2>1, <2>6
    <3> QED
      BY <2>3, <3>1, <3>2
  <2> QED
    BY <2>5, <2>6
<1> QED
  BY <1>5, <1>6 DEF RowInv

\* The rows of a statement that commits are in the table.
LEMMA RowsCommit ==
    ASSUME TInv, RowInv, NEW w \in Writers, CommitWrite(w)
    PROVE  RowInv'
<1> DEFINE t == write[w].table
<1>1. /\ write[w] # Idle
      /\ base' = [base EXCEPT ![t] = base[t] \union {write[w].row}]
      /\ write' = [write EXCEPT ![w] = Idle]
      /\ UNCHANGED <<delta, data, cursor, session, refresh, missed, broken>>
  BY DEF CommitWrite, objects, catalog, ghosts
<1>2. /\ write \in [Writers -> {Idle} \union [table : Tables, row : Past]]
      /\ base \in [Tables -> Stored] /\ base[t] # Absent /\ Storing
  BY <1>1 DEF TInv, Storing
<1>3. write[w].row \in InWrite(t)
  BY <1>1 DEF InWrite
<1>4. \A u \in Tables : InWrite(u)' \subseteq InWrite(u)
  <2> SUFFICES ASSUME NEW u \in Tables, NEW x \in Writers, write'[x] # Idle, write'[x].table = u
               PROVE  write'[x].row \in InWrite(u)
    BY DEF InWrite
  <2>1. write'[x] = write[x]
    BY <1>1, <1>2
  <2> QED
    BY <2>1 DEF InWrite
<1> HIDE DEF t
<1>5. \A u \in Tables : base'[u] # Absent => base[u] # Absent /\ base'[u] \subseteq base[u] \union InWrite(u)
  <2> SUFFICES ASSUME NEW u \in Tables, base'[u] # Absent
               PROVE  base[u] # Absent /\ base'[u] \subseteq base[u] \union InWrite(u)
    OBVIOUS
  <2>1. CASE u = t
    BY <1>1, <1>2, <1>3, <2>1
  <2>2. CASE u # t
    BY <1>1, <1>2, <2>2
  <2> QED
    BY <2>1, <2>2
<1>6. ASSUME NEW v \in Views PROVE Reading(v)'
  BY <1>1, <1>2, ReadingStill DEF RowInv
<1>7. ASSUME NEW v \in Views, Settled(v)' PROVE Accounts(v)'
  <2>1. Accounts(v)
    BY <1>1, <1>7, SettledStill DEF RowInv
  <2>2. \A u \in Sources[v] : u \in Tables
    BY SourcesAssumption
  <2> QED
    BY <1>1, <1>4, <1>5, <2>1, <2>2, AccountsStill
<1> QED
  BY <1>6, <1>7 DEF RowInv

\* A refresh reads all that is pending.
LEMMA RowsBegin ==
    ASSUME TInv, RowInv, NEW v \in Views, BeginRefresh(v)
    PROVE  RowInv'
<1>1. /\ Whole(v)
      /\ refresh' = [refresh EXCEPT ![v] =
                       [at |-> now, rows |-> [t \in Sources[v] |-> Pending(v, t)]]]
      /\ UNCHANGED <<base, write, delta, data, cursor, session, missed, broken>>
  BY DEF BeginRefresh, tables, objects, catalog, ghosts
<1>2. DOMAIN refresh = Views /\ Storing /\ now \in Nat /\ delta \in [Tables -> Stored]
  BY DEF TInv, Storing
<1>3. Reading(v)'
  <2>1. refresh'[v].at = now /\ \A t \in Sources[v] : refresh'[v].rows[t] = Pending(v, t)
    BY <1>1, <1>2
  <2>2. ASSUME NEW t \in Sources[v]
        PROVE  /\ Pending(v, t)' = Pending(v, t) /\ cursor[<<v, t>>] \in Nat
               /\ \A r \in delta[t] : r \in Nat /\ r < now
    <3>1. t \in Tables /\ delta[t] # Absent /\ <<v, t>> \in DOMAIN cursor
      BY <1>1, SourcesAssumption DEF Whole
    <3>2. delta[t] \in SUBSET Past /\ cursor[<<v, t>>] \in 1 .. now
      BY <1>2, <3>1 DEF Stored, Storing
    <3> QED
      BY <1>1, <1>2, <3>2 DEF Pending, Past
  <2>3. ASSUME NEW t \in Sources[v], NEW r \in delta[t], Pending(v, t) # {}
        PROVE  \E m \in Pending(v, t) : r <= m
    <3>1. PICK m \in Pending(v, t) : TRUE
      BY <2>3
    <3>2. m \in Nat /\ m >= cursor[<<v, t>>] /\ r \in Nat /\ cursor[<<v, t>>] \in Nat
      BY <2>2, <3>1 DEF Pending
    <3>3. CASE r >= cursor[<<v, t>>]
      BY <3>2, <3>3 DEF Pending
    <3>4. CASE r < cursor[<<v, t>>]
      BY <3>1, <3>2, <3>4
    <3> QED
      BY <3>2, <3>3, <3>4
  <2> QED
    BY <1>1, <2>1, <2>2, <2>3 DEF Reading
<1>4. ASSUME NEW u \in Views \ {v} PROVE Reading(u)'
  <2>1. refresh'[u] = refresh[u]
    BY <1>1, <1>2
  <2> QED
    BY <1>1, <1>2, <2>1, ReadingStill DEF RowInv
<1>5. ASSUME NEW u \in Views, Settled(u)' PROVE Accounts(u)'
  <2>1. Accounts(u)
    BY <1>1, <1>5, SettledStill DEF RowInv
  <2>2. \A t : InWrite(t)' = InWrite(t)
    BY <1>1 DEF InWrite
  <2> QED
    BY <1>1, <2>1, <2>2, AccountsStill
<1> QED
  BY <1>3, <1>4, <1>5 DEF RowInv

\* A refresh ends: nothing that it has read is pending for its view, and
\* nothing that another view has not read is gone.
LEMMA RowsEnd ==
    ASSUME TInv, RowInv, NEW v \in Views, EndRefresh(v)
    PROVE  RowInv'
<1> DEFINE U == UNION {refresh[v].rows[t] : t \in Sources[v]}
           at == [t \in Sources[v] |-> NextCursor(v, t)]
<1>1. /\ refresh[v] # Idle /\ Whole(v)
      /\ cursor' = WithCursors(v, at)
      /\ data' = [data EXCEPT ![v] = data[v] \union U]
      /\ delta' = [t \in Tables |-> IF t \in Sources[v] THEN Unread(t, cursor') ELSE delta[t]]
      /\ refresh' = [refresh EXCEPT ![v] = Idle]
      /\ UNCHANGED <<now, base, write, session, missed, broken>>
  BY DEF EndRefresh, ghosts
<1>2. /\ Storing /\ DOMAIN refresh = Views /\ data \in [Views -> Stored] /\ now \in Nat
      /\ delta \in [Tables -> Stored]
  BY DEF TInv, Storing
<1>3. /\ \A p \in {v} \X Sources[v] : cursor'[p] = at[p[2]]
      /\ DOMAIN cursor' = ({v} \X Sources[v]) \union DOMAIN cursor
      /\ \A p \in DOMAIN cursor \ ({v} \X Sources[v]) : cursor'[p] = cursor[p]
  BY <1>1 DEF WithCursors
<1>4. \A t \in Sources[v] : <<v, t>> \in DOMAIN cursor' /\ cursor'[<<v, t>>] = NextCursor(v, t)
  BY <1>3
<1>5. \A u \in Views \ {v} : \A t \in Tables :
              /\ <<u, t>> \in DOMAIN cursor' <=> <<u, t>> \in DOMAIN cursor
              /\ <<u, t>> \in DOMAIN cursor => cursor'[<<u, t>>] = cursor[<<u, t>>]
  BY <1>3
<1> HIDE DEF U, at
<1>6. \A t \in Tables : delta'[t] # Absent => delta[t] # Absent /\ delta'[t] \subseteq delta[t]
  BY <1>1, SourcesAssumption DEF Unread, Whole
<1>7. ASSUME NEW u \in Views PROVE Reading(u)'
  <2>1. CASE u = v
    BY <1>1, <1>2, <2>1 DEF Reading
  <2>2. CASE u # v
    <3>1. refresh'[u] = refresh[u] /\ Reading(u)
      BY <1>1, <1>2, <2>2 DEF RowInv
    <3>2. \A t \in Sources[u] : t \in Tables
      BY SourcesAssumption
    <3> QED
      BY <1>2, <1>5, <1>6, <2>2, <3>1, <3>2, ReadingStill
  <2> QED
    BY <2>1, <2>2
<1>8. \A t : InWrite(t)' = InWrite(t)
  BY <1>1 DEF InWrite
<1>9. ASSUME NEW u \in Views, Settled(u)', NEW t \in Sources[u],
             <<u, t>> \in DOMAIN cursor', delta'[t] # Absent, data'[u] # Absent
      PROVE  /\ Pending(u, t)' \intersect data'[u] = {}
             /\ base[t] # Absent => base[t] \subseteq data'[u] \union Pending(u, t)' \union missed[u]
             /\ InWrite(t) \subseteq data'[u] \union Pending(u, t)' \union missed[u]
  <2>1. Settled(u) /\ Accounts(u) /\ t \in Tables /\ delta[t] # Absent
    BY <1>1, <1>6, <1>9, SettledStill, SourcesAssumption DEF RowInv
  <2>2. CASE u = v
    <3>1. <<v, t>> \in DOMAIN cursor /\ data[v] # Absent /\ data'[v] = data[v] \union U
      BY <1>1, <1>2, <1>9, <2>2 DEF Whole
    <3>2. Pending(v, t) \subseteq U
      <4>1. Pending(v, t) \subseteq refresh[v].rows[t]
        BY <1>1, <2>1, <2>2, <3>1 DEF RowInv, Reading
      <4> QED
        BY <1>9, <2>2, <4>1 DEF U
    <3>3. ASSUME NEW r \in delta'[t] PROVE ~(r >= NextCursor(v, t))
      <4>1. r \in delta[t] /\ delta[t] \in SUBSET Past
        BY <1>2, <1>6, <1>9, <2>1, <3>3 DEF Stored
      <4>2. /\ r \in Nat /\ r < refresh[v].at
            /\ refresh[v].rows[t] # {} => \E m \in refresh[v].rows[t] : r <= m
        BY <1>1, <1>9, <2>1, <2>2, <4>1 DEF RowInv, Reading, Past
      <4>3. /\ refresh[v].at \in 1 .. now /\ refresh[v].rows[t] \in SUBSET Past
            /\ NextCursor(v, t) \in 1 .. now
            /\ \A m \in refresh[v].rows[t] : m < NextCursor(v, t)
        BY <1>1, <1>2, <1>9, <2>2, NextOK
      <4>4. CASE refresh[v].rows[t] = {}
        <5>1. NextCursor(v, t) = refresh[v].at
          BY <4>4 DEF NextCursor
        <5> QED
          BY <4>2, <4>3, <5>1
      <4>5. CASE refresh[v].rows[t] # {}
        <5>1. PICK m \in refresh[v].rows[t] : r <= m
          BY <4>2, <4>5
        <5>2. m \in Nat /\ m < NextCursor(v, t) /\ NextCursor(v, t) \in Nat
          BY <4>3, <5>1 DEF Past
        <5> QED
          BY <4>2, <5>1, <5>2
      <4> QED
        BY <4>4, <4>5
    <3>4. Pending(v, t)' = {}
      BY <1>4, <1>9, <2>2, <3>3 DEF Pending
    <3>5. /\ base[t] # Absent => base[t] \subseteq data[v] \union Pending(v, t) \union missed[v]
          /\ InWrite(t) \subseteq data[v] \union Pending(v, t) \union missed[v]
      BY <1>9, <2>1, <2>2, <3>1 DEF Accounts
    <3> QED
      BY <2>2, <3>1, <3>2, <3>4, <3>5
  <2>3. CASE u # v
    <3>1. /\ <<u, t>> \in DOMAIN cursor /\ cursor'[<<u, t>>] = cursor[<<u, t>>]
          /\ data'[u] = data[u]
      BY <1>1, <1>2, <1>5, <1>9, <2>1, <2>3
    <3>2. Pending(u, t)' = Pending(u, t)
      <4>1. ASSUME NEW r \in delta[t], r >= cursor[<<u, t>>] PROVE r \in delta'[t]
        BY <1>1, <1>9, <2>1, <3>1, <4>1 DEF Unread
      <4> QED
        BY <1>6, <1>9, <2>1, <3>1, <4>1 DEF Pending
    <3>3. /\ Pending(u, t) \intersect data[u] = {}
          /\ base[t] # Absent => base[t] \subseteq data[u] \union Pending(u, t) \union missed[u]
          /\ InWrite(t) \subseteq data[u] \union Pending(u, t) \union missed[u]
      BY <1>9, <2>1, <3>1 DEF Accounts
    <3> QED
      BY <3>1, <3>2, <3>3
  <2> QED
    BY <2>2, <2>3
<1>10. ASSUME NEW u \in Views, Settled(u)' PROVE Accounts(u)'
  BY <1>1, <1>8, <1>9, <1>10 DEF Accounts
<1> QED
  BY <1>7, <1>10 DEF RowInv

\* A statement of a script that neither loads nor registers.
LEMMA RowsAdvance ==
    ASSUME OneSession, TInv, LifeInv, RowInv, NEW s \in Sessions,
           session[s] # Idle, session[s].script # <<>>, Head(session[s].script).do # "cursors",
           NEW N, ToDo' = N \union ToSet(Tail(session[s].script)), \A x \in N : x.do # "publish",
           \A v \in Views : v \in broken =>
              v \in broken' \/ (Head(session[s].script).do = "publish" /\ v = Of(s)),
           UNCHANGED <<missed, write, refresh>>,
           \A t \in Tables : base'[t] \in {base[t], Absent} /\ delta'[t] \in {delta[t], Absent},
           \A v \in Views : data'[v] \in {data[v], Absent},
           DOMAIN cursor' \subseteq DOMAIN cursor, \A p \in DOMAIN cursor' : cursor'[p] = cursor[p]
    PROVE  RowInv'
<1>1. \A v \in Views : \A t \in Sources[v] : t \in Tables
  BY SourcesAssumption
<1>2. \A t : InWrite(t)' = InWrite(t)
  BY DEF InWrite
<1>3. ASSUME NEW v \in Views PROVE Reading(v)'
  <2>1. Storing /\ Reading(v)
    BY DEF TInv, RowInv
  <2>2. \A t \in Sources[v] : delta'[t] # Absent =>
              delta'[t] = {} \/ (delta[t] # Absent /\ delta'[t] \subseteq delta[t])
    BY <1>1
  <2> QED
    BY <2>1, <2>2, ReadingStill
<1>4. ASSUME NEW v \in Views, Settled(v)' PROVE Accounts(v)'
  <2>1. Settled(v)
    BY <1>4, SettledAdvance
  <2>2. Accounts(v)
    BY <2>1 DEF RowInv
  <2>3. \A t \in Sources[v] :
              <<v, t>> \in DOMAIN cursor' /\ delta'[t] # Absent /\ data'[v] # Absent =>
                 /\ <<v, t>> \in DOMAIN cursor /\ delta[t] # Absent
                 /\ cursor'[<<v, t>>] = cursor[<<v, t>>] /\ delta'[t] = delta[t]
                 /\ data'[v] = data[v] /\ missed'[v] = missed[v]
    BY <1>1
  <2>4. \A t \in Sources[v] :
              /\ base'[t] # Absent => base[t] # Absent /\ base'[t] \subseteq base[t] \union InWrite(t)
              /\ InWrite(t)' \subseteq InWrite(t)
    BY <1>1, <1>2
  <2> QED
    BY <2>2, <2>3, <2>4, AccountsStill
<1> QED
  BY <1>3, <1>4 DEF RowInv

\* What is created now is not of a view that has cursors, unless it is of one
\* that is whole.
LEMMA Unregistered ==
    ASSUME OneSession, TInv, LifeInv, NEW s \in Sessions,
           session[s] # Idle, session[s].script # <<>>, Advance(s), broken' = broken,
           Head(session[s].script).do \in {"load", "create_delta"},
           NEW v \in Views, Settled(v)', ~Whole(v)
    PROVE  CursorsOf(v) \intersect DOMAIN cursor = {}
<1> DEFINE w == Head(session[s].script).do
<1>1. /\ ToDo = {Do(w, Of(s))} \union ToSet(Tail(session[s].script)) /\ ToDo = ToSet(Scripts(s))
      /\ \A x \in ToDo : x.do \in CreateWords
      /\ ToDo' = ToSet(Tail(session[s].script))
  BY AtWork, Advanced DEF CreateWords
<1>2. /\ Do("publish", session[s].view) \in ToDo /\ Do("cursors", session[s].view) \in ToDo
      /\ session[s].op \in {"create", "replace"}
      /\ \A x \in ToDo : x.of \in Views => x.of = session[s].view
  <2>1. OfOneView(s)
    BY DEF LifeInv
  <2>2. Do(w, Of(s)) \in ToSet(Scripts(s)) /\ Do(w, Of(s)).do = w
    BY <1>1, DoOK
  <2>3. w \in Making \ {"annotate"} /\ w \notin Ends
    BY DEF Making, CreateWords, Ends
  <2>4. /\ session[s].op \in {"create", "replace"}
        /\ Do("publish", session[s].view) \in ToSet(Scripts(s))
        /\ Do("cursors", session[s].view) \in ToSet(Scripts(s))
    BY <2>1, <2>2, <2>3 DEF OfOneView
  <2> QED
    BY <1>1, <2>1, <2>4 DEF OfOneView
<1>3. Coming(v) => v = session[s].view
  BY <1>2, DoOK DEF Coming
<1>4. \A a, x : Do(a, x) \in ToDo => a \in CreateWords
  BY <1>1, DoOK
<1>5. v \notin broken
  <2> SUFFICES ASSUME v \in broken PROVE FALSE
    OBVIOUS
  <2>1. Coming(v)' /\ Do("cursors", v) \notin ToDo'
    BY DEF Settled
  <2>2. Coming(v)
    BY <1>1, <2>1 DEF Coming
  <2>3. Do("cursors", v) \in ToDo
    BY <1>2, <1>3, <2>2
  <2>4. Do("cursors", v) # Do(w, Of(s))
    BY DoOK
  <2> QED
    BY <1>1, <2>1, <2>3, <2>4
<1>6. Tidy(v) /\ Clear(v)
  BY <1>5 DEF LifeInv
<1>7. CASE Coming(v)
  BY <1>2, <1>3, <1>4, <1>5, <1>6, <1>7 DEF Clear, CreateWords
<1>8. CASE Dismantling(v)
  BY <1>4, <1>8 DEF Dismantling, CreateWords
<1>9. ~Ahead(v)
  BY <1>4 DEF Ahead, CreateWords
<1> QED
  BY <1>6, <1>7, <1>8, <1>9 DEF Tidy

\* The load of a view that is not broken finds no cursors of it.
LEMMA RowsLoad ==
    ASSUME OneSession, TInv, LifeInv, RowInv, NEW s \in Sessions, Load(s)
    PROVE  RowInv'
<1>1. /\ session[s] # Idle /\ session[s].script # <<>> /\ Head(session[s].script).do = "load"
      /\ Advance(s) /\ data[Of(s)] = Absent
      /\ data' = [data EXCEPT ![Of(s)] = Written(Of(s))]
      /\ UNCHANGED <<base, delta, cursor, write, refresh, missed, broken>>
  BY DEF Load, Refused, Statement, Current, tables, catalog, ghosts
<1>2. DOMAIN data = Views /\ Storing
  BY DEF TInv, Storing
<1>4. \A t : InWrite(t)' = InWrite(t)
  BY <1>1 DEF InWrite
<1>5. ASSUME NEW v \in Views PROVE Reading(v)'
  BY <1>1, <1>2, ReadingStill DEF RowInv
<1>6. ASSUME NEW v \in Views, Settled(v)' PROVE Accounts(v)'
  <2>1. CASE v = Of(s)
    <3>1. ~Whole(v)
      BY <1>1, <2>1 DEF Whole
    <3>2. CursorsOf(v) \intersect DOMAIN cursor = {}
      BY <1>1, <1>6, <3>1, Unregistered
    <3>3. \A t \in Sources[v] : <<v, t>> \notin DOMAIN cursor'
      BY <1>1, <3>2, CursorsIn
    <3> QED
      BY <3>3 DEF Accounts
  <2>2. CASE v # Of(s)
    <3>1. Settled(v)
      BY <1>1, <1>6, SettledTail
    <3>2. Accounts(v) /\ data'[v] = data[v]
      BY <1>1, <1>2, <2>2, <3>1 DEF RowInv
    <3> QED
      BY <1>1, <1>4, <3>2, AccountsStill
  <2> QED
    BY <2>1, <2>2
<1> QED
  BY <1>5, <1>6 DEF RowInv

\* A delta table is created for views that have no cursors on it.
LEMMA RowsSourceDelta ==
    ASSUME OneSession, TInv, LifeInv, RowInv, NEW s \in Sessions, CreateSourceDelta(s)
    PROVE  RowInv'
<1>1. /\ session[s] # Idle /\ session[s].script # <<>> /\ Head(session[s].script).do = "create_delta"
      /\ Advance(s)
      /\ delta' = [delta EXCEPT ![Of(s)] = IF delta[Of(s)] = Absent THEN {} ELSE delta[Of(s)]]
      /\ UNCHANGED <<base, data, cursor, write, refresh, missed, broken>>
  BY DEF CreateSourceDelta, Statement, Current, objects, catalog, ghosts
<1>2. DOMAIN delta = Tables /\ Storing
  BY DEF TInv, Storing
<1>4. \A t : InWrite(t)' = InWrite(t)
  BY <1>1 DEF InWrite
<1>5. \A t \in Tables : delta'[t] = delta[t] \/ (delta[t] = Absent /\ delta'[t] = {})
  BY <1>1, <1>2
<1>6. \A v \in Views : \A t \in Sources[v] : t \in Tables
  BY SourcesAssumption
<1>7. ASSUME NEW v \in Views PROVE Reading(v)'
  <2>1. Reading(v)
    BY DEF RowInv
  <2>2. \A t \in Sources[v] : delta'[t] # Absent =>
              delta'[t] = {} \/ (delta[t] # Absent /\ delta'[t] \subseteq delta[t])
    BY <1>5, <1>6
  <2> QED
    BY <1>1, <1>2, <2>1, <2>2, ReadingStill
<1>8. ASSUME NEW v \in Views, Settled(v)' PROVE Accounts(v)'
  <2>1. Settled(v)
    BY <1>1, <1>8, SettledTail
  <2>2. Accounts(v)
    BY <2>1 DEF RowInv
  <2>3. \A t \in Sources[v] : <<v, t>> \in DOMAIN cursor => delta[t] # Absent
    <3> SUFFICES ASSUME NEW t \in Sources[v], delta[t] = Absent PROVE <<v, t>> \notin DOMAIN cursor
      OBVIOUS
    <3>1. ~Whole(v)
      BY DEF Whole
    <3>2. CursorsOf(v) \intersect DOMAIN cursor = {}
      BY <1>1, <1>8, <3>1, Unregistered
    <3> QED
      BY <3>2, CursorsIn
  <2>4. \A t \in Sources[v] : <<v, t>> \in DOMAIN cursor' => delta'[t] = delta[t] /\ delta[t] # Absent
    BY <1>1, <1>5, <1>6, <2>3
  <2> QED
    BY <1>1, <1>4, <2>2, <2>4, AccountsStill
<1> QED
  BY <1>7, <1>8 DEF RowInv

\* The rows that a view misses are those written since it was loaded.
LEMMA RowsRegister ==
    ASSUME OneSession, TInv, LifeInv, RowInv, NEW s \in Sessions, Register(s)
    PROVE  RowInv'
<1>1. /\ session[s] # Idle /\ session[s].script # <<>> /\ Head(session[s].script).do = "cursors"
      /\ Advance(s)
      /\ cursor' = WithCursors(Of(s), [t \in Sources[Of(s)] |-> now])
      /\ missed' = [missed EXCEPT ![Of(s)] =
                      (Written(Of(s)) \union InFlight(Of(s)))
                      \ (IF data[Of(s)] = Absent THEN {} ELSE data[Of(s)])]
      /\ UNCHANGED <<base, data, delta, write, refresh, broken>>
  BY DEF Register, Statement, Current, tables, objects
<1>2. PICK u \in Views : u = Of(s)
  BY <1>1, HeadOK DEF TableWords
<1>3. DOMAIN missed = Views /\ Storing /\ now \in Nat /\ delta \in [Tables -> Stored]
  BY DEF TInv, Storing
<1>5. \A t : InWrite(t)' = InWrite(t)
  BY <1>1 DEF InWrite
<1>6. \A v \in Views : \A t \in Sources[v] : t \in Tables
  BY SourcesAssumption
<1>7. /\ \A t \in Sources[u] : <<u, t>> \in DOMAIN cursor' /\ cursor'[<<u, t>>] = now
      /\ \A v \in Views \ {u} : \A t \in Sources[v] :
            <<v, t>> \in DOMAIN cursor' =>
                <<v, t>> \in DOMAIN cursor /\ cursor'[<<v, t>>] = cursor[<<v, t>>]
  <2> DEFINE at == [t \in Sources[u] |-> now]
  <2>1. cursor' = WithCursors(u, at)
    BY <1>1, <1>2
  <2>2. \A t \in Sources[u] : at[t] = now
    OBVIOUS
  <2> HIDE DEF at
  <2> QED
    BY <2>1, <2>2 DEF WithCursors
<1>8. ASSUME NEW v \in Views PROVE Reading(v)'
  <2>1. Reading(v)
    BY DEF RowInv
  <2>2. \A t \in Sources[v] : <<v, t>> \in DOMAIN cursor' =>
              \/ <<v, t>> \in DOMAIN cursor /\ cursor'[<<v, t>>] = cursor[<<v, t>>]
              \/ cursor'[<<v, t>>] = now
    BY <1>7
  <2>3. \A t \in Sources[v] : delta'[t] # Absent =>
              delta'[t] = {} \/ (delta[t] # Absent /\ delta'[t] \subseteq delta[t])
    BY <1>1
  <2> QED
    BY <1>1, <1>3, <2>1, <2>2, <2>3, ReadingStill
<1>9. ASSUME NEW v \in Views \ {u}, Settled(v)' PROVE Accounts(v)'
  <2>1. Settled(v)
    BY <1>1, <1>2, <1>9, SettledTail
  <2>2. Accounts(v) /\ missed'[v] = missed[v]
    BY <1>1, <1>2, <1>3, <2>1 DEF RowInv
  <2> QED
    BY <1>1, <1>5, <1>7, <2>2, AccountsStill
<1>10. Accounts(u)'
  <2> SUFFICES ASSUME NEW t \in Sources[u], delta[t] # Absent, data[u] # Absent
               PROVE  /\ Pending(u, t)' \intersect data[u] = {}
                      /\ base[t] # Absent => base[t] \subseteq data[u] \union missed'[u]
                      /\ InWrite(t) \subseteq data[u] \union missed'[u]
    BY <1>1, <1>5 DEF Accounts
  <2>1. Pending(u, t)' = {}
    <3>1. delta[t] \in SUBSET Past
      BY <1>3, <1>6 DEF Stored
    <3>2. \A r \in delta[t] : r \in Nat /\ r < now
      BY <1>3, <3>1 DEF Past
    <3> QED
      BY <1>1, <1>3, <1>7, <3>2 DEF Pending
  <2>2. missed'[u] = (Written(u) \union InFlight(u)) \ data[u]
    BY <1>1, <1>2, <1>3
  <2>3. base[t] # Absent => base[t] \subseteq Written(u)
    BY DEF Written
  <2>4. InWrite(t) \subseteq InFlight(u)
    BY DEF InWrite, InFlight
  <2> QED
    BY <2>1, <2>2, <2>3, <2>4
<1> QED
  BY <1>8, <1>9, <1>10 DEF RowInv

\* A statement that drops, or makes what has no rows.
LEMMA RowsOther ==
    ASSUME OneSession, TInv, LifeInv, RowInv, NEW s \in Sessions,
           \/ DropStale(s) \/ CheckDuplicate(s) \/ ShowView(s) \/ CreateViewDelta(s) \/ Publish(s)
           \/ Annotate(s) \/ HideView(s) \/ DropData(s) \/ DropViewDelta(s) \/ DropCursors(s)
           \/ Unpublish(s) \/ DropSourceDelta(s) \/ DropBase(s) \/ UnlockView(s) \/ PassOver(s)
    PROVE  RowInv'
<1>1. /\ session[s] # Idle /\ session[s].script # <<>> /\ Advance(s)
      /\ Head(session[s].script).do # "cursors"
  <2>1. CASE PassOver(s)
    <3>1. Head(session[s].script).do \notin CreateWords
      BY <2>1, PassedOver
    <3> QED
      BY <2>1, <3>1 DEF PassOver, CreateWords
  <2>2. CASE ~PassOver(s)
    BY <2>2 DEF DropStale, CheckDuplicate, ShowView, CreateViewDelta, Publish, Annotate, HideView, DropData,
                DropViewDelta, DropCursors, Unpublish, DropSourceDelta, DropBase, UnlockView,
                Statement, Current
  <2> QED
    BY <2>1, <2>2
<1> DEFINE N == {}
<1>2. ToDo' = N \union ToSet(Tail(session[s].script)) /\ \A x \in N : x.do # "publish"
  BY <1>1, Advanced
<1> HIDE DEF N
<1>3. \A v \in Views : v \in broken =>
              v \in broken' \/ (Head(session[s].script).do = "publish" /\ v = Of(s))
  BY DEF DropStale, CheckDuplicate, ShowView, CreateViewDelta, Publish, Annotate, HideView, DropData,
         DropViewDelta, DropCursors, Unpublish, DropSourceDelta, DropBase, UnlockView, PassOver,
         Statement, Current, ghosts
<1>4. UNCHANGED <<missed, write, refresh>>
  BY DEF DropStale, CheckDuplicate, ShowView, CreateViewDelta, Publish, Annotate, HideView, DropData,
         DropViewDelta, DropCursors, Unpublish, DropSourceDelta, DropBase, UnlockView, PassOver, ghosts
<1>5. base \in [Tables -> Stored] /\ delta \in [Tables -> Stored] /\ data \in [Views -> Stored]
  BY DEF TInv, Storing
<1>6. CASE UNCHANGED <<base, delta, data, cursor>>
  BY <1>1, <1>2, <1>3, <1>4, <1>6, RowsAdvance
<1>7. CASE DropData(s)
  <2>1. data' = [data EXCEPT ![Of(s)] = Absent] /\ UNCHANGED <<base, delta, cursor>>
    BY <1>7 DEF DropData, tables, catalog
  <2>2. \A v \in Views : data'[v] \in {data[v], Absent}
    BY <1>5, <2>1
  <2> QED
    BY <1>1, <1>2, <1>3, <1>4, <2>1, <2>2, RowsAdvance
<1>8. CASE DropCursors(s)
  <2>1. cursor' = Without(cursor, CursorsOf(Of(s))) /\ UNCHANGED <<base, delta, data>>
    BY <1>8 DEF DropCursors, tables, objects
  <2>2. DOMAIN cursor' \subseteq DOMAIN cursor /\ \A p \in DOMAIN cursor' : cursor'[p] = cursor[p]
    BY <2>1 DEF Without
  <2> QED
    BY <1>1, <1>2, <1>3, <1>4, <2>1, <2>2, RowsAdvance
<1>9. CASE DropSourceDelta(s)
  <2>1. /\ delta' = [delta EXCEPT ![Of(s)] = IF Registered(Of(s)) THEN delta[Of(s)] ELSE Absent]
        /\ UNCHANGED <<base, data, cursor>>
    BY <1>9 DEF DropSourceDelta, objects, catalog
  <2>2. \A t \in Tables : delta'[t] \in {delta[t], Absent}
    BY <1>5, <2>1
  <2> QED
    BY <1>1, <1>2, <1>3, <1>4, <2>1, <2>2, RowsAdvance
<1>10. CASE DropBase(s)
  <2>1. base' = [base EXCEPT ![Of(s)] = Absent] /\ UNCHANGED <<delta, data, cursor>>
    BY <1>10 DEF DropBase, objects, catalog
  <2>2. \A t \in Tables : base'[t] \in {base[t], Absent}
    BY <1>5, <2>1
  <2> QED
    BY <1>1, <1>2, <1>3, <1>4, <2>1, <2>2, RowsAdvance
<1>11. \/ DropData(s) \/ DropCursors(s) \/ DropSourceDelta(s) \/ DropBase(s)
       \/ UNCHANGED <<base, delta, data, cursor>>
  BY DEF DropStale, CheckDuplicate, ShowView, CreateViewDelta, Publish, Annotate, HideView,
         DropViewDelta, Unpublish, UnlockView, PassOver, tables, objects, catalog
<1> QED
  BY <1>6, <1>7, <1>8, <1>9, <1>10, <1>11

\* The script that a mutex or the rule's interception puts first.
LEMMA RowsPrepend ==
    ASSUME OneSession, TInv, LifeInv, RowInv, NEW s \in Sessions, Intercept(s) \/ LockView(s)
    PROVE  RowInv'
<1>1. UNCHANGED <<base, delta, data, cursor, write, refresh, missed, broken>>
  BY DEF Intercept, LockView, tables, objects, catalog, ghosts
<1>2. PICK p \in Seq(Items) :
              /\ session[s] # Idle /\ session[s].script # <<>>
              /\ Head(session[s].script).do # "cursors"
              /\ session' = [session EXCEPT ![s].script = p \o Tail(session[s].script)]
              /\ \A x \in ToSet(p) : x.do # "publish"
  <2>1. CASE Intercept(s)
    <3>1. /\ session[s] # Idle /\ session[s].script # <<>>
          /\ Head(session[s].script).do = "drop_view"
          /\ session' = [session EXCEPT ![s].script = OnView(Of(s), <<"lock", "hide">>)
                                                          \o Tail(session[s].script)]
      BY <2>1 DEF Intercept, Current, Prepend
    <3>2. OnView(Of(s), <<"lock", "hide">>) \in Seq(Items)
      BY <2>1, <3>1, InterceptOwn, HeadOK DEF TableWords
    <3>3. \A x \in ToSet(OnView(Of(s), <<"lock", "hide">>)) : x.do # "publish"
      <4>1. ToSet(OnView(Of(s), <<"lock", "hide">>)) = {Do("lock", Of(s)), Do("hide", Of(s))}
        BY WordsOK
      <4>2. Do("lock", Of(s)).do # "publish" /\ Do("hide", Of(s)).do # "publish"
        BY DoOK
      <4> QED
        BY <4>1, <4>2
    <3> QED
      BY <3>1, <3>2, <3>3
  <2>2. CASE LockView(s)
    <3>1. PICK p \in Seq(Items) :
              /\ session[s] # Idle /\ session[s].script # <<>>
              /\ Head(session[s].script).do \in {"lock", "lock_dependent"}
              /\ session' = [session EXCEPT ![s].script = p \o Tail(session[s].script)]
              /\ Head(session[s].script).do = "lock" =>
                    ToSet(p) = Dropping(Of(s)) \union {Do("unlock", Of(s))}
                                    \union {Do("drop_delta", t) : t \in SourcesOf(Of(s))}
              /\ Head(session[s].script).do = "lock_dependent" =>
                    ToSet(p) = Dropping(Of(s)) \union {Do("drop_view", Of(s)), Do("unlock", Of(s))}
                                    \union {Do("drop_delta", t) : t \in SourcesOf(Of(s))}
      BY <2>2, LockedScript
    <3>2. \A x \in ToSet(p) : x.do # "publish"
      BY <3>1, DoOK DEF Dropping
    <3> QED
      BY <3>1, <3>2
  <2> QED
    BY <2>1, <2>2
<1> DEFINE N == ToSet(p)
<1>3. ToDo' = N \union ToSet(Tail(session[s].script)) /\ \A x \in N : x.do # "publish"
  BY <1>2, Prepended
<1> HIDE DEF N
<1> QED
  BY <1>1, <1>2, <1>3, RowsAdvance

\* A session begins or ends, or is to undo what it did: no view is settled by
\* that.
LEMMA RowsScripts ==
    ASSUME TInv, RowInv, UNCHANGED <<base, delta, data, cursor, missed>>,
           \A v \in Views : refresh'[v] \in {refresh[v], Idle},
           write' = write \/ write' = [w \in Writers |-> Idle],
           \A v \in Views : Settled(v)' => Settled(v)
    PROVE  RowInv'
<1>1. \A t : InWrite(t)' \subseteq InWrite(t)
  BY DEF InWrite
<1>2. Storing
  BY DEF TInv
<1>3. ASSUME NEW v \in Views PROVE Reading(v)'
  BY <1>2, ReadingStill DEF RowInv
<1>4. ASSUME NEW v \in Views, Settled(v)' PROVE Accounts(v)'
  <2>1. Accounts(v)
    BY <1>4 DEF RowInv
  <2> QED
    BY <1>1, <2>1, AccountsStill
<1> QED
  BY <1>3, <1>4 DEF RowInv

\* What there is to do when a script has begun.
LEMMA Begun ==
    ASSUME OneSession, TInv, NEW s \in Sessions
    PROVE  /\ \A v \in Views : \A replace \in BOOLEAN :
                (replace => ReplaceView(s, v)) /\ (~replace => CreateView(s, v)) =>
                    ToDo' = Preparing(v, replace) \union Creating1(v) \union Publishing(v)
           /\ \A v \in Views : DropView(s, v) => ToDo' = {Do("drop_view", v)}
           /\ \A t \in Tables : DropTable(s, t) =>
                ToDo' = {Do("lock_dependent", v) : v \in {u \in Views : t \in SourcesOf(u)}}
                            \union {Do("drop_base", t)}
<1>1. ASSUME NEW v \in Views, NEW replace \in BOOLEAN,
             (replace => ReplaceView(s, v)) /\ (~replace => CreateView(s, v))
      PROVE  ToDo' = Preparing(v, replace) \union Creating1(v) \union Publishing(v)
  <2> DEFINE q == CreateScript(v, replace)
             op == IF replace THEN "replace" ELSE "create"
  <2>1. Start(s, op, v, q)
    BY <1>1 DEF CreateView, ReplaceView
  <2>2. /\ q \in Seq(Items)
        /\ ToSet(q) = Preparing(v, replace) \union Creating1(v) \union Publishing(v)
    BY CreateOK
  <2>3. op \in {"create", "replace", "drop", "cascade"}
    OBVIOUS
  <2> HIDE DEF q, op
  <2>4. \A x \in ToSet(q) : x.do # "unlock"
    <3>1. /\ \A x \in Preparing(v, replace) : x.do # "unlock"
          /\ \A x \in Creating1(v) : x.do # "unlock"
      BY CreatesOK
    <3>2. \A x \in Publishing(v) : x.do # "unlock"
      BY CreatesOK
    <3> QED
      BY <2>2, <3>1, <3>2
  <2>5. Scripts(s)' = q
    BY <2>1, <2>2, <2>3, <2>4, HoldingStart
  <2> QED
    BY <2>2, <2>5, OneScript
<1>2. ASSUME NEW v \in Views, DropView(s, v) PROVE ToDo' = {Do("drop_view", v)}
  <2> DEFINE q == <<Do("drop_view", v)>>
  <2>1. Do("drop_view", v) \in Items
    BY DoOK DEF ViewWords
  <2>2. q \in Seq(Items) /\ ToSet(q) = {Do("drop_view", v)}
    BY <2>1, WordsOK
  <2>3. Start(s, "drop", v, q)
    BY <1>2 DEF DropView
  <2> HIDE DEF q
  <2>4. \A x \in ToSet(q) : x.do # "unlock"
    BY <2>2, DoOK
  <2>5. Scripts(s)' = q
    BY <2>2, <2>3, <2>4, HoldingStart
  <2> QED
    BY <2>2, <2>5, OneScript
<1>3. ASSUME NEW t \in Tables, DropTable(s, t)
      PROVE  ToDo' = {Do("lock_dependent", v) : v \in {u \in Views : t \in SourcesOf(u)}}
                        \union {Do("drop_base", t)}
  <2> DEFINE q == CascadeScript(t)
  <2>1. /\ q \in Seq(Items)
        /\ ToSet(q) = {Do("lock_dependent", v) : v \in {u \in Views : t \in SourcesOf(u)}}
                        \union {Do("drop_base", t)}
    BY CascadeOK
  <2>2. \A x \in ToSet(q) : x.do # "unlock"
    BY <2>1, DoOK
  <2>3. Start(s, "cascade", Idle, q)
    BY <1>3 DEF DropTable
  <2> HIDE DEF q
  <2>4. Scripts(s)' = q
    BY <2>1, <2>2, <2>3, HoldingStart
  <2> QED
    BY <2>1, <2>4, OneScript
<1> QED
  BY <1>1, <1>2, <1>3

\* A CREATE that begins has to register what it is to publish.
LEMMA SettledBegun ==
    ASSUME OneSession, TInv, NEW s \in Sessions, NEW v \in Views, Settled(v)',
           \/ \E u \in Views : CreateView(s, u) \/ ReplaceView(s, u) \/ DropView(s, u)
           \/ \E t \in Tables : DropTable(s, t)
    PROVE  Settled(v)
<1>1. broken' = broken
  BY DEF CreateView, ReplaceView, DropView, DropTable, Start, ghosts
<1> SUFFICES ASSUME Coming(v)' PROVE Do("cursors", v) \in ToDo'
  BY <1>1 DEF Settled
<1>2. ASSUME NEW u \in Views, NEW replace \in BOOLEAN,
             (replace => ReplaceView(s, u)) /\ (~replace => CreateView(s, u))
      PROVE  Do("cursors", v) \in ToDo'
  <2>1. ToDo' = Preparing(u, replace) \union Creating1(u) \union Publishing(u)
    BY <1>2, Begun
  <2>2. /\ \A x \in Preparing(u, replace) : x.do # "publish"
        /\ \A x \in Creating1(u) : x.do # "publish"
        /\ \A x \in Publishing(u) : x.of = u
    BY CreatesOK
  <2>3. Do("publish", v) \in ToDo' /\ Do("publish", v).do = "publish"
    BY DoOK DEF Coming
  <2>4. v = u
    BY <2>1, <2>2, <2>3, DoOK
  <2> QED
    BY <2>1, <2>4 DEF Creating1
<1>3. ASSUME NEW u \in Views, CreateView(s, u) PROVE Do("cursors", v) \in ToDo'
  <2>1. (FALSE => ReplaceView(s, u)) /\ (~FALSE => CreateView(s, u)) /\ FALSE \in BOOLEAN
    BY <1>3
  <2> QED
    BY <1>2, <2>1
<1>4. ASSUME NEW u \in Views, ReplaceView(s, u) PROVE Do("cursors", v) \in ToDo'
  <2>1. (TRUE => ReplaceView(s, u)) /\ (~TRUE => CreateView(s, u)) /\ TRUE \in BOOLEAN
    BY <1>4
  <2> QED
    BY <1>2, <2>1
<1>5. ASSUME NEW u \in Views, DropView(s, u) PROVE FALSE
  <2>1. ToDo' = {Do("drop_view", u)}
    BY <1>5, Begun
  <2> QED
    BY <2>1, DoOK DEF Coming
<1>6. ASSUME NEW t \in Tables, DropTable(s, t) PROVE FALSE
  <2>1. ToDo' = {Do("lock_dependent", u) : u \in {x \in Views : t \in SourcesOf(x)}}
                    \union {Do("drop_base", t)}
    BY <1>6, Begun
  <2> QED
    BY <2>1, DoOK DEF Coming
<1> QED
  BY <1>3, <1>4, <1>5, <1>6

\* A script that ends or fails, or dies with its process, is not going to
\* publish anything.
LEMMA SettledEnded ==
    ASSUME OneSession, TInv, NEW v \in Views, Settled(v)',
           Crash \/ \E s \in Sessions : FailCreate(s) \/ Finish(s)
    PROVE  Settled(v)
<1>1. v \in broken => v \in broken'
  BY DEF FailCreate, Finish, Crash, ghosts
<1> SUFFICES ASSUME Coming(v)' PROVE FALSE
  BY <1>1 DEF Settled
<1>2. CASE Crash
  <2>1. \A s \in Sessions : Scripts(s)' = <<>>
    BY <1>2 DEF Crash, Scripts
  <2>2. ToDo' = {}
    BY <2>1 DEF ToDo, ToSet
  <2> QED
    BY <2>2 DEF Coming
<1>3. ASSUME NEW s \in Sessions, Finish(s) PROVE FALSE
  <2>1. session'[s] = Idle
    BY <1>3 DEF Finish, TInv, Holding
  <2>2. Scripts(s)' = <<>>
    BY <2>1 DEF Scripts
  <2>3. ToDo' = {}
    BY <2>2, OneScript DEF ToSet
  <2> QED
    BY <2>3 DEF Coming
<1>4. ASSUME NEW s \in Sessions, FailCreate(s) PROVE FALSE
  <2>1. ToDo' = Dropping(session[s].view) \union {Do("drop_view", session[s].view)}
    BY <1>4, Undoing
  <2> QED
    BY <2>1, DoOK DEF Coming, Dropping
<1> QED
  BY <1>2, <1>3, <1>4

\* At the start no view is stored.
LEMMA RowsInit ==
    ASSUME Init
    PROVE  RowInv
<1>1. \A v \in Views : refresh[v] = Idle /\ data[v] = Absent
  BY DEF Init
<1> QED
  BY <1>1 DEF RowInv, Reading, Accounts

\* Every step keeps every row accounted for.
LEMMA RowsNext ==
    ASSUME OneSession, TInv, LifeInv, RowInv, [Next]_vars
    PROVE  RowInv'
<1>1. ASSUME NEW s \in Sessions,
             \/ \E v \in Views : CreateView(s, v) \/ ReplaceView(s, v) \/ DropView(s, v)
             \/ \E t \in Tables : DropTable(s, t)
             \/ FailCreate(s) \/ Finish(s)
      PROVE  RowInv'
  <2>1. /\ UNCHANGED <<base, delta, data, cursor, missed, refresh>>
        /\ write' = write
    BY <1>1 DEF CreateView, ReplaceView, DropView, DropTable, Start, FailCreate, Finish,
                tables, objects, catalog, ghosts
  <2>2. \A v \in Views : Settled(v)' => Settled(v)
    BY <1>1, SettledBegun, SettledEnded
  <2> QED
    BY <2>1, <2>2, RowsScripts
<1>2. CASE Crash
  <2>1. /\ UNCHANGED <<base, delta, data, cursor, missed>>
        /\ write' = [w \in Writers |-> Idle] /\ \A v \in Views : refresh'[v] = Idle
    BY <1>2 DEF Crash, tables, objects, catalog
  <2>2. \A v \in Views : Settled(v)' => Settled(v)
    BY <1>2, SettledEnded
  <2> QED
    BY <2>1, <2>2, RowsScripts
<1>3. ASSUME NEW s \in Sessions, Step(s) PROVE RowInv'
  BY <1>1, <1>3, RowsLoad, RowsSourceDelta, RowsRegister, RowsOther, RowsPrepend DEF Step
<1>4. CASE UNCHANGED vars
  <2>1. /\ UNCHANGED <<base, delta, data, cursor, missed, refresh, session, broken>>
        /\ write' = write
    BY <1>4 DEF vars, tables, objects, catalog, ghosts
  <2>2. \A v \in Views : Settled(v)' => Settled(v)
    BY <2>1, SettledStill
  <2> QED
    BY <2>1, <2>2, RowsScripts
<1> QED
  BY <1>1, <1>2, <1>3, <1>4, RowsOther, RowsCapture, RowsCommit, RowsBegin, RowsEnd DEF Next

\* A view that is whole and not broken is settled, and has all that Accounts
\* asks for.
LEMMA WholeAccounts ==
    ASSUME RowInv, NEW v \in Views, v \notin broken, Whole(v), NEW t \in Sources[v]
    PROVE  /\ Pending(v, t) \intersect data[v] = {}
           /\ base[t] # Absent => base[t] \subseteq data[v] \union Pending(v, t) \union missed[v]
  BY DEF RowInv, Settled, Accounts, Whole

\* With one session, nothing that is pending for a view is in it already: not
\* after a refresh that other writers and refreshes overlapped, and not after
\* the view was created over rows that were captured for other views.
THEOREM PendingNeverShown ==
    ASSUME OneSession
    PROVE  Spec => []PendingIsNew
<1>1. Init => TInv /\ LifeInv /\ RowInv
  BY TInvInit, LifeInit, RowsInit
<1>2. TInv /\ LifeInv /\ RowInv /\ [Next]_vars => (TInv /\ LifeInv /\ RowInv)'
  BY TInvNext, LifeNext, RowsNext
<1>3. RowInv => PendingIsNew
  BY WholeAccounts DEF PendingIsNew
<1> QED
  BY <1>1, <1>2, <1>3, PTL DEF Spec

\* With one session, a row of a source is shown, pending, or was written
\* between the load of the view and the registration of its cursors.
THEOREM WindowIsAllThatIsMissed ==
    ASSUME OneSession
    PROVE  Spec => []OnlyWindowIsMissed
<1>1. Init => TInv /\ LifeInv /\ RowInv
  BY TInvInit, LifeInit, RowsInit
<1>2. TInv /\ LifeInv /\ RowInv /\ [Next]_vars => (TInv /\ LifeInv /\ RowInv)'
  BY TInvNext, LifeNext, RowsNext
<1>3. RowInv => OnlyWindowIsMissed
  BY WholeAccounts DEF OnlyWindowIsMissed
<1> QED
  BY <1>1, <1>2, <1>3, PTL DEF Spec
-----------------------------------------------------------------------------
(* A CREATE that fails finds nothing of another's, whatever the sessions    *)

\* CREATE has its view in hand to its end.
Steady(s) ==
    session[s] # Idle /\ session[s].op \in {"create", "replace"} /\ ~session[s].undo /\ Scripts(s) # <<>> =>
        Scripts(s)[Len(Scripts(s))] = Do("annotate", session[s].view)

\* A CREATE without OR REPLACE that has not failed.
Asks(s) == session[s] # Idle /\ session[s].op = "create" /\ ~session[s].undo

\* It drops nothing, and is about one view.
Direct(s) ==
    Asks(s) =>
        /\ Shaped(Scripts(s))
        /\ \A x \in ToSet(Scripts(s)) :
              x.do \in Making /\ (x.of \in Views => x.of = session[s].view)

\* Until it publishes a view that is its alone, no such view is published with
\* its stored table; nor without, once it has got past its check.
Clean(s) ==
    Asks(s) /\ session[s].view \notin disputed /\ Do("publish", session[s].view) \in ToSet(Scripts(s)) =>
        /\ session[s].view \in published => data[session[s].view] = Absent
        /\ Do("duplicate", session[s].view) \notin ToSet(Scripts(s)) => session[s].view \notin published

\* Two sessions are not at work on a view that is not disputed.
Contested ==
    \A r, s \in Sessions : \A v \in Views : r # s /\ Mentions(r, v) /\ Mentions(s, v) => v \in disputed

Sparing(s) == Steady(s) /\ Direct(s) /\ Clean(s)
SpareInv == (\A s \in Sessions : Sparing(s)) /\ Contested

\* What a step that is not about v may do to it.
Spared(v) ==
    /\ v \in published' => v \in published
    /\ data[v] = Absent => data'[v] = Absent

\* Scripts are about what their statements are about.
LEMMA AboutOK == \A q, v : IsAbout(q, v) <=> \E x \in ToSet(q) : x.of = v
  BY DEF IsAbout, ToSet

\* What a session is at survives the steps of others.
LEMMA SparingStill ==
    ASSUME TInv, NEW s \in Sessions, Sparing(s), session'[s] = session[s], disputed \subseteq disputed',
           Asks(s) /\ session[s].view \notin disputed' /\ Do("publish", session[s].view) \in ToSet(Scripts(s)) =>
              Spared(session[s].view)
    PROVE  Sparing(s)'
<1>1. Scripts(s)' = Scripts(s) /\ (Asks(s)' <=> Asks(s))
  BY DEF Scripts, Asks
<1>2. Steady(s)'
  BY <1>1 DEF Sparing, Steady
<1>3. Direct(s)'
  BY <1>1 DEF Sparing, Direct, Asks, Shaped, CreatesLast, PublishesLast, LocksFirst
<1>4. Clean(s)'
  BY <1>1 DEF Sparing, Clean, Asks, Spared
<1> QED
  BY <1>2, <1>3, <1>4 DEF Sparing

\* A step of one session, that is about no other view than its script is, or
\* that disputes it.
LEMMA SpareMoves ==
    ASSUME TInv, SpareInv, NEW s \in Sessions, \A r \in Sessions \ {s} : session'[r] = session[r],
           disputed \subseteq disputed',
           \A v \in Views : Mentions(s, v)' =>
              Mentions(s, v) \/ \A r \in Sessions \ {s} : Mentions(r, v) => v \in disputed',
           \A v \in Views : ~Mentions(s, v) => Spared(v),
           Sparing(s)'
    PROVE  SpareInv'
<1>1. \A r \in Sessions \ {s} : Scripts(r)' = Scripts(r)
  BY DEF Scripts
<1>2. \A r \in Sessions \ {s} : \A v : Mentions(r, v)' <=> Mentions(r, v)
  BY <1>1 DEF Mentions, IsAbout
<1>3. ASSUME NEW r \in Sessions \ {s} PROVE Sparing(r)'
  <2>1. ASSUME Asks(r), session[r].view \notin disputed', Do("publish", session[r].view) \in ToSet(Scripts(r))
        PROVE  Spared(session[r].view)
    <3>1. session[r].view \in Views
      BY <2>1 DEF Asks, TInv, Holding
    <3>2. Mentions(r, session[r].view)
      BY <2>1, AboutOK, DoOK DEF Mentions
    <3>3. ~Mentions(s, session[r].view)
      BY <2>1, <3>1, <3>2 DEF SpareInv, Contested
    <3> QED
      BY <3>1, <3>3
  <2>2. Sparing(r) /\ session'[r] = session[r]
    BY DEF SpareInv
  <2> QED
    BY <2>1, <2>2, SparingStill
<1>4. ASSUME NEW r \in Sessions \ {s}, NEW v \in Views, Mentions(r, v)', Mentions(s, v)'
      PROVE  v \in disputed'
  BY <1>2, <1>4 DEF SpareInv, Contested
<1>5. ASSUME NEW r \in Sessions \ {s}, NEW q \in Sessions \ {s}, NEW v \in Views, r # q,
             Mentions(r, v)', Mentions(q, v)'
      PROVE  v \in disputed'
  BY <1>2, <1>5 DEF SpareInv, Contested
<1>6. Contested'
  BY <1>4, <1>5 DEF Contested
<1> QED
  BY <1>3, <1>6 DEF SpareInv

\* What is left of a script keeps its last statement.
LEMMA LastOK ==
    ASSUME NEW S, NEW q \in Seq(S), q # <<>>, Tail(q) # <<>>
    PROVE  Tail(q)[Len(Tail(q))] = q[Len(q)]
<1>1. /\ Len(q) \in Nat /\ Len(Tail(q)) = Len(q) - 1 /\ Tail(q) \in Seq(S)
      /\ \A i \in 1 .. Len(q) - 1 : Tail(q)[i] = q[i + 1]
  BY TailOK
<1>2. Len(Tail(q)) \in Nat /\ Len(Tail(q)) # 0
  BY <1>1
<1>3. Len(q) - 1 \in 1 .. Len(q) - 1 /\ (Len(q) - 1) + 1 = Len(q)
  BY <1>1, <1>2
<1> QED
  BY <1>1, <1>3

\* A statement has been executed, or passed over.
LEMMA SpareAdvance ==
    ASSUME TInv, SpareInv, NEW s \in Sessions, session[s] # Idle, session[s].script # <<>>, Advance(s),
           disputed' = disputed,
           \A v \in Views : v # Of(s) => Spared(v),
           Head(session[s].script).do # "publish" => published' \subseteq published,
           Head(session[s].script).do # "load" => \A v \in Views : data[v] = Absent => data'[v] = Absent,
           Asks(s) /\ Head(session[s].script).do = "duplicate" => Of(s) \notin published
    PROVE  SpareInv'
<1> DEFINE q == session[s].script
           w == Head(q).do
           u == Of(s)
           v == session[s].view
<1>1. /\ q \in Seq(Items) /\ q # <<>> /\ Scripts(s) = q /\ Tail(q) \in Seq(Items)
      /\ ToSet(q) = {Do(w, u)} \union ToSet(Tail(q))
      /\ w \notin TableWords => u \in Views
  BY HeadOK
<1>2. /\ Scripts(s)' = Tail(q) /\ session'[s] # Idle /\ session'[s].op = session[s].op
      /\ session'[s].view = v /\ session'[s].undo = session[s].undo
      /\ \A r \in Sessions \ {s} : session'[r] = session[r]
  <2>1. session' = [session EXCEPT ![s].script = Tail(q)]
    BY DEF Advance
  <2> HIDE DEF q
  <2> QED
    BY <1>1, <2>1, Rescripted
<1>3. Sparing(s)
  BY DEF SpareInv
<1>4. Steady(s)'
  BY <1>1, <1>2, <1>3, LastOK DEF Sparing, Steady
<1> HIDE DEF q, w, v
<1>5. Asks(s)' <=> Asks(s)
  BY <1>2 DEF Asks
<1>6. ASSUME Asks(s)
      PROVE  /\ Shaped(q) /\ \A x \in ToSet(q) : x.do \in Making /\ (x.of \in Views => x.of = v)
             /\ Shaped(Tail(q))
             /\ w \in CreateWords => \A x \in ToSet(q) : x.do \in CreateWords
             /\ w = "publish" => \A x \in ToSet(Tail(q)) : x.do = "annotate"
  <2>1. Shaped(q) /\ \A x \in ToSet(q) : x.do \in Making /\ (x.of \in Views => x.of = v)
    BY <1>1, <1>3, <1>6 DEF Sparing, Direct, v
  <2> QED
    BY <1>1, <2>1, ShapedTail DEF w
<1>7. Direct(s)'
  <2> SUFFICES ASSUME Asks(s)
               PROVE  /\ Shaped(Scripts(s)')
                      /\ \A x \in ToSet(Scripts(s)') : x.do \in Making /\ (x.of \in Views => x.of = v)
    BY <1>2, <1>5 DEF Direct, Shaped, CreatesLast, PublishesLast, LocksFirst
  <2> QED
    BY <1>1, <1>2, <1>6
<1>8. Clean(s)'
  <2> SUFFICES ASSUME Asks(s), v \notin disputed, Do("publish", v) \in ToSet(Tail(q))
               PROVE  /\ v \in published' => data'[v] = Absent
                      /\ Do("duplicate", v) \notin ToSet(Tail(q)) => v \notin published'
    BY <1>2, <1>5 DEF Clean
  <2>1. /\ v \in published => data[v] = Absent
        /\ Do("duplicate", v) \notin ToSet(q) => v \notin published
    BY <1>1, <1>3 DEF Sparing, Clean, v
  <2>2. w # "publish" /\ published' \subseteq published
    BY <1>6, DoOK DEF w, q
  <2>3. Do(w, u) \in ToSet(q) /\ Do(w, u).of = u /\ v \in Views
    BY <1>1, DoOK DEF Asks, TInv, Holding, v
  <2>4. CASE w = "load"
    <3>1. \A x \in ToSet(q) : x.do \in CreateWords
      BY <1>6, <2>4 DEF CreateWords
    <3>2. Do("duplicate", v) \notin ToSet(q)
      BY <3>1, DoOK DEF CreateWords
    <3> QED
      BY <2>1, <2>2, <3>2
  <2>5. CASE w # "load"
    <3>1. data[v] = Absent => data'[v] = Absent
      BY <2>3, <2>5 DEF w, q
    <3>2. CASE Do("duplicate", v) \in ToSet(q) /\ Do("duplicate", v) \notin ToSet(Tail(q))
      <4>1. w = "duplicate" /\ u = v
        BY <1>1, <3>2, DoOK
      <4>2. v \notin published
        BY <4>1 DEF w, q
      <4> QED
        BY <2>2, <4>2
    <3>3. CASE Do("duplicate", v) \notin ToSet(q)
      BY <2>1, <2>2, <3>3
    <3>4. CASE Do("duplicate", v) \in ToSet(Tail(q))
      BY <2>1, <2>2, <3>1, <3>4
    <3> QED
      BY <3>2, <3>3, <3>4
  <2> QED
    BY <2>4, <2>5
<1>9. Sparing(s)'
  BY <1>4, <1>7, <1>8 DEF Sparing
<1>10. \A x : (Mentions(s, x)' => Mentions(s, x)) /\ (~Mentions(s, x) => x # u)
  BY <1>1, <1>2, AboutOK, DoOK DEF Mentions
<1> QED
  BY <1>2, <1>9, <1>10, SpareMoves DEF u

\* Something else has come before the next statement: not of such a CREATE.
LEMMA SparePrepend ==
    ASSUME TInv, SpareInv, NEW s \in Sessions, session[s] # Idle, session[s].script # <<>>,
           Of(s) \in Views, Head(session[s].script).do \notin Making, NEW p \in Seq(Items),
           \A x \in ToSet(p) : x.of = Of(s) \/ x.of \in Tables,
           session' = [session EXCEPT ![s].script = p \o Tail(session[s].script)],
           UNCHANGED <<published, data, disputed>>
    PROVE  SpareInv'
<1> DEFINE q == session[s].script
           t == Tail(q)
           w == Head(q).do
           v == session[s].view
<1>1. /\ q \in Seq(Items) /\ q # <<>> /\ Scripts(s) = q /\ t \in Seq(Items)
      /\ ToSet(q) = {Do(w, Of(s))} \union ToSet(t) /\ Head(q) = Do(w, Of(s))
  BY HeadOK
<1>2. /\ p \o t \in Seq(Items) /\ ToSet(p \o t) = ToSet(p) \union ToSet(t)
      /\ Len(p \o t) = Len(p) + Len(t) /\ Len(p) \in Nat /\ Len(t) \in Nat
      /\ \A i \in 1 .. Len(t) : (p \o t)[Len(p) + i] = t[i]
  <2> HIDE DEF t
  <2> QED
    BY <1>1, ConcatOK
<1>3. /\ Scripts(s)' = p \o t /\ session'[s] # Idle /\ session'[s].op = session[s].op
      /\ session'[s].view = v /\ session'[s].undo = session[s].undo
      /\ \A r \in Sessions \ {s} : session'[r] = session[r]
  <2>1. session' = [session EXCEPT ![s].script = p \o t]
    OBVIOUS
  <2> HIDE DEF t
  <2> QED
    BY <1>2, <2>1, Rescripted
<1>4. Sparing(s)
  BY DEF SpareInv
<1>5. ~Asks(s)
  BY <1>1, <1>4, DoOK DEF Sparing, Direct
<1>6. Direct(s)' /\ Clean(s)'
  BY <1>3, <1>5 DEF Direct, Clean, Asks
<1>7. Steady(s)'
  <2> SUFFICES ASSUME session[s].op \in {"create", "replace"}, ~session[s].undo
               PROVE  (p \o t)[Len(p \o t)] = Do("annotate", v)
    BY <1>3 DEF Steady
  <2>1. q[Len(q)] = Do("annotate", v)
    BY <1>1, <1>4 DEF Sparing, Steady
  <2>2. t # <<>>
    <3> SUFFICES ASSUME t = <<>> PROVE FALSE
      OBVIOUS
    <3>1. Len(q) = 1 /\ Head(q) = q[1]
      <4>1. q \in Seq(Items) /\ q # <<>> /\ Len(t) = 0
        BY <1>1
      <4> HIDE DEF q
      <4>2. Len(q) \in Nat /\ Len(Tail(q)) = Len(q) - 1 /\ Head(q) = q[1]
        BY <4>1, TailOK
      <4> QED
        BY <4>1, <4>2
    <3>2. w = "annotate"
      BY <1>1, <2>1, <3>1, DoOK
    <3> QED
      BY <3>2 DEF Making, CreateWords
  <2>3. t[Len(t)] = Do("annotate", v) /\ Len(t) \in 1 .. Len(t)
    BY <1>1, <1>2, <2>1, <2>2, LastOK
  <2> QED
    BY <1>2, <2>3
<1>8. Sparing(s)'
  BY <1>6, <1>7 DEF Sparing
<1> HIDE DEF q, t, w, v
<1>9. \A x \in Views : Mentions(s, x)' => Mentions(s, x)
  BY <1>1, <1>2, <1>3, AboutOK, DoOK, SourcesAssumption DEF Mentions
<1>10. \A x \in Views : Spared(x)
  BY DEF Spared
<1> QED
  BY <1>3, <1>8, <1>9, <1>10, SpareMoves

\* A session begins a script: what it shares with others is disputed.
LEMMA SpareStart ==
    ASSUME TInv, SpareInv, NEW s \in Sessions,
           NEW op \in {"create", "replace", "drop", "cascade"},
           NEW v \in Views \union {Idle}, op \in {"create", "replace"} => v \in Views,
           NEW q \in Seq(Items), \A x \in ToSet(q) : x.do # "unlock", Start(s, op, v, q),
           op \in {"create", "replace"} => q[Len(q)] = Do("annotate", v),
           op = "create" =>
              /\ Shaped(q) /\ \A x \in ToSet(q) : x.do \in Making /\ (x.of \in Views => x.of = v)
              /\ data[v] = Absent /\ Do("duplicate", v) \in ToSet(q)
    PROVE  SpareInv'
<1>1. /\ Scripts(s)' = q /\ session'[s] # Idle
      /\ session'[s].op = op /\ session'[s].view = v /\ ~session'[s].undo
  BY HoldingStart
<1>2. /\ UNCHANGED <<published, data>>
      /\ disputed' = disputed \union {x \in Views : IsAbout(q, x) /\ \E r \in Sessions : Mentions(r, x)}
      /\ \A r \in Sessions \ {s} : session'[r] = session[r]
  BY DEF Start, objects, catalog, TInv, Holding
<1>3. Steady(s)'
  BY <1>1 DEF Steady
<1>4. Direct(s)'
  BY <1>1 DEF Direct, Asks, Shaped, CreatesLast, PublishesLast, LocksFirst
<1>5. Clean(s)'
  BY <1>1, <1>2 DEF Clean, Asks
<1>6. \A x \in Views : Mentions(s, x)' => \A r \in Sessions \ {s} : Mentions(r, x) => x \in disputed'
  BY <1>1, <1>2 DEF Mentions, IsAbout
<1>7. \A x \in Views : Spared(x)
  BY <1>2 DEF Spared
<1>8. Sparing(s)'
  BY <1>3, <1>4, <1>5 DEF Sparing
<1>9. disputed \subseteq disputed'
  BY <1>2
<1> QED
  BY <1>2, <1>6, <1>7, <1>8, <1>9, SpareMoves

\* The four statements.
LEMMA SpareStarts ==
    ASSUME TInv, SpareInv, NEW s \in Sessions,
           \/ \E v \in Views : CreateView(s, v) \/ ReplaceView(s, v) \/ DropView(s, v)
           \/ \E t \in Tables : DropTable(s, t)
    PROVE  SpareInv'
<1>1. ASSUME NEW v \in Views, NEW replace \in BOOLEAN,
             (replace => ReplaceView(s, v)) /\ (~replace => CreateView(s, v))
      PROVE  SpareInv'
  <2> DEFINE q == CreateScript(v, replace)
             op == IF replace THEN "replace" ELSE "create"
  <2>1. Start(s, op, v, q) /\ (~replace => data[v] = Absent)
    BY <1>1 DEF CreateView, ReplaceView, RelationExists
  <2>2. /\ q \in Seq(Items) /\ Shaped(q) /\ q[Len(q)] = Do("annotate", v)
        /\ ToSet(q) = Preparing(v, replace) \union Creating1(v) \union Publishing(v)
    BY CreateOK
  <2>3. op \in {"create", "replace", "drop", "cascade"} /\ (op = "create" => ~replace)
    OBVIOUS
  <2> HIDE DEF q, op
  <2>4. /\ \A x \in Preparing(v, replace) : x.of = v /\ x.do # "unlock"
        /\ \A x \in Creating1(v) : x.do \in Making \ {"unlock"}
        /\ \A x \in Publishing(v) : x.of = v /\ x.do \in Making \ {"unlock"}
    BY CreatesOK DEF Making, CreateWords
  <2>5. \A x \in Creating1(v) : x.of \in Views => x.of = v
    <3>1. \A x \in {Do("create_delta", t) : t \in Sources[v]} : x.of \notin Views
      BY DoOK, SourcesAssumption
    <3>2. \A a : Do(a, v).of = v
      BY DoOK
    <3> QED
      BY <3>1, <3>2 DEF Creating1
  <2>6. ~replace => /\ \A x \in Preparing(v, replace) : x.do \in Making
                    /\ Do("duplicate", v) \in Preparing(v, replace)
    BY DoOK DEF Preparing, Making
  <2>7. op = "create" =>
              /\ \A x \in ToSet(q) : x.do \in Making /\ (x.of \in Views => x.of = v)
              /\ data[v] = Absent /\ Do("duplicate", v) \in ToSet(q)
    BY <2>1, <2>2, <2>3, <2>4, <2>5, <2>6
  <2>8. \A x \in ToSet(q) : x.do # "unlock"
    BY <2>2, <2>4
  <2> QED
    BY <2>1, <2>2, <2>3, <2>7, <2>8, SpareStart
<1>2. ASSUME NEW v \in Views, CreateView(s, v) PROVE SpareInv'
  <2>1. (FALSE => ReplaceView(s, v)) /\ (~FALSE => CreateView(s, v)) /\ FALSE \in BOOLEAN
    BY <1>2
  <2> QED
    BY <1>1, <2>1
<1>3. ASSUME NEW v \in Views, ReplaceView(s, v) PROVE SpareInv'
  <2>1. (TRUE => ReplaceView(s, v)) /\ (~TRUE => CreateView(s, v)) /\ TRUE \in BOOLEAN
    BY <1>3
  <2> QED
    BY <1>1, <2>1
<1>4. ASSUME NEW v \in Views, DropView(s, v) PROVE SpareInv'
  <2> DEFINE q == <<Do("drop_view", v)>>
  <2>1. Do("drop_view", v) \in Items
    BY DoOK DEF ViewWords
  <2>2. q \in Seq(Items) /\ ToSet(q) = {Do("drop_view", v)}
    BY <2>1, WordsOK
  <2>3. Start(s, "drop", v, q)
    BY <1>4 DEF DropView
  <2> HIDE DEF q
  <2>4. \A x \in ToSet(q) : x.do # "unlock"
    BY <2>2, DoOK
  <2> QED
    BY <2>2, <2>3, <2>4, SpareStart
<1>5. ASSUME NEW t \in Tables, DropTable(s, t) PROVE SpareInv'
  <2> DEFINE q == CascadeScript(t)
  <2>1. /\ q \in Seq(Items)
        /\ ToSet(q) = {Do("lock_dependent", v) : v \in {u \in Views : t \in SourcesOf(u)}}
                        \union {Do("drop_base", t)}
    BY CascadeOK
  <2>2. Start(s, "cascade", Idle, q)
    BY <1>5 DEF DropTable
  <2> HIDE DEF q
  <2>3. \A x \in ToSet(q) : x.do # "unlock"
    BY <2>1, DoOK
  <2> QED
    BY <2>1, <2>2, <2>3, SpareStart
<1> QED
  BY <1>2, <1>3, <1>4, <1>5

\* A CREATE that fails is still about its view, and asks for nothing more.
LEMMA SpareFail ==
    ASSUME TInv, SpareInv, NEW s \in Sessions, FailCreate(s)
    PROVE  SpareInv'
<1> DEFINE v == session[s].view
           q == CleanupScript(v)
<1>1. /\ session[s] # Idle /\ session[s].op \in {"create", "replace"} /\ ~session[s].undo
      /\ session[s].script # <<>>
      /\ session' = [session EXCEPT ![s].undo = TRUE, ![s].script = q]
      /\ UNCHANGED <<published, data, disputed>>
  BY DEF FailCreate, Creating, objects, catalog, ghosts
<1>2. v \in Views /\ session[s] \in Jobs /\ Scripts(s) = session[s].script /\ Scripts(s) \in Seq(Items)
  BY <1>1, HeadOK
<1>3. q \in Seq(Items) /\ ToSet(q) = Dropping(v) \union {Do("drop_view", v)}
  BY <1>2, CleanupOK
<1> HIDE DEF q
<1>4. session'[s] = [session[s] EXCEPT !.undo = TRUE, !.script = q]
  BY <1>1 DEF TInv, Holding
<1>5. /\ session'[s] \in Jobs /\ session'[s].undo /\ session'[s].script = q
      /\ \A r \in Sessions \ {s} : session'[r] = session[r]
  <2>1. session \in [Sessions -> {Idle} \union Jobs]
    BY DEF TInv, Holding
  <2>2. \A r \in Sessions \ {s} : session'[r] = session[r]
    BY <1>1, <2>1
  <2>3. session'[s] \in Jobs /\ session'[s].undo /\ session'[s].script = q
    BY <1>2, <1>3, <1>4 DEF Jobs
  <2> QED
    BY <2>2, <2>3
<1>6. Scripts(s)' = q
  BY <1>5, NamesOK DEF Scripts, TInv
<1>7. Sparing(s)'
  BY <1>5 DEF Sparing, Steady, Direct, Clean, Asks
<1>8. Mentions(s, v)
  <2>1. Scripts(s)[Len(Scripts(s))] = Do("annotate", v) /\ Scripts(s) # <<>>
    BY <1>1, <1>2 DEF SpareInv, Sparing, Steady
  <2>2. Len(Scripts(s)) \in DOMAIN Scripts(s)
    BY <1>2, <2>1
  <2> QED
    BY <2>1, <2>2, DoOK DEF Mentions, IsAbout
<1>9. \A x : Mentions(s, x)' => x = v
  BY <1>3, <1>6, AboutOK, DoOK DEF Mentions, Dropping
<1>10. \A x \in Views : Spared(x)
  BY <1>1 DEF Spared
<1> QED
  BY <1>1, <1>5, <1>7, <1>8, <1>9, <1>10, SpareMoves

\* A script that is done.
LEMMA SpareFinish ==
    ASSUME TInv, SpareInv, NEW s \in Sessions, Finish(s)
    PROVE  SpareInv'
<1>1. /\ session' = [session EXCEPT ![s] = Idle] /\ UNCHANGED <<published, data, disputed>>
  BY DEF Finish, objects, catalog, ghosts
<1>2. session'[s] = Idle /\ \A r \in Sessions \ {s} : session'[r] = session[r]
  BY <1>1 DEF TInv, Holding
<1>3. Sparing(s)'
  BY <1>2 DEF Sparing, Steady, Direct, Clean, Asks
<1>4. \A x : ~Mentions(s, x)'
  BY <1>2 DEF Mentions, IsAbout, Scripts
<1>5. \A x \in Views : Spared(x)
  BY <1>1 DEF Spared
<1> QED
  BY <1>1, <1>2, <1>3, <1>4, <1>5, SpareMoves

\* Steps of no session, and the death of the process.
LEMMA SpareStill ==
    ASSUME TInv, SpareInv, session' = session, disputed' = disputed, \A v \in Views : Spared(v)
    PROVE  SpareInv'
<1>1. \A s \in Sessions : Scripts(s)' = Scripts(s)
  BY DEF Scripts
<1>2. ASSUME NEW s \in Sessions PROVE Sparing(s)'
  <2>1. Asks(s) => session[s].view \in Views
    BY DEF Asks, TInv, Holding
  <2> QED
    BY <2>1, SparingStill DEF SpareInv
<1>3. Contested'
  BY <1>1 DEF SpareInv, Contested, Mentions, IsAbout
<1> QED
  BY <1>2, <1>3 DEF SpareInv

LEMMA SpareCrash == Crash => SpareInv'
<1> SUFFICES ASSUME Crash PROVE SpareInv'
  OBVIOUS
<1>1. \A s \in Sessions : session'[s] = Idle
  BY DEF Crash
<1>2. \A s \in Sessions : Sparing(s)'
  BY <1>1 DEF Sparing, Steady, Direct, Clean, Asks
<1>3. \A s \in Sessions : \A x : ~Mentions(s, x)'
  BY <1>1 DEF Mentions, IsAbout, Scripts
<1> QED
  BY <1>2, <1>3 DEF SpareInv, Contested


\* The statements that take a script one further.
LEMMA SpareStatement ==
    ASSUME TInv, SpareInv, NEW s \in Sessions,
           \/ DropStale(s) \/ CheckDuplicate(s) \/ Load(s) \/ ShowView(s) \/ CreateSourceDelta(s)
           \/ CreateViewDelta(s) \/ Register(s) \/ Publish(s) \/ Annotate(s) \/ HideView(s)
           \/ DropData(s) \/ DropViewDelta(s) \/ DropCursors(s) \/ Unpublish(s)
           \/ DropSourceDelta(s) \/ DropBase(s) \/ UnlockView(s)
    PROVE  SpareInv'
<1> DEFINE w == Head(session[s].script).do
<1>1. /\ session[s] # Idle /\ session[s].script # <<>> /\ Advance(s) /\ disputed' = disputed
  BY DEF DropStale, CheckDuplicate, Load, ShowView, CreateSourceDelta, CreateViewDelta, Register,
         Publish, Annotate, HideView, DropData, DropViewDelta, DropCursors, Unpublish,
         DropSourceDelta, DropBase, UnlockView, Statement, Current, ghosts
<1>2. data \in [Views -> Stored]
  BY DEF TInv, Storing
<1>3. /\ w = "publish" => published' = published \union {Of(s)}
      /\ w # "publish" => published' \subseteq published /\ published \ {Of(s)} \subseteq published'
  BY DEF DropStale, CheckDuplicate, Load, ShowView, CreateSourceDelta, CreateViewDelta, Register,
         Publish, Annotate, HideView, DropData, DropViewDelta, DropCursors, Unpublish,
         DropSourceDelta, DropBase, UnlockView, Statement, Current, catalog
<1>4. \/ w = "load" /\ data' = [data EXCEPT ![Of(s)] = Written(Of(s))]
      \/ w # "load" /\ data' = [data EXCEPT ![Of(s)] = Absent]
      \/ data' = data
  BY DEF DropStale, CheckDuplicate, Load, ShowView, CreateSourceDelta, CreateViewDelta, Register,
         Publish, Annotate, HideView, DropData, DropViewDelta, DropCursors, Unpublish,
         DropSourceDelta, DropBase, UnlockView, Statement, Current, objects
<1>5. w = "duplicate" => Of(s) \notin published
  BY DEF DropStale, CheckDuplicate, Load, ShowView, CreateSourceDelta, CreateViewDelta, Register,
         Publish, Annotate, HideView, DropData, DropViewDelta, DropCursors, Unpublish,
         DropSourceDelta, DropBase, UnlockView, Statement, Current, Refused
<1> HIDE DEF w
<1>6. \A v \in Views : v # Of(s) => Spared(v)
  BY <1>2, <1>3, <1>4 DEF Spared
<1>7. w # "load" => \A v \in Views : data[v] = Absent => data'[v] = Absent
  BY <1>2, <1>4
<1> QED
  BY <1>1, <1>3, <1>5, <1>6, <1>7, SpareAdvance DEF w

\* What the rule puts first, and what waits for a mutex.
LEMMA SpareRule ==
    ASSUME TInv, SpareInv, NEW s \in Sessions, Intercept(s) \/ LockView(s)
    PROVE  SpareInv'
<1>1. UNCHANGED <<published, data, disputed>>
  BY DEF Intercept, LockView, objects, catalog, ghosts
<1>2. CASE Intercept(s)
  <2> DEFINE l == <<"lock", "hide">>
             p == OnView(Of(s), l)
  <2>1. /\ session[s] # Idle /\ session[s].script # <<>> /\ Head(session[s].script).do = "drop_view"
        /\ session' = [session EXCEPT ![s].script = p \o Tail(session[s].script)]
    BY <1>2 DEF Intercept, Current, Prepend
  <2>2. Of(s) \in Views
    BY <2>1, HeadOK DEF TableWords
  <2>3. l \in Seq(ViewWords)
    BY DEF ViewWords
  <2>4. ToSet(p) = {Do("lock", Of(s)), Do("hide", Of(s))}
    BY WordsOK
  <2> HIDE DEF l
  <2>5. p \in Seq(Items)
    <3>1. OnView(Of(s), l) \in Seq({Do(x, Of(s)) : x \in ViewWords})
      BY <2>3, OnViewOK
    <3>2. {Do(x, Of(s)) : x \in ViewWords} \subseteq Items
      BY <2>2, DoOK
    <3> QED
      BY <3>1, <3>2, Wider
  <2>6. \A x \in ToSet(p) : x.of = Of(s) \/ x.of \in Tables
    BY <2>4, DoOK
  <2>7. Head(session[s].script).do \notin Making
    BY <2>1 DEF Making, CreateWords
  <2> HIDE DEF p
  <2> QED
    BY <1>1, <2>1, <2>2, <2>5, <2>6, <2>7, SparePrepend
<1>3. CASE LockView(s)
  <2>1. PICK p \in Seq(Items) :
              /\ session[s] # Idle /\ session[s].script # <<>> /\ Of(s) \in Views
              /\ Head(session[s].script).do \in {"lock", "lock_dependent"}
              /\ session' = [session EXCEPT ![s].script = p \o Tail(session[s].script)]
              /\ Head(session[s].script).do = "lock" =>
                    ToSet(p) = Dropping(Of(s)) \union {Do("unlock", Of(s))}
                                    \union {Do("drop_delta", t) : t \in SourcesOf(Of(s))}
              /\ Head(session[s].script).do = "lock_dependent" =>
                    ToSet(p) = Dropping(Of(s)) \union {Do("drop_view", Of(s)), Do("unlock", Of(s))}
                                    \union {Do("drop_delta", t) : t \in SourcesOf(Of(s))}
    BY <1>3, LockedScript
  <2>2. \A x \in Dropping(Of(s)) : x.of = Of(s)
    BY DoOK DEF Dropping
  <2>3. \A x \in {Do("drop_delta", t) : t \in SourcesOf(Of(s))} : x.of \in Tables
    <3>1. \A t \in SourcesOf(Of(s)) : t \in Tables
      BY DEF SourcesOf
    <3>2. \A t : Do("drop_delta", t).of = t
      BY DoOK
    <3> QED
      BY <3>1, <3>2
  <2>4. \A x \in ToSet(p) : x.of = Of(s) \/ x.of \in Tables
    BY <2>1, <2>2, <2>3, DoOK
  <2>5. Head(session[s].script).do \notin Making
    BY <2>1 DEF Making, CreateWords
  <2> QED
    BY <1>1, <2>1, <2>4, <2>5, SparePrepend
<1> QED
  BY <1>2, <1>3

\* A statement that is passed over is not of a CREATE that has not failed.
LEMMA SparePassOver ==
    ASSUME TInv, SpareInv, NEW s \in Sessions, PassOver(s)
    PROVE  SpareInv'
<1>1. /\ session[s] # Idle /\ session[s].script # <<>> /\ Advance(s) /\ ~Creating(s)
      /\ UNCHANGED <<published, data, disputed>>
  BY DEF PassOver, objects, catalog
<1>2. ~Asks(s)
  <2> SUFFICES ASSUME Asks(s) PROVE FALSE
    OBVIOUS
  <2>1. \A x \in ToSet(Scripts(s)) : x.do \in Making
    BY DEF SpareInv, Sparing, Direct
  <2>2. Scripts(s) = session[s].script
    BY <1>1 DEF Scripts
  <2>3. ~InRule(s)
    BY <2>1, <2>2 DEF InRule, ToSet, Making, CreateWords
  <2> QED
    BY <1>1, <2>3 DEF Creating, Asks
<1>3. \A v \in Views : Spared(v)
  BY <1>1 DEF Spared
<1> QED
  BY <1>1, <1>2, <1>3, SpareAdvance

\* Writers, refreshes, and steps that change nothing.
LEMMA SpareOthers ==
    ASSUME TInv, SpareInv,
           \/ \E w \in Writers : CommitWrite(w) \/ \E t \in Tables : Capture(w, t)
           \/ \E v \in Views : BeginRefresh(v) \/ EndRefresh(v)
           \/ UNCHANGED vars
    PROVE  SpareInv'
<1>1. session' = session /\ disputed' = disputed /\ published' = published
  BY DEF CommitWrite, Capture, BeginRefresh, EndRefresh, vars, catalog, ghosts
<1>2. \A v \in Views : data[v] = Absent => data'[v] = Absent
  <2>1. CASE UNCHANGED data
    BY <2>1
  <2>2. ASSUME NEW v \in Views, EndRefresh(v)
        PROVE  \A x \in Views : data[x] = Absent => data'[x] = Absent
    <3>1. data[v] # Absent /\ \A x \in Views \ {v} : data'[x] = data[x]
      BY <2>2 DEF EndRefresh, Whole, TInv, Storing
    <3> QED
      BY <3>1
  <2>3. UNCHANGED data \/ \E v \in Views : EndRefresh(v)
    BY DEF CommitWrite, Capture, BeginRefresh, vars, objects
  <2> QED
    BY <2>1, <2>2, <2>3
<1>3. \A v \in Views : Spared(v)
  BY <1>1, <1>2 DEF Spared
<1> QED
  BY <1>1, <1>3, SpareStill

\* At the start no session is at work, and every step keeps to it.
LEMMA SpareInit ==
    ASSUME Init
    PROVE  SpareInv
<1>1. \A s \in Sessions : session[s] = Idle
  BY DEF Init
<1> QED
  BY <1>1 DEF SpareInv, Sparing, Steady, Direct, Clean, Asks, Contested, Mentions, IsAbout, Scripts

LEMMA SpareNext ==
    ASSUME TInv, SpareInv, [Next]_vars
    PROVE  SpareInv'
<1>1. ASSUME NEW s \in Sessions, Step(s) PROVE SpareInv'
  BY <1>1, SpareStatement, SpareRule, SpareFinish DEF Step
<1> QED
  BY <1>1, SpareStarts, SpareFail, SparePassOver, SpareCrash, SpareOthers DEF Next

\* Whatever the sessions, the failures and the crashes: a CREATE that fails
\* before it has published its view, and so is undone by dropping what has that
\* name, finds no other of that name published with its stored table.  What
\* CREATE looked for when it was issued has not come since: a session that has
\* made it was at work on the view beside this one, and the view is disputed.
THEOREM CreateSparesViews == Spec => FailedCreateSparesViews
<1>1. Init => TInv /\ SpareInv
  BY TInvInit, SpareInit
<1>2. TInv /\ SpareInv /\ [Next]_vars => (TInv /\ SpareInv)'
  BY TInvNext, SpareNext
<1>3. TInv /\ SpareInv => \A s \in Sessions : \A v \in Views \ disputed : ~FailsOver(s, v)
  <2> SUFFICES ASSUME TInv, SpareInv, NEW s \in Sessions, NEW v \in Views \ disputed, FailsOver(s, v)
               PROVE  FALSE
    OBVIOUS
  <2>1. /\ session[s] # Idle /\ session[s].op = "create" /\ ~session[s].undo
        /\ session[s].view = v /\ v \in published /\ data[v] # Absent
        /\ Do("publish", v) \in ToSet(session[s].script)
    BY DEF FailsOver, FailCreate, Creating, Range, ToSet
  <2>2. Asks(s) /\ Scripts(s) = session[s].script
    BY <2>1 DEF Asks, Scripts
  <2>3. Clean(s)
    BY DEF SpareInv, Sparing
  <2> QED
    BY <2>1, <2>2, <2>3 DEF Clean
<1>4. TInv /\ SpareInv /\ [Next]_vars
        => [\A s \in Sessions : \A v \in Views \ disputed : ~FailsOver(s, v)]_vars
  BY <1>3
<1> QED
  BY <1>1, <1>2, <1>4, PTL DEF Spec, FailedCreateSparesViews
==============================================================================

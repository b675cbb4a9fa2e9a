----------------------------- MODULE ChainOrder -----------------------------
(***************************************************************************)
(* The order of the providers in the chain: dependencies first.            *)
(*                                                                         *)
(* Identifiers are numbers, compared as the names they stand for.          *)
(***************************************************************************)
EXTENDS Integers, Sequences, SequencesExt, FiniteSets

Provider(id, deps, priority, terminal) ==
    [id |-> id, deps |-> deps, priority |-> priority, terminal |-> terminal]

----------------------------------------------------------------------------
(* Items with the keys they own and the keys they depend on; a key nobody  *)
(* owns is no dependency, nor is one of the item's own.                    *)

graph(keys, deps) ==
    LET owner(key) == {i \in DOMAIN keys : key \in keys[i] /\ \A j \in DOMAIN keys : key \in keys[j] => j <= i}
    IN UNION {{<<dep, i>> : dep \in (UNION {owner(key) : key \in deps[i]}) \ {i}} : i \in DOMAIN keys}

(* Some that all wait for one another.                                     *)
cyclic(edges) ==
    \E S \in (SUBSET {e[1] : e \in edges}) \ {{}} : \A i \in S : \E j \in S : <<j, i>> \in edges

(* The longest way to an item from one that depends on nothing.            *)
compute_depths(n, edges) ==
    LET depth[i \in 1 .. n] ==
            LET above == {depth[e[1]] + 1 : e \in {d \in edges : d[2] = i}} \cup {0}
            IN CHOOSE x \in above : \A y \in above : y <= x
    IN depth

before(a, b, depths, at) ==
    LET key(p) == <<depths[at[p]], p.priority, p.id>>
    IN \E i \in 1 .. 3 : key(a)[i] < key(b)[i] /\ \A k \in 1 .. i - 1 : key(a)[k] = key(b)[k]

(* By depth, priority and name; nothing if some depend on one another.     *)
sort_by_deps(providers) ==
    LET n == Len(providers)
        edges == graph([i \in 1 .. n |-> {providers[i].id}], [i \in 1 .. n |-> providers[i].deps])
        depths == compute_depths(n, edges)
        at == [p \in ToSet(providers) |-> CHOOSE i \in 1 .. n : providers[i] = p]
    IN IF cyclic(edges) THEN <<>>
       ELSE SortSeq(providers, LAMBDA a, b : before(a, b, depths, at))

(* Terminal providers come last, by name, whatever they depend on.         *)
topological_sort(providers) ==
    sort_by_deps(SelectSeq(providers, LAMBDA p : ~p.terminal))
        \o SortSeq(SelectSeq(providers, LAMBDA p : p.terminal), LAMBDA a, b : a.id < b.id)

----------------------------------------------------------------------------
(* Every provider is there once, after what it depends on, and the         *)
(* terminal ones are last; unless there is no such order.                  *)
DependenciesComeFirst(providers) ==
    LET chain == topological_sort(providers)
        regular == {p \in ToSet(providers) : ~p.terminal}
        uses == {u \in regular \X regular : u[1] # u[2] /\ u[2].id \in u[1].deps}
        place(p) == CHOOSE i \in DOMAIN chain : chain[i] = p
    IN IF cyclic(uses) THEN \A i \in DOMAIN chain : chain[i].terminal
       ELSE /\ Len(chain) = Len(providers) /\ ToSet(chain) = ToSet(providers)
            /\ \A u \in uses : place(u[2]) < place(u[1])
            /\ \A i, j \in DOMAIN chain : chain[i].terminal /\ i < j => chain[j].terminal
=============================================================================

------------------------------- MODULE MCReads -------------------------------
(***************************************************************************)
(* Reads and Surf on small instances. They do not share state: a behaviour *)
(* is one of the part it begins with.                                      *)
(***************************************************************************)
EXTENDS Reads

\* A table without conflicts in its index.
Plan(data) == [data |-> data, reset |-> FALSE, useSuRF |-> FALSE, hash |-> [k \in Keys |-> k], near |-> {}]

Tables(datas) == LET used == SelectSeq(datas, LAMBDA d : d # {}) IN [i \in DOMAIN used |-> Plan(used[i])]

\* Versions 1 to 3 of key 2 in memtable 1, the tables 2 and 3 of level 0, and level 1, or nowhere (0);
\* newer versions lie higher.
Places == {p \in [1..3 -> 0..4] : \A v, w \in 1..3 : v < w /\ p[v] # 0 /\ p[w] # 0 => p[w] <= p[v]}

\* The lowest version of a source may also be the highest of the next one.
Below(p) == {[p |-> p, again |-> 0]} \cup
            {[p |-> p, again |-> v] : v \in {v \in 1..3 : p[v] \in 1..3 /\ \A w \in 1..3 : p[w] = p[v] => w >= v}}

Layered ==
    {[pending |-> own,
      mems |-> <<at[1]>>, l0 |-> Tables(<<at[3], at[2]>>), ln |-> <<Tables(<<at[4], {other}>>)>>] :
        own \in {<<>>, <<[key |-> 2, val |-> 9]>>, <<[key |-> 1, val |-> 9], [key |-> 2, val |-> 0]>>},
        other \in {[key |-> 4, ver |-> 1, val |-> 1]},
        at \in {[i \in 1..4 |->
                   {[key |-> 2, ver |-> v, val |-> IF v = dead THEN 0 ELSE 1] :
                       v \in {v \in 1..3 : b.p[v] = i \/ (v = b.again /\ b.p[v] = i - 1)}}
                     \cup (IF i = side THEN {[key |-> 3, ver |-> 2, val |-> 1]} ELSE {})] :
                b \in UNION {Below(p) : p \in Places}, dead \in {0, 2}, side \in {3}}}

\* Level 1 with one table or two, conflicts in the hash index, keys that the filters mistake,
\* and builders that were reset.
Indexed ==
    {[pending |-> <<>>, mems |-> <<>>, l0 |-> <<>>,
      ln |-> <<[i \in DOMAIN Tables(cut) |->
                  [Tables(cut)[i] EXCEPT !.reset = reset, !.useSuRF = surf, !.near = Keys,
                                         !.hash = [k \in Keys |-> k \div by]]]>>] :
        cut \in {<<{d \in data : d.key <= c}, {d \in data : d.key > c}>> :
                   c \in {2, MaxKey},
                   data \in {[key : ks, ver : {2}, val : {1}] \cup [key : ks \cap old, ver : {1}, val : {1}] :
                                ks \in SUBSET Keys \ {{}}, old \in {{}, {2, 4}}}},
        reset \in BOOLEAN, surf \in BOOLEAN, by \in {1, 2}}

MCLayouts == Layered \cup Indexed

MCOptions == [reversed : BOOLEAN, allVersions : BOOLEAN, range : {<<>>}]

-----------------------------------------------------------------------------

VARIABLES
    part,                          \* the part the behaviour is of
    keys, surf, iter, start, near  \* the variables of Surf

Strings == UNION {[1..n -> 0..2] : n \in 0..1} \cup {<<0, x>> : x \in 0..2} \cup {<<2, x>> : x \in 0..2}
           \cup {<<0, 2, x>> : x \in 0..2}

S == INSTANCE Surf WITH Fanout <- 3, Queries <- Strings, ref <- near,
                        KeySets <- UNION {kSubset(n, Strings \ {<<>>}) : n \in 1..4},
                        Options <- {[hash |-> TRUE, real |-> TRUE], [hash |-> FALSE, real |-> FALSE]}

surfVars == <<keys, surf, iter, start, near>>

MCInit ==
    \/ /\ part = "reads" /\ Init
       /\ keys = 0 /\ surf = 0 /\ iter = 0 /\ start = 0 /\ near = 0
    \/ /\ part = "surf" /\ S!Init
       /\ layout = 0 /\ src = 0 /\ it = 0 /\ expected = 0 /\ ref = Unknown

MCNext ==
    /\ part' = part
    /\ \/ part = "reads" /\ Next /\ UNCHANGED surfVars
       \/ part = "surf" /\ S!Next /\ UNCHANGED vars

MCSpec == MCInit /\ [][MCNext]_<<part, vars, surfVars>>

\* SuRF answers for every key of its table and for every range that has one (Surf).
NeverMisses == part = "surf" => S!NeverMisses

\* A seek in SuRF and the steps after it leave out no key (Surf).
SeekExact == part = "surf" => S!SeekExact
=============================================================================

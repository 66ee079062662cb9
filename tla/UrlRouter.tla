------------------------------ MODULE UrlRouter ------------------------------
(* url_router.cc: the trie that maps a URL path to the handler of a route.  *)
(* A node is a value, [data, edges], with its edges in the order of the     *)
(* list; a route or a URL is the sequence of its characters.  The values    *)
(* that match_route() captures for the parameters are left out.             *)
EXTENDS Integers, Sequences, SequencesExt

CONSTANTS
  Route,     \* the routes that may be added
  Url,       \* the paths looked up
  Rank,      \* a total order of the characters, as a function to numbers
  MaxRoutes  \* bound: calls of add_route()

ASSUME MaxRoutesAssumption == MaxRoutes \in Nat

VARIABLES
  m_root_node,
  added,  \* the routes of the calls that returned 0; the data of a route is
          \* its place in the sequence
  called,  \* the routes of all calls
  runaway  \* a call of insert_route() recurses without end

vars == <<m_root_node, added, called, runaway>>

NoData == 0
NewNode == [data |-> NoData, edges |-> <<>>]
Part(type, str) == [type |-> type, str |-> str]

-----------------------------------------------------------------------------
(* convert_path_to_pattern() *)

\* The path starts with a slash and does not end in one.
Sanitized(route) ==
  LET p == IF route # <<>> /\ route[1] = "/" THEN route ELSE <<"/">> \o route
  IN IF Len(p) > 1 /\ Last(p) = "/" THEN Front(p) ELSE p

BadPath == <<Part("NONE", <<>>)>>

RECURSIVE Converted(_, _, _, _)
Converted(path, i, part, pattern) ==
  IF i > Len(path)
  THEN IF part.type = "PARAMETER" THEN BadPath
       ELSE IF part.str = <<>> THEN pattern ELSE Append(pattern, part)
  ELSE LET c == path[i] IN
    CASE c = "<" ->
           IF part.type = "PARAMETER" \/ path[i - 1] # "/" THEN BadPath
           ELSE Converted(path, i + 1, Part("PARAMETER", <<>>), Append(pattern, part))
      [] c = ">" ->
           IF part.type # "PARAMETER" \/ (i < Len(path) /\ path[i + 1] # "/")
           THEN BadPath
           ELSE Converted(path, i + 1, Part("STRING", <<>>), Append(pattern, part))
      [] c = "*" -> pattern \o <<part, Part("TERMINAL", <<>>)>>
      [] OTHER -> Converted(path, i + 1, [part EXCEPT !.str = Append(@, c)], pattern)

convert_path_to_pattern(route) ==
  Converted(Sanitized(route), 1, Part("STRING", <<>>), <<>>)

-----------------------------------------------------------------------------
(* Patterns *)

PartLen(part) ==
  CASE part.type = "PARAMETER" -> 2 + Len(part.str)
    [] part.type = "STRING" -> Len(part.str)
    [] part.type = "TERMINAL" -> 1

pattern_len(pattern) == FoldLeft(LAMBDA n, part : n + PartLen(part), 0, pattern)

string_diff(s, t) == Len(LongestCommonPrefix({s, t}))

\* The length of the prefix two patterns share, -1 if their parts clash.
RECURSIVE pattern_diff(_, _)
pattern_diff(p, q) ==
  IF p = <<>> \/ q = <<>> THEN 0
  ELSE LET d == string_diff(Head(p).str, Head(q).str) IN
    IF d # Len(Head(p).str) \/ d = 0 THEN d
    ELSE IF Head(p).type # Head(q).type THEN -1
    ELSE LET rest == pattern_diff(Tail(p), Tail(q)) IN
         IF rest = -1 THEN -1 ELSE PartLen(Head(p)) + rest

\* pattern_sub() from a part on: off characters are behind, len are taken.
RECURSIVE SubFrom(_, _, _, _, _, _)
SubFrom(pattern, offset, max, found, off, len) ==
  IF pattern = <<>> THEN <<>>
  ELSE
    LET part == Head(pattern)
        mark == IF part.type = "PARAMETER" THEN 1 ELSE 0
        off1 == off + mark
        len1 == IF found THEN len + mark ELSE len
        skip == IF found \/ off1 >= offset THEN 0 ELSE offset - off1
        take == IF len1 >= max \/ skip >= Len(part.str) THEN 0
                ELSE IF Len(part.str) - skip < max - len1 THEN Len(part.str) - skip
                ELSE max - len1
        now == found \/ take > 0
        len2 == len1 + take + (IF now THEN mark ELSE 0)
        out == IF now THEN <<Part(part.type, SubSeq(part.str, skip + 1, skip + take))>>
               ELSE <<>>
    IN IF len2 >= max THEN out
       ELSE out \o SubFrom(Tail(pattern), offset, max, now,
                           off1 + Len(part.str) + mark, len2)

pattern_sub(pattern, offset, max) == SubFrom(pattern, offset, max, offset = 0, 0, 0)

-----------------------------------------------------------------------------
(* Insertion *)

\* find_longest_common_prefix(): the edge with the longest prefix in common,
\* and the length of the prefix in common with the last edge.
find_longest_common_prefix(n, pattern) ==
  LET diff == [i \in DOMAIN n.edges |-> pattern_diff(pattern, n.edges[i].pattern)] IN
  IF \E i \in DOMAIN diff : diff[i] < 0 THEN [status |-> -1, len |-> 0, edge |-> 0]
  ELSE [status |-> 0,
        len |-> IF diff = <<>> THEN 0 ELSE Last(diff),
        edge |-> IF \A i \in DOMAIN diff : diff[i] = 0 THEN 0
                 ELSE CHOOSE i \in DOMAIN diff :
                        /\ \A j \in DOMAIN diff : diff[j] <= diff[i]
                        /\ \A j \in 1..(i - 1) : diff[j] < diff[i]]

RECURSIVE collision_test(_, _)
collision_test(n, pattern) ==
  LET lcp == find_longest_common_prefix(n, pattern) IN
  IF lcp.status # 0 THEN FALSE
  ELSE IF lcp.len = 0 THEN TRUE
  ELSE LET e == n.edges[lcp.edge] IN
    IF lcp.len # pattern_len(e.pattern) THEN TRUE
    ELSE LET sub == pattern_sub(pattern, lcp.len, pattern_len(pattern) - lcp.len) IN
         pattern_len(sub) # 0 /\ collision_test(e.child, sub)

\* Mutant: the data stays at the upper half as well.
BranchKeepsData(e, offset) ==
  [pattern |-> pattern_sub(e.pattern, 0, offset),
   child |-> [data |-> e.child.data,
              edges |->
                <<[pattern |-> pattern_sub(e.pattern, offset, pattern_len(e.pattern)),
                   child |-> e.child]>>]]

\* Mutant: the old child is left behind.
BranchNewChild(e, offset) ==
  [pattern |-> pattern_sub(e.pattern, 0, offset),
   child |-> [NewNode EXCEPT !.edges =
                <<[pattern |-> pattern_sub(e.pattern, offset, pattern_len(e.pattern)),
                   child |-> NewNode]>>]]

\* edge::branch(): a node between the edge's two halves.
branch(e, offset) ==
  [pattern |-> pattern_sub(e.pattern, 0, offset),
   child |-> [NewNode EXCEPT !.edges =
                <<[pattern |-> pattern_sub(e.pattern, offset, pattern_len(e.pattern)),
                   child |-> e.child]>>]]

\* node::connect(): an edge with this very pattern is kept as it is.
connect(n, pattern, data) ==
  IF \E i \in DOMAIN n.edges : n.edges[i].pattern = pattern THEN n
  ELSE [n EXCEPT !.edges = Append(@, [pattern |-> pattern,
                                      child |-> [NewNode EXCEPT !.data = data]])]

\* node::insert_route(): what the node becomes, and whether it succeeded.
\* A level that matches anything shortens the pattern, so that a recursion
\* deeper than the pattern is long does not end.
RECURSIVE insert_route(_, _, _, _)
insert_route(n, pattern, data, depth) ==
  LET lcp == find_longest_common_prefix(n, pattern)
      fail == [ok |-> FALSE, node |-> n, runaway |-> FALSE]
      sub == pattern_sub(pattern, lcp.len, pattern_len(pattern) - lcp.len)
      Below(e) ==
        LET r == insert_route(e.child, sub, data, depth - 1) IN
        [r EXCEPT !.node =
           [n EXCEPT !.edges[lcp.edge] = [e EXCEPT !.child = r.node]]]
  IN IF depth = 0 THEN [fail EXCEPT !.runaway = TRUE]
     ELSE IF ~collision_test(n, pattern) THEN fail
     ELSE IF lcp.len = 0 THEN [fail EXCEPT !.ok = TRUE, !.node = connect(n, pattern, data)]
     ELSE LET e == n.edges[lcp.edge] IN
       CASE lcp.len = pattern_len(e.pattern) -> Below(e)
         [] lcp.len < pattern_len(e.pattern) ->
              IF pattern_len(pattern) = lcp.len
              THEN [fail EXCEPT !.ok = TRUE,
                    !.node = [n EXCEPT !.edges[lcp.edge] =
                                [branch(e, lcp.len) EXCEPT !.child.data = data]]]
              ELSE Below(branch(e, lcp.len))
         [] OTHER -> fail

-----------------------------------------------------------------------------
(* Lookup *)

\* edge::match_route(): the rest of the path after the pattern.
NoMatch == <<"no match">>

RECURSIVE match_route(_, _)
match_route(pattern, path) ==
  IF pattern = <<>> THEN path
  ELSE LET part == Head(pattern) IN
    CASE part.type = "TERMINAL" -> <<>>
      [] part.type = "STRING" ->
           IF IsPrefix(part.str, path)
           THEN match_route(Tail(pattern), SubSeq(path, Len(part.str) + 1, Len(path)))
           ELSE NoMatch
      [] part.type = "PARAMETER" ->
           LET slashes == {i \in DOMAIN path : path[i] = "/"}
               end == IF slashes = {} THEN Len(path) ELSE Min(slashes) - 1
           IN match_route(Tail(pattern), SubSeq(path, end + 1, Len(path)))

\* node::find_route(): the first edge that consumes the path, or leads to a
\* node that does.
RECURSIVE find_route(_, _)
find_route(n, path) ==
  IF n.edges = <<>> THEN NoData
  ELSE LET e == Head(n.edges)
           suffix == match_route(e.pattern, path)
           others == find_route([n EXCEPT !.edges = Tail(@)], path)
       IN IF suffix = NoMatch THEN others
          ELSE IF suffix = <<>> THEN e.child.data
          ELSE LET d == find_route(e.child, suffix) IN
               IF d # NoData THEN d ELSE others

-----------------------------------------------------------------------------
Init == m_root_node = NewNode /\ added = <<>> /\ called = <<>> /\ runaway = FALSE

\* url_router::add_route()
add_route(route) ==
  LET pattern == convert_path_to_pattern(route)
      r == insert_route(m_root_node, pattern, Len(added) + 1, pattern_len(pattern) + 1)
  IN /\ Len(called) < MaxRoutes /\ ~runaway
     /\ called' = Append(called, route)
     /\ IF pattern = BadPath THEN UNCHANGED <<m_root_node, added, runaway>>
        ELSE /\ m_root_node' = r.node
             /\ runaway' = r.runaway
             /\ added' = IF r.ok THEN Append(added, route) ELSE added

Next == \E route \in Route : add_route(route)

Spec == Init /\ [][Next]_vars

-----------------------------------------------------------------------------
(* Properties *)

Found(path) == find_route(m_root_node, path)

\* A route of characters only.
IsStatic(route) == \A c \in {"<", ">", "*"} : ~Contains(route, c)

\* The first letters of two strings, which both have one, are the same.
BeginAlike(s, t) == s # <<>> /\ t # <<>> /\ s[1] = t[1]

\* Two patterns that pattern_diff() confuses, which compares the parts of two
\* patterns one by one although their parts may end in different places.  In
\* the first part that is not the same in both, they have parameters whose
\* names begin alike; or the text of one ends before the text of the other,
\* and its parameter begins like what follows there, in that text or in the
\* other's next part.
Confused(p, q) ==
  \E k \in DOMAIN p \cap DOMAIN q :
    /\ p[k] # q[k] /\ \A i \in 1..(k - 1) : p[i] = q[i]
    /\ p[k].type = q[k].type
    /\ \/ p[k].type = "PARAMETER" /\ BeginAlike(p[k].str, q[k].str)
       \/ /\ p[k].type = "STRING" /\ IsStrictPrefix(p[k].str, q[k].str)
          /\ k < Len(p)
          /\ \/ BeginAlike(p[k + 1].str, SubSeq(q[k].str, Len(p[k].str) + 1, Len(q[k].str)))
             \/ k < Len(q) /\ BeginAlike(p[k + 1].str, q[k + 1].str)

\* Adding routes ends, and what a lookup returns is the data of a route that
\* was added and that the path matches: branching an edge never mixes two
\* routes up, as long as no two of the routes are confused.
FoundMatches ==
  (\A r, s \in ToSet(called) :
     ~Confused(convert_path_to_pattern(r), convert_path_to_pattern(s))) =>
    /\ ~runaway
    /\ \A path \in Url :
         Found(path) # NoData =>
           /\ Found(path) \in DOMAIN added
           /\ match_route(convert_path_to_pattern(added[Found(path)]), path) = <<>>

\* The order of a dictionary.
Precedes(r, s) ==
  LET n == string_diff(r, s) IN
  n < Len(s) /\ (n = Len(r) \/ Rank[r[n + 1]] < Rank[s[n + 1]])

\* Routes of characters only that are added in the order of a dictionary are
\* all accepted, and each is found under its own path, however the edges are
\* split on the way.
AddedFound ==
  /\ \A i \in DOMAIN called : IsStatic(called[i])
  /\ \A i \in 1..Len(called) - 1 : Precedes(Sanitized(called[i]), Sanitized(called[i + 1]))
  => called = added /\ \A i \in DOMAIN added : Found(Sanitized(added[i])) = i
=============================================================================

------------------------------ MODULE TreeFile ------------------------------
(***************************************************************************)
(* The file a search leaves of its tree: Node.print_node writes it         *)
(* (src/treethink/methods/node.py), `treethink graph extract' reads the    *)
(* solution off it, and load_graphviz_state builds a tree from it          *)
(* (src/treethink/graph.py).                                               *)
(*                                                                         *)
(* A node is named by the child positions on the way to it, which is what  *)
(* the file calls it (<<1, 2>> is a_0_1).  A tree has its nodes, their     *)
(* texts and their visits; win values and levels are written and read in   *)
(* the same way as visits.                                                 *)
(*                                                                         *)
(* A text is a sequence of symbols.  Those that a label treats in ways of  *)
(* their own are named below; any other is written and read as it is.      *)
(* HTML entities are undone in the order that gives back what they stand   *)
(* for.  Left out are texts with a number after Mark, which is taken for   *)
(* the visits, with a character outside the basic plane, which has two     *)
(* codes, with a letter after a backslash that unicode_escape knows and    *)
(* that is not named here, or with the last letters of Red after such a    *)
(* code.                                                                   *)
(*                                                                         *)
(* Sequences are sorted, folded and selected from with operators that      *)
(* proofs can expand.                                                      *)
(***************************************************************************)
EXTENDS Integers, Sequences, FiniteSets, SequencesExt

NL   == "nl"    \* a line break
TAB  == "tab"   \* a tab, carriage return, backspace or form feed
UNI  == "uni"   \* any other control character, or one that is not ASCII
BS   == "bs"    \* a backslash
LetterN == "n"  \* the letter n
LetterT == "t"  \* the letter t, as r, b or f for the other three
LetterU == "u"  \* the letter u, if no four hexadecimal digits follow
Code == "uXXXX" \* the letter u and four such digits
Mark == "V:"    \* what the number of visits is looked for with
Red  == "color=red"   \* what red nodes are looked for with

Nodes(tree) == DOMAIN tree.text

Above(m, n) == m # n /\ IsPrefix(m, n)
Below(tree, n) == {m \in Nodes(tree) : Len(m) = Len(n) + 1 /\ Above(n, m)}

(* The text of a proof: the texts on the way from the root.                *)
PathText(tree, n) ==
  FlattenSeq([i \in 1..(Len(n) + 1) |-> tree.text[SubSeq(n, 1, i - 1)]])

-----------------------------------------------------------------------------
(* Writing.                                                                *)

(* json.dumps.                                                             *)
Escaped(t) ==
  FlattenSeq([i \in DOMAIN t |-> CASE t[i] = NL  -> <<BS, LetterN>>
                                   [] t[i] = TAB -> <<BS, LetterT>>
                                   [] t[i] = UNI -> <<BS, Code>>
                                   [] t[i] = BS  -> <<BS, BS>>
                                   [] OTHER      -> <<t[i]>>])

(* Children come after their parent and before its later siblings.         *)
Earlier(m, n) ==
  \/ Above(m, n)
  \/ \E i \in DOMAIN m \intersect DOMAIN n :
       m[i] < n[i] /\ \A j \in 1..(i - 1) : m[j] = n[j]

InOrder(S) ==
  CHOOSE s \in [1..Cardinality(S) -> S] :
    \A i, j \in DOMAIN s : i < j => Earlier(s[i], s[j])

(* Faulty variant: a node is red when its own text comes first.            *)
OnSolution_Alone(tree, n, solution) == IsPrefix(tree.text[n], solution)

(* The nodes that are red: what is left of the solution begins with their  *)
(* text.                                                                   *)
OnSolution(tree, n, solution) == IsPrefix(PathText(tree, n), solution)

(* The lines of the nodes from the root on, and those of the edges, which  *)
(* are written when a node is, its last child first.                       *)
Printed(tree, solution) ==
  LET order == InOrder(Nodes(tree)) IN
  [nodes |-> [i \in DOMAIN order |->
                [id     |-> order[i],
                 label  |-> Escaped(tree.text[order[i]]),
                 visits |-> tree.visits[order[i]],
                 red    |-> OnSolution(tree, order[i], solution)]],
   edges |-> FlattenSeq([i \in DOMAIN order |->
                [k \in 1..Cardinality(Below(tree, order[i])) |->
                   <<order[i],
                     Append(order[i], Cardinality(Below(tree, order[i])) + 1 - k)>>]])]

-----------------------------------------------------------------------------
(* Reading.                                                                *)

Folded(op(_, _), base, s) ==
  LET upTo[i \in 0..Len(s)] == IF i = 0 THEN base ELSE op(upTo[i - 1], s[i])
  IN  upTo[Len(s)]

EndsWith(acc, c) == acc # <<>> /\ Last(acc) = c

(* The replacements: a backslash and an n give a line break back, and two  *)
(* backslashes before a u become one.                                      *)
Unescape(acc, c) ==
  CASE c = LetterN /\ EndsWith(acc, BS) -> Append(Front(acc), NL)
    [] c \in {LetterU, Code} /\ EndsWith(acc, BS) /\ EndsWith(Front(acc), BS)
         -> Append(Front(acc), c)
    [] OTHER -> Append(acc, c)

Replaced(t) == Folded(Unescape, <<>>, t)

(* What unicode_escape makes of a symbol after a backslash.                *)
Meaning(c) ==
  CASE c = BS      -> <<BS>>
    [] c = LetterT -> <<TAB>>
    [] c = Code    -> <<UNI>>
    [] c = NL      -> <<>>
    [] OTHER       -> <<BS, c>>

(* It raises on a u without digits and on a backslash at the end.          *)
Decode(acc, c) ==
  CASE acc.at = "escape" /\ c = LetterU -> [acc EXCEPT !.at = "error"]
    [] acc.at = "escape" /\ c # LetterU -> [text |-> acc.text \o Meaning(c), at |-> "text"]
    [] acc.at = "text" /\ c = BS        -> [acc EXCEPT !.at = "escape"]
    [] acc.at = "text" /\ c # BS        -> [acc EXCEPT !.text = Append(@, c)]
    [] OTHER                            -> acc

Decoded(t) == Folded(Decode, [text |-> <<>>, at |-> "text"], t)

HasCode(t) == \E i \in 1..(Len(t) - 1) : t[i] = BS /\ t[i + 1] \in {LetterU, Code}

(* _unescape_graphviz_label.  Only a text with a code is decoded.          *)
Unescaped(t) ==
  LET label   == Replaced(t)
      decoded == Decoded(label)
  IN  IF HasCode(label) /\ decoded.at = "text" THEN decoded.text ELSE label

(* What extract_solution_from_graphviz takes for a red node.               *)
LooksRed(line) == line.red \/ Red \in ToSet(line.label)

Extracted(file) ==
  FlattenSeq([i \in DOMAIN file.nodes |->
                IF LooksRed(file.nodes[i]) THEN Unescaped(file.nodes[i].label) ELSE <<>>])

(* The number is what follows the first mark that something follows, and   *)
(* the text of the node comes first; what is no number counts as 0.        *)
VisitsRead(line) ==
  IF \E i \in 1..(Len(line.label) - 1) : line.label[i] = Mark THEN 0 ELSE line.visits

Split(acc, c) ==
  IF c = NL THEN Append(acc, <<>>) ELSE Append(Front(acc), Append(Last(acc), c))

LinesOf(t) == Folded(Split, << <<>> >>, t)

Joined(lines) ==
  FlattenSeq([i \in DOMAIN lines |-> IF i = 1 THEN lines[i] ELSE <<NL>> \o lines[i]])

(* What is not among the old lines.                                        *)
Added(old, new) ==
  FlattenSeq([i \in DOMAIN new |-> IF new[i] \in ToSet(old) THEN <<>> ELSE <<new[i]>>])

(* _merge_node_text adds the lines that the parent does not have.          *)
Merged(above, own) ==
  IF own = <<>> THEN above ELSE IF above = <<>> THEN own
  ELSE Joined(LinesOf(above) \o Added(LinesOf(above), LinesOf(own)))

(* What _parse_graphviz_content finds: the line of each node.              *)
LinesRead(file) ==
  [id \in {file.nodes[i].id : i \in DOMAIN file.nodes} |->
     CHOOSE line \in ToSet(file.nodes) : line.id = id]

(* Parents are found by their names.                                       *)
WayTo(id) == [k \in 1..Len(id) |-> SubSeq(id, 1, k)]

(* Children have the order of the edges.                                   *)
ChildrenRead(file, id) ==
  FlattenSeq([k \in DOMAIN file.edges |->
                IF file.edges[k][1] = id THEN <<file.edges[k][2]>> ELSE <<>>])

(* A tree built from a file.  Its nodes keep the names they have there,    *)
(* and the text of a node is merged with what was merged for its parent.   *)
Rebuilt(file) ==
  LET line    == LinesRead(file)
      own(id) == Unescaped(line[id].label)
  IN [text     |-> [id \in DOMAIN line |->
                      Folded(LAMBDA acc, n : Merged(acc, own(n)), own(<<>>), WayTo(id))],
      visits   |-> [id \in DOMAIN line |-> VisitsRead(line[id])],
      children |-> [id \in DOMAIN line |-> ChildrenRead(file, id)]]

-----------------------------------------------------------------------------
(* Texts that are read as they were written: without a backslash, and      *)
(* without a tab unless there is something to decode.                      *)
Legible(t) ==
  /\ BS \notin ToSet(t)
  /\ TAB \in ToSet(t) => UNI \in ToSet(t)

Words(t) == ToSet(LinesOf(t)) \ {<<>>}

(* What a file says of the tree it was written for.  The solution can be   *)
(* read off it if its texts are legible, only red nodes look red, and the  *)
(* red nodes are one path: a sibling is red too when its text is how the   *)
(* rest of the solution begins.  A tree built from it has the same nodes,  *)
(* the children of each in the opposite order, and visits wherever a text  *)
(* does not look like them.  The text of a node has become the lines of    *)
(* all the nodes on the way to it, none lost and none added, if they are   *)
(* legible.                                                                *)

Tells(tree, solution) ==
  LET file == Printed(tree, solution)
      new  == Rebuilt(file)
      red  == {n \in Nodes(tree) : OnSolution(tree, n, solution)}
      way(n) == {m \in Nodes(tree) : IsPrefix(m, n)}
  IN
  /\ /\ \A m, n \in red : IsPrefix(m, n) \/ IsPrefix(n, m)
     /\ \A n \in red : Legible(tree.text[n])
     /\ \A n \in Nodes(tree) \ red : Red \notin ToSet(tree.text[n])
     => Extracted(file) = solution
  /\ DOMAIN new.children = Nodes(tree)
  /\ \A n \in Nodes(tree) :
       /\ new.children[n] = Reverse(InOrder(Below(tree, n)))
       /\ new.visits[n] = tree.visits[n] \/ Mark \in ToSet(tree.text[n])
       /\ (\A m \in way(n) : Legible(tree.text[m])) =>
            Words(new.text[n]) = UNION {Words(tree.text[m]) : m \in way(n)}
=============================================================================

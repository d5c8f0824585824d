-------------------------------- MODULE Json --------------------------------
(***************************************************************************)
(* The two JSON parsers, json_parse (callbacks) and json_dom_parse (a tree *)
(* of linked nodes), fed the same document token by token.  Neither checks *)
(* the grammar: any token may follow any other.  `ref' follows the         *)
(* document by the JSON grammar; `ok' says that it has been legal so far.  *)
(*                                                                         *)
(* A string token is its text; the text of a primitive is its position in  *)
(* the document, which tells all of them apart.  Node 0 is NULL, node 1    *)
(* the root json_dom_parse makes before it reads the document.             *)
(***************************************************************************)
EXTENDS Naturals, Sequences, FiniteSets, TLC

CONSTANTS Names,      \* texts of the strings
          MaxTokens,  \* bound: tokens of a legal document
          MaxLoose,   \* bound: tokens of an illegal one
          MaxLevel    \* bound: depth of nesting

VARIABLES n,          \* tokens read
          sax,        \* struct json
          event,      \* the last callback of json_parse
          dom,        \* struct json_dom
          nodes,      \* the json_dom_nodes, in order of allocation
          ok, ref,    \* the document by the grammar: is it legal, open blocks
          member,     \* name of the member the last token belongs to
          leaves,     \* the primitives, and the strings in arrays, by path
          result      \* what the two parsers returned, when the document ends

vars == <<n, sax, event, dom, nodes, ok, ref, member, leaves, result>>

None == "none"

Root == 1

Blocks == {"OBJ", "ARRAY"}
-----------------------------------------------------------------------------
(* json_parse.                                                             *)
sax_begin(js) == [js EXCEPT !.last_key = None,
                            !.stack = Append(@, js.last_string),
                            !.last_string = None,
                            !.level = @ + 1]

(* The name pushed when the block began is the last string again.          *)
sax_end(js) ==
    IF js.level = 0 THEN [js EXCEPT !.err = TRUE]
    ELSE [js EXCEPT !.last_key = None,
                    !.last_string = js.stack[Len(js.stack)],
                    !.stack = SubSeq(@, 1, Len(@) - 1),
                    !.level = @ - 1]

json_parse_value(js, text) == [js EXCEPT !.last_string = text]

sax_colon(js) == [js EXCEPT !.last_key = js.last_string]

sax_comma_nothing(js) == js

sax_comma(js) == [js EXCEPT !.last_key = None]

NoEvent == [kind |-> None, key |-> None, value |-> None]

Event(kind, key, value) == [kind |-> kind, key |-> key, value |-> value]

callback(js, token, text) ==
    CASE token \in Blocks -> Event("begin", js.last_string, None)
      [] token = "end"    -> Event("end", js.stack[Len(js.stack)], None)
      [] token \in {"STR", "PRIM"} -> Event("value", js.last_key, text)
      [] OTHER            -> NoEvent

json_parse(js, token, text) ==
    CASE token \in Blocks -> sax_begin(js)
      [] token = "end"    -> sax_end(js)
      [] token \in {"STR", "PRIM"} -> json_parse_value(js, text)
      [] token = ":"      -> sax_colon(js)
      [] token = ","      -> sax_comma(js)

unbalanced(js) == js.level # 0
-----------------------------------------------------------------------------
(* json_dom_parse.                                                         *)
NewNode(type, text) == [type |-> type, text |-> text, count |-> 0, parent |-> 0,
                        first |-> 0, last |-> 0, prev |-> 0, next |-> 0]

(* A new node becomes the last child of p.                                 *)
child_node(ns, p, node) ==
    LET c == Len(ns) + 1
        linked == IF ns[p].last = 0
                  THEN [ns EXCEPT ![p].count = @ + 1, ![p].first = c, ![p].last = c]
                  ELSE [ns EXCEPT ![p].count = @ + 1, ![ns[p].last].next = c,
                                  ![p].last = c]
    IN Append(linked, [node EXCEPT !.parent = p, !.prev = ns[p].last])

(* After ':' a block is the node of its name, which takes the block's      *)
(* type; elsewhere it is a new node without a name.                        *)
dom_begin(token) ==
    /\ IF dom.is_key
       THEN /\ nodes' = [nodes EXCEPT ![nodes[dom.node].last].type = token]
            /\ dom' = [dom EXCEPT !.is_key = FALSE, !.level = @ + 1,
                                  !.node = nodes[dom.node].last]
       ELSE /\ nodes' = child_node(nodes, dom.node, NewNode(token, None))
            /\ dom' = [dom EXCEPT !.level = @ + 1, !.node = Len(nodes) + 1]

dom_end ==
    /\ dom' = IF dom.level = 0 THEN [dom EXCEPT !.err = TRUE]
              ELSE [dom EXCEPT !.node = nodes[dom.node].parent,
                               !.is_key = FALSE, !.level = @ - 1]
    /\ UNCHANGED nodes

(* A value is a child of its name, a name or an element one of the block.  *)
parse_value(token, text) ==
    /\ nodes' = child_node(nodes,
                           IF dom.is_key THEN nodes[dom.node].last ELSE dom.node,
                           NewNode(token, text))
    /\ UNCHANGED dom

dom_colon ==
    /\ dom' = IF nodes[dom.node].type = "ARRAY" \/ nodes[dom.node].last = 0
              THEN [dom EXCEPT !.err = TRUE]
              ELSE [dom EXCEPT !.is_key = TRUE]
    /\ UNCHANGED nodes

dom_comma == dom' = [dom EXCEPT !.is_key = FALSE] /\ UNCHANGED nodes

json_dom_parse(token, text) ==
    \/ dom.err /\ UNCHANGED <<dom, nodes>>
    \/ ~dom.err /\ token \in Blocks /\ dom_begin(token)
    \/ ~dom.err /\ token = "end" /\ dom_end
    \/ ~dom.err /\ token \in {"STR", "PRIM"} /\ parse_value(token, text)
    \/ ~dom.err /\ token = ":" /\ dom_colon
    \/ ~dom.err /\ token = "," /\ dom_comma

(* The children of p, by the links.                                        *)
Position(i) == Cardinality({j \in DOMAIN nodes :
                              j < i /\ nodes[j].parent = nodes[i].parent})

Up(i) == nodes[nodes[i].parent]

is_value(i) == Up(i).type = "STR" /\ nodes[i].type \in {"STR", "PRIM"}

path_step(i) == IF Up(i).type = "ARRAY" THEN <<Position(i)>>
                ELSE IF nodes[i].text = None THEN <<>> ELSE <<nodes[i].text>>

path_buf[i \in Nat] == IF i = Root THEN <<>> ELSE path_buf[nodes[i].parent] \o path_step(i)

(* A name stands for its value when that is a primitive.                   *)
node_to_insert(i) ==
    LET c == nodes[i].first
    IN IF Up(i).type # "ARRAY" /\ c # 0 /\ nodes[c].type = "PRIM" THEN c ELSE i

(* Nodes that are passed over, with all that is below them.                *)
skipped(i) == is_value(i) \/ (Up(i).type # "ARRAY" /\ nodes[i].type = "PRIM")

visited[i \in Nat] == i = Root \/ (~skipped(i) /\ visited[nodes[i].parent])

(* The whole tree (max_level is not reached).  The code drops the first    *)
(* character of a path: the '.' of a name, but in a document that is an    *)
(* array the '[' of an element.                                            *)
build_index ==
    {<<path_buf[i], node_to_insert(i)>> : i \in
        {j \in DOMAIN nodes \ {Root} : visited[j] /\ path_buf[j] # <<>>}}
-----------------------------------------------------------------------------
(* The document by the grammar.  A frame per open block: what may come     *)
(* next, the name of the member being read, the elements and names so far. *)
Frame(type, next) == [type |-> type, next |-> next, key |-> None, count |-> 0, keys |-> {}]

Top == ref[Len(ref)]

Inner(type) == Frame(type, IF type = "OBJ" THEN {"key", "end"} ELSE {"value", "end"})

Path == LET Step(f) == CASE f.type = "ARRAY" -> <<f.count>> [] f.type = "OBJ" -> <<f.key>>
                         [] OTHER -> <<>>
            whole[i \in 0..Len(ref)] == IF i = 0 THEN <<>> ELSE whole[i - 1] \o Step(ref[i])
        IN whole[Len(ref)]

WithTop(f) == [ref EXCEPT ![Len(ref)] = f]

After(f) == [f EXCEPT !.next = IF f.type = "TOP" THEN {} ELSE {"comma", "end"}]

Legal(token, text) ==
    CASE token \in Blocks -> "value" \in Top.next
      [] token = "PRIM"   -> "value" \in Top.next
      [] token = "STR"    -> "value" \in Top.next \/ ("key" \in Top.next /\ text \notin Top.keys)
      [] token = "end"    -> "end" \in Top.next
      [] token = ":"      -> "colon" \in Top.next
      [] token = ","      -> "comma" \in Top.next

Read(token, text) ==
    CASE token \in Blocks -> Append(ref, Inner(token))
      [] token = "end"    -> LET out == SubSeq(ref, 1, Len(ref) - 1)
                             IN [out EXCEPT ![Len(out)] = After(@)]
      [] token = "STR" /\ "key" \in Top.next ->
             WithTop([Top EXCEPT !.key = text, !.keys = @ \cup {text}, !.next = {"colon"}])
      [] token \in {"STR", "PRIM"} -> WithTop(After(Top))
      [] token = ":"      -> WithTop([Top EXCEPT !.next = {"value"}])
      [] token = ","      -> WithTop([Top EXCEPT !.count = @ + 1,
                                !.next = IF Top.type = "OBJ" THEN {"key"} ELSE {"value"}])

(* The member a token belongs to; a name and an element belong to none.    *)
MemberOf(token) ==
    LET f == IF token = "end" THEN ref[Len(ref) - 1] ELSE Top
    IN IF f.type = "OBJ" /\ "key" \notin f.next THEN f.key ELSE None

IsLeaf(token) == token = "PRIM" \/ (token = "STR" /\ Top.type = "ARRAY")

Follow(token, text) ==
    IF ok /\ Legal(token, text)
    THEN /\ ref' = Read(token, text)
         /\ member' = MemberOf(token)
         /\ leaves' = IF IsLeaf(token) THEN leaves \cup {<<Path, text>>} ELSE leaves
         /\ UNCHANGED ok
    ELSE ok' = FALSE /\ ref' = <<>> /\ member' = None /\ leaves' = {}
-----------------------------------------------------------------------------
Init ==
    /\ n = 0
    /\ sax = [level |-> 0, last_key |-> None, last_string |-> None, stack |-> <<>>, err |-> FALSE]
    /\ event = NoEvent
    /\ dom = [level |-> 0, node |-> Root, is_key |-> FALSE, err |-> FALSE]
    /\ nodes = <<NewNode("OBJ", None)>>
    /\ ok = TRUE /\ ref = <<Frame("TOP", {"value"})>> /\ member = None /\ leaves = {}
    /\ result = [sax |-> None, dom |-> None, in |-> None]

Reading == result.dom = None

token(t, text) ==
    /\ Reading
    /\ ~sax.err \/ ~dom.err
    /\ n' = n + 1
    /\ Follow(t, text)
    /\ n < IF ok' THEN MaxTokens ELSE MaxLoose
    /\ t \in Blocks => sax.level < MaxLevel
    /\ IF sax.err THEN UNCHANGED <<sax, event>>
       ELSE /\ sax' = json_parse(sax, t, text)
            /\ event' = IF sax'.err THEN NoEvent ELSE callback(sax, t, text)
    /\ json_dom_parse(t, text)
    /\ UNCHANGED result

Returned(failed) == IF failed THEN "error" ELSE "parsed"

(* The document ends between two tokens.                                   *)
finish ==
    /\ Reading
    /\ result' = [sax |-> Returned(sax.err \/ unbalanced(sax)), dom |-> Returned(dom.err), in |-> None]
    /\ dom' = IF dom.err THEN dom ELSE [dom EXCEPT !.node = Root]
    /\ UNCHANGED <<n, sax, event, nodes, ok, ref, member, leaves>>

(* It ends inside a string, or with a primitive: both parsers give up.     *)
finish_in(t) ==
    /\ Reading
    /\ result' = [sax |-> "error", dom |-> "error", in |-> t]
    /\ sax' = [sax EXCEPT !.err = TRUE]
    /\ dom' = [dom EXCEPT !.err = TRUE]
    /\ UNCHANGED <<n, event, nodes>>

finish_in_string == finish_in("STR") /\ ok' = FALSE /\ UNCHANGED <<ref, member, leaves>>

finish_in_primitive == finish_in("PRIM") /\ Follow("PRIM", ToString(n))

Next == \/ \E t \in Blocks \cup {"end", ":", ","} : token(t, None)
        \/ \E text \in Names : token("STR", text)
        \/ token("PRIM", ToString(n))
        \/ finish
        \/ finish_in_string
        \/ finish_in_primitive

Spec == Init /\ [][Next]_vars
-----------------------------------------------------------------------------
(* In a legal document the callbacks of json_parse name what they report:  *)
(* a value, and a block both when it begins and when it ends, comes with   *)
(* the name of the member it is, however deep the blocks between; a name   *)
(* and a value in an array come without one.                               *)
MemberNamed ==
    (ok /\ Reading /\ event.kind # None) =>
        IF member # None THEN event.key = member
        ELSE event.kind = "value" => event.key = None

(* json_parse never reports a document that was cut short as parsed, and   *)
(* neither parser rejects a legal and complete one; except that both       *)
(* reject one that is a primitive with nothing behind it (42, true).       *)
Verdicts ==
    ~Reading =>
        /\ (ok /\ Len(ref) > 1) => result.sax = "error"
        /\ (ok /\ Len(ref) = 1 /\ result.in # "PRIM") => result.sax = "parsed" /\ result.dom = "parsed"

Depth(i) == LET d[j \in Nat] == IF j = Root THEN 0 ELSE 1 + d[nodes[j].parent] IN d[i]

Children(p) == {i \in DOMAIN nodes : nodes[i].parent = p}

(* The tree holds together for every input, legal or not: the current node *)
(* is as deep as the level says, a pending name exists, and the links of   *)
(* the children agree with one another and with the count.                 *)
TreeLinked ==
    /\ Reading => Depth(dom.node) = dom.level
    /\ dom.is_key => nodes[dom.node].last # 0
    /\ \A p \in DOMAIN nodes :
         /\ nodes[p].count = Cardinality(Children(p))
         /\ (nodes[p].first = 0) = (Children(p) = {})
         /\ nodes[p].first # 0 => nodes[nodes[p].first].prev = 0
         /\ nodes[p].last # 0 => nodes[nodes[p].last].next = 0
         /\ \A c \in Children(p) :
              /\ nodes[c].next # 0 => nodes[c].next \in Children(p) /\ nodes[nodes[c].next].prev = c
              /\ nodes[c].next = 0 => c = nodes[p].last

(* The index of a legal document has every primitive, and every string in  *)
(* an array, under its path, and under that path nothing else.             *)
IndexFindsLeaves ==
    (ok /\ result.dom = "parsed") =>
        \A leaf \in leaves :
            leaf[1] # <<>> =>
              LET found == {e \in build_index : e[1] = leaf[1]}
              IN /\ Cardinality(found) = 1
                 /\ \A e \in found : nodes[e[2]].text = leaf[2]
=============================================================================

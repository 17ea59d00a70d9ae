----------------------------- MODULE Caddyfile -----------------------------
(***************************************************************************)
(* How one Caddyfile is made: packages caddyfile (fromlabels.go, merge.go, *)
(* marshal.go, lexer.go, processor.go) and GenerateCaddyfile around them.  *)
(*                                                                         *)
(* The static Caddyfile is parsed, the labels of each object are visited   *)
(* in the free order of a Go map, the blocks are merged, sorted, written,  *)
(* parsed again and tried one by one on the adapter.  When and from what   *)
(* Docker answers a generation starts is in module Generator.              *)
(*                                                                         *)
(* A text is a sequence of characters, since quoting is part of what is    *)
(* checked; a label is the sequence of its segments, as in                 *)
(* caddy_1.2_handle; of templates there is {{upstreams}}, a character of   *)
(* its own, and one that fails.                                            *)
(***************************************************************************)
EXTENDS Integers, SequencesExt

CONSTANTS
  Alphabet,   \* the characters, in their order
  Files,      \* texts the static Caddyfile may have, <<>> without one
  Dockers,    \* states of Docker: sequences of objects, each a function from
              \* labels to values
  Targets,    \* addresses of an object in the ingress networks
  Failing,    \* value whose template fails
  Refused     \* keys that make a block invalid

VARIABLES
  file, docker,
  processing,      \* option ProcessCaddyfile
  pc,
  object,          \* number of the object whose labels are read
  unread,          \* its labels that have not been visited
  blocksByPath,    \* its blocks, in the order of their creation
  caddyfileBlock,
  candidates,      \* blocks Process has not tried
  newContainer,    \* blocks it has kept
  content          \* the last Caddyfile, <<>> before the first

options == <<file, docker, processing>>
vars == <<options, pc, object, unread, blocksByPath, caddyfileBlock, candidates, newContainer,
          content>>

----------------------------------------------------------------------------
(* Blocks.  A container is a sequence of blocks, which are records of order, *)
(* keys and children.  While it is made it is a sequence of created blocks,  *)
(* each with the path that leads to it from the root <<>>.                   *)

Created(path, order, keys) == [path |-> path, order |-> order, keys |-> keys]

RECURSIVE Container(_, _)
Container(blocks, path) ==
  LET children == SelectSeq(blocks, LAMBDA b : Front(b.path) = path)
  IN  [k \in DOMAIN children |-> [order |-> children[k].order, keys |-> children[k].keys,
                                  children |-> Container(blocks, children[k].path)]]

IsGlobalBlock(b) == b.keys = <<>>
IsSnippet(b) == Len(b.keys) = 1 /\ b.keys[1] # <<>> /\ Head(b.keys[1]) = "(" /\ Last(b.keys[1]) = ")"
IsMatcherBlock(b) == b.keys # <<>> /\ b.keys[1] # <<>> /\ Head(b.keys[1]) = "@"
FirstKey(b) == IF b.keys = <<>> THEN <<>> ELSE b.keys[1]

----------------------------------------------------------------------------
(* Lexer: read is what next has read of the text, and of the token that is   *)
(* under way.                                                                *)

Backtick == "bt"

Fresh == [token |-> <<>>, at |-> 0, comment |-> FALSE, quoted |-> FALSE, btQuoted |-> FALSE,
          escaped |-> FALSE]
NothingRead == Fresh @@ [tokens |-> <<>>, line |-> 1, skippedLines |-> 0]

MakeToken(read) ==
  Fresh @@ [read EXCEPT !.tokens = Append(@, [text |-> read.token, line |-> read.at])]

NewLine(read) == [read EXCEPT !.line = @ + 1 + read.skippedLines, !.skippedLines = 0]

\* In a quoted text a backslash counts unless a quote follows.
InQuotes(read, ch) ==
  LET isEscape == read.quoted /\ read.escaped
      text == IF isEscape /\ ch # "\"" THEN <<"\\", ch>> ELSE <<ch>>
      read1 == IF ch = "\n" THEN NewLine(read) ELSE read
  IN  IF ~isEscape /\ ((read.quoted /\ ch = "\"") \/ (read.btQuoted /\ ch = Backtick))
      THEN MakeToken(read)
      ELSE [read1 EXCEPT !.token = @ \o text, !.escaped = @ /\ ~read.quoted]

\* An escaped line break does not count as one until the next.
Space(read, ch) ==
  LET read1 == CASE ch # "\n"    -> read
                 [] read.escaped -> [read EXCEPT !.skippedLines = @ + 1, !.escaped = FALSE]
                 [] OTHER        -> NewLine(read)
      read2 == [read1 EXCEPT !.comment = @ /\ ch # "\n"]
  IN  IF read.token # <<>> THEN MakeToken(read2) ELSE read2

InWord(read, ch) ==
  LET read1 == IF read.token = <<>> THEN [read EXCEPT !.at = read.line] ELSE read
  IN  CASE read.token = <<>> /\ ch = "\""     -> [read1 EXCEPT !.quoted = TRUE]
        [] read.token = <<>> /\ ch = Backtick -> [read1 EXCEPT !.btQuoted = TRUE]
        [] read.escaped                       -> [read1 EXCEPT !.token = @ \o <<"\\", ch>>,
                                                               !.escaped = FALSE]
        [] OTHER                              -> [read1 EXCEPT !.token = Append(@, ch)]

ReadRune(read, ch) ==
  CASE ch = "\\" /\ ~read.escaped /\ ~read.btQuoted -> [read EXCEPT !.escaped = TRUE]
    [] OTHER ->
       CASE read.quoted \/ read.btQuoted -> InQuotes(read, ch)
         [] OTHER ->
            CASE ch \in {" ", "\n"} -> Space(read, ch)
              [] OTHER -> IF read.comment \/ (ch = "#" /\ read.token = <<>>)
                          THEN [read EXCEPT !.comment = TRUE] ELSE InWord(read, ch)

RECURSIVE Read(_, _)
Read(read, text) == IF text = <<>> THEN read ELSE Read(ReadRune(read, Head(text)), Tail(text))

\* A token that is under way at the end counts.
AllTokens(text) ==
  LET read == Read(NothingRead, text)
  IN  IF read.token # <<>> THEN MakeToken(read).tokens ELSE read.tokens

Texts(tokens) == [k \in DOMAIN tokens |-> tokens[k].text]

----------------------------------------------------------------------------
(* Unmarshal.  stack holds the paths of the blocks that are open.            *)

NothingParsed == [blocks |-> <<>>, stack |-> <<<<>>>>, current |-> <<>>, isNewBlock |-> TRUE,
                  line |-> -1, wellFormed |-> TRUE]

StartBlock(parsed) ==
  LET parent == Last(parsed.stack)
      order == Cardinality({k \in DOMAIN parsed.blocks : Front(parsed.blocks[k].path) = parent})
      path == Append(parent, order)
  IN  [parsed EXCEPT !.blocks = Append(@, Created(path, order, <<>>)), !.current = path,
                     !.isNewBlock = FALSE]

WithKeys(blocks, path, keys) ==
  [k \in DOMAIN blocks |->
     IF blocks[k].path = path THEN [blocks[k] EXCEPT !.keys = @ \o keys] ELSE blocks[k]]

ParseToken(parsed, t) ==
  LET onLine == [parsed EXCEPT !.isNewBlock = @ \/ t.line # parsed.line, !.line = t.line]
      in == IF onLine.isNewBlock THEN StartBlock(onLine) ELSE onLine
      lines == Len(SelectSeq(t.text, LAMBDA ch : ch = "\n"))
  IN  CASE t.text = <<"}">> /\ Len(parsed.stack) = 1 -> [onLine EXCEPT !.wellFormed = FALSE]
        [] t.text = <<"}">> /\ Len(parsed.stack) > 1 -> [onLine EXCEPT !.stack = Front(@)]
        [] t.text = <<"{">> -> [in EXCEPT !.stack = Append(@, in.current)]
        [] t.text \notin {<<"{">>, <<"}">>} ->
             [in EXCEPT !.blocks = WithKeys(@, in.current, <<t.text>>), !.line = @ + lines]

RECURSIVE Parse(_, _)
Parse(parsed, tokens) ==
  IF tokens = <<>> \/ ~parsed.wellFormed THEN parsed
  ELSE Parse(ParseToken(parsed, Head(tokens)), Tail(tokens))

\* There is no container for a text that is empty or not well formed.
CanUnmarshal(text) == text # <<>> /\ Parse(NothingParsed, AllTokens(text)).wellFormed
Unmarshal(text) == Container(Parse(NothingParsed, AllTokens(text)).blocks, <<>>)

----------------------------------------------------------------------------
(* Marshal.  Indentation is left out.                                        *)

WriteKey(key) ==
  CASE {"\n", "\""} \cap ToSet(key) # {} ->
         <<Backtick>> \o FlattenSeq([k \in DOMAIN key |->
                           IF key[k] = Backtick THEN <<"\\", Backtick>> ELSE <<key[k]>>]) \o <<Backtick>>
    [] {"\n", "\"", " "} \cap ToSet(key) = {" "} -> <<"\"">> \o key \o <<"\"">>
    [] OTHER -> key

RECURSIVE Write(_)
Write(container) ==
  FlattenSeq([k \in DOMAIN container |->
    LET b == container[k]
        keys == FlattenSeq([j \in DOMAIN b.keys |->
                              IF j = 1 THEN WriteKey(b.keys[j]) ELSE <<" ">> \o WriteKey(b.keys[j])])
        body == IF b.children = <<>> THEN <<>>
                ELSE (IF keys = <<>> THEN <<>> ELSE <<" ">>)
                       \o <<"{", "\n">> \o Write(b.children) \o <<"}">>
    IN  keys \o body \o <<"\n">>])

\* The first difference decides.
Smaller(s, t) ==
  \E k \in DOMAIN s \cap DOMAIN t : s[k] < t[k] /\ \A j \in 1..(k - 1) : s[j] = t[j]

Numbered(key) == [k \in DOMAIN key |-> CHOOSE n \in DOMAIN Alphabet : Alphabet[n] = key[k]]

Class(b) ==
  CASE IsGlobalBlock(b) -> 0 [] IsSnippet(b) -> 1 [] IsMatcherBlock(b) -> 2 [] OTHER -> 3

\* compareBlocks goes through what it compares in the order of this sequence, in
\* which lists and keys end with 0 and every element of a list starts with 1.
RECURSIVE Compared(_)
Compared(b) ==
  <<Class(b), b.order>>
    \o FlattenSeq([k \in DOMAIN b.keys |-> <<1>> \o Numbered(b.keys[k]) \o <<0>>]) \o <<0>>
    \o FlattenSeq([k \in DOMAIN b.children |-> <<1>> \o Compared(b.children[k])]) \o <<0>>

\* Mutant of Before: the orders decide alone.
BeforeByOrder(a, b) ==
  (Class(a) < Class(b) \/ (Class(a) = Class(b) /\ a.order < b.order))

Before(a, b) == Smaller(Compared(a), Compared(b))

RECURSIVE Sort(_)
Sort(container) ==
  SortSeq([k \in DOMAIN container |-> [container[k] EXCEPT !.children = Sort(@)]], Before)

Marshal(container) == Write(Sort(container))

----------------------------------------------------------------------------
(* Merge *)

IsMatcher(key) == key = <<"*">> \/ (key # <<>> /\ Head(key) \in {"/", "@"})
GetMatcher(b) == IF Len(b.keys) > 1 /\ IsMatcher(b.keys[2]) THEN b.keys[2] ELSE <<"*">>

ReverseProxyLike == {<<"r", "p">>}   \* reverse_proxy and php_fastcgi

\* What follows the directive and its matcher.
Upstreams(b) == SubSeq(b.keys, IF Len(b.keys) > 1 /\ IsMatcher(b.keys[2]) THEN 3 ELSE 2, Len(b.keys))

\* Mutant of SameProxy: matchers are not compared.
SameDirective(a, b) == FirstKey(a) = FirstKey(b) /\ FirstKey(b) \in ReverseProxyLike

SameProxy(a, b) ==
  /\ FirstKey(a) = FirstKey(b) /\ FirstKey(b) \in ReverseProxyLike
  /\ GetMatcher(a) = GetMatcher(b)

RECURSIVE Merge(_, _)
Merged(a, b) ==
  [a EXCEPT !.keys = IF SameProxy(a, b) THEN @ \o Upstreams(b) ELSE @,
            !.children = Merge(@, b.children)]

\* A block is merged into the first that matches, or added.
Merge(containerA, containerB) ==
  IF containerB = <<>> THEN containerA
  ELSE LET b == Head(containerB)
           same == {k \in DOMAIN containerA :
                      SameProxy(containerA[k], b) \/ containerA[k].keys = b.keys}
           k == CHOOSE k \in same : \A j \in same : k <= j
       IN  Merge(IF same = {} THEN Append(containerA, b)
                 ELSE [containerA EXCEPT ![k] = Merged(@, b)], Tail(containerB))

----------------------------------------------------------------------------
(* GenerateCaddyfile *)

\* The Caddyfile of a Docker state without any.
Empty == <<"#">>
OrEmpty(text) == IF text = <<>> THEN Empty ELSE text

Init ==
  /\ file \in Files /\ docker \in Dockers /\ processing \in BOOLEAN
  /\ pc = "waiting"
  /\ object = 0 /\ unread = {} /\ blocksByPath = <<>>
  /\ caddyfileBlock = <<>> /\ candidates = <<>> /\ newContainer = <<>>
  /\ content = <<>>

\* The static Caddyfile is left out when it cannot be parsed.
Begin ==
  /\ pc = "waiting"
  /\ pc' = "labels"
  /\ caddyfileBlock' = IF CanUnmarshal(file) THEN Unmarshal(file) ELSE <<>>
  /\ object' = 1 /\ unread' = DOMAIN docker[1] /\ blocksByPath' = <<>>
  /\ UNCHANGED <<options, candidates, newContainer, content>>

MaxInt32 == 2147483647

\* parsePath: the order is the prefix, if there is one; the root gives no key.
FromPath(path) ==
  Created(path, IF Last(path).prefix = <<>> THEN MaxInt32 ELSE Last(path).prefix[1],
          IF Len(path) = 1 THEN <<>> ELSE <<Last(path).name>>)

\* Ancestors that do not exist are made first.
GetOrCreateBlock(blocks, path) ==
  LET existing == {blocks[k].path : k \in DOMAIN blocks}
      missing == SelectSeq([k \in DOMAIN path |-> SubSeq(path, 1, k)], LAMBDA p : p \notin existing)
  IN  blocks \o [k \in DOMAIN missing |-> FromPath(missing[k])]

SortedTexts(texts) ==
  SortSeq(texts, LAMBDA s, t : Smaller(Append(Numbered(s), 0), Append(Numbered(t), 0)))

\* labelsToCaddyfile: the template gives the targets in order, with spaces.
Evaluated(value, targets) ==
  LET sorted == SortedTexts(targets)
      list == FlattenSeq([k \in DOMAIN sorted |->
                            IF k = 1 THEN sorted[k] ELSE <<" ">> \o sorted[k]])
  IN  FlattenSeq([k \in DOMAIN value |->
                    IF value[k] = "{{upstreams}}" THEN list ELSE <<value[k]>>])

\* One round over the labels of an object, whose targets come in any order too; a
\* template that fails ends FromLabels without blocks.
ReadLabel(label) ==
  \E targets \in SetToSeqs(Targets) :
  LET value == docker[object][label] IN
  /\ pc = "labels" /\ label \in unread
  /\ IF value = Failing
     THEN unread' = {} /\ blocksByPath' = <<>>
     ELSE /\ unread' = unread \ {label}
          /\ blocksByPath' = WithKeys(GetOrCreateBlock(blocksByPath, label), label,
                                      Texts(AllTokens(Evaluated(value, targets))))
  /\ UNCHANGED <<options, pc, object, caddyfileBlock, candidates, newContainer, content>>

\* The blocks of the object are merged into those of the ones before.
MergeObject ==
  /\ pc = "labels" /\ unread = {}
  /\ caddyfileBlock' = Merge(caddyfileBlock, Container(blocksByPath, <<>>))
  /\ blocksByPath' = <<>>
  /\ IF object < Len(docker)
     THEN object' = object + 1 /\ unread' = DOMAIN docker[object + 1] /\ pc' = pc
     ELSE pc' = "write" /\ UNCHANGED <<object, unread>>
  /\ UNCHANGED <<options, candidates, newContainer, content>>

Return(text) ==
  /\ content' = OrEmpty(text)
  /\ pc' = "waiting"

\* Global options first, then the rest; Process begins unless there is nothing,
\* and nothing is left of what it cannot parse.
WriteCaddyfile ==
  LET text == Marshal(SelectSeq(caddyfileBlock, IsGlobalBlock))
                \o Marshal(SelectSeq(caddyfileBlock, LAMBDA b : ~IsGlobalBlock(b)))
  IN
  /\ pc = "write"
  /\ caddyfileBlock' = <<>>
  /\ IF processing /\ CanUnmarshal(text)
     THEN candidates' = Sort(Unmarshal(text)) /\ pc' = "process" /\ UNCHANGED content
     ELSE Return(IF processing THEN <<>> ELSE text) /\ UNCHANGED candidates
  /\ UNCHANGED <<options, object, unread, blocksByPath, newContainer>>

----------------------------------------------------------------------------
(* What a container says: its chains, the blocks that lead from the top to    *)
(* one of its blocks, each by its keys.  Every upstream of a proxy is a       *)
(* chain of its own, so that merging adds to them.                           *)

Itself(b) == IF FirstKey(b) \in ReverseProxyLike THEN <<FirstKey(b), GetMatcher(b)>> ELSE b.keys
Added(b) == IF FirstKey(b) \in ReverseProxyLike THEN ToSet(Upstreams(b)) ELSE {}

RECURSIVE Chains(_)
Chains(container) ==
  UNION {LET b == container[k] IN
         {<<Itself(b)>>} \cup {<<Itself(b), <<u>>>> : u \in Added(b)}
           \cup {<<Itself(b)>> \o c : c \in Chains(b.children)} : k \in DOMAIN container}

----------------------------------------------------------------------------
(* Process.  The adapter refuses some keys, an address or snippet that is    *)
(* given twice, an import of a snippet that does not come before, and a      *)
(* global block that is not the first.                                       *)

Import == <<"i">>
Snippet(name) == <<<<"(">> \o name \o <<")">>>>
Imports(c) == Last(c) # <<>> /\ Last(c)[1] = Import

Adapts(container) ==
  /\ \A c \in Chains(container) : ToSet(Last(c)) \cap Refused = {}
  /\ \A k \in DOMAIN container : IsGlobalBlock(container[k]) => k = 1
  /\ \A j, k \in DOMAIN container :
       j # k => ToSet(container[j].keys) \cap ToSet(container[k].keys) = {}
  /\ \A k \in DOMAIN container : \A c \in Chains(<<container[k]>>) :
       Imports(c) => \E j \in 1..(k - 1) : container[j].keys = Snippet(Last(c)[2])

\* Mutant of AfterError: the block is not removed again.
NotRemoved(kept, b) == Append(kept, b)

AfterError(kept, b) == kept

\* One round of the loop of Process.
TryBlock ==
  LET b == Head(candidates) IN
  /\ pc = "process" /\ candidates # <<>>
  /\ candidates' = Tail(candidates)
  /\ newContainer' = IF Adapts(Sort(Append(newContainer, b))) THEN Append(newContainer, b)
                     ELSE AfterError(newContainer, b)
  /\ UNCHANGED <<options, pc, object, unread, blocksByPath, caddyfileBlock, content>>

FinishProcess ==
  /\ pc = "process" /\ candidates = <<>>
  /\ newContainer' = <<>>
  /\ Return(Marshal(newContainer))
  /\ UNCHANGED <<options, object, unread, blocksByPath, caddyfileBlock, candidates>>

Next ==
  \/ Begin
  \/ \E label \in (IF object = 0 THEN {} ELSE DOMAIN docker[object]) : ReadLabel(label)
  \/ MergeObject
  \/ WriteCaddyfile
  \/ TryBlock
  \/ FinishProcess

Spec == Init /\ [][Next]_vars
----------------------------------------------------------------------------
(* Properties *)

\* What the labels of an object ask for, read off each label by itself.
KeysAt(labels, path) ==
  (IF Len(path) = 1 THEN <<>> ELSE <<Last(path).name>>)
    \o (IF path \in DOMAIN labels 
       THEN Texts(AllTokens(Evaluated(labels[path], SetToSeq(Targets)))) ELSE <<>>)
BlockAt(labels, path) == [keys |-> KeysAt(labels, path)]
ChainTo(labels, path) == [n \in DOMAIN path |-> Itself(BlockAt(labels, SubSeq(path, 1, n)))]
Paths(labels) == UNION {{SubSeq(l, 1, n) : n \in DOMAIN l} : l \in DOMAIN labels}

Asked(labels) ==
  IF \E l \in DOMAIN labels : labels[l] = Failing THEN {}
  ELSE UNION {{ChainTo(labels, p)} \cup {Append(ChainTo(labels, p), <<u>>) :
                                           u \in Added(BlockAt(labels, p))} : p \in Paths(labels)}

AskedByFile == IF CanUnmarshal(file) THEN Chains(Unmarshal(file)) ELSE {}

Sources == {AskedByFile} \cup {Asked(docker[k]) : k \in DOMAIN docker}

Written == IF content \in {<<>>, Empty} THEN {} ELSE Chains(Unmarshal(content))

\* Without Process, the Caddyfile, read back, says all that the static one and
\* the labels ask for, and nothing else: labels visited in any order, grouping,
\* merging, sorting, quoting and parsing lose, add and move nothing.  An object
\* of which a template fails is left out.
EverythingIsWritten ==
  pc = "waiting" /\ content # <<>> /\ ~processing => Written = UNION Sources

Addresses(chains) == UNION {ToSet(c[1]) : c \in chains}
Sites(chains) == {c \in chains : c[1] # <<>> /\ Head(c[1][1]) # "("}

AcceptedAlone(chains) ==
  /\ \A c \in chains : ToSet(Last(c)) \cap Refused = {}
  /\ \A c \in chains : Imports(c) => <<Snippet(Last(c)[2])>> \in chains
  /\ \A c, d \in chains : c[1] = d[1] \/ ToSet(c[1]) \cap ToSet(d[1]) = {}

\* README.md:524: with process-caddyfile invalid servers are removed, and no others.
\* What is left is accepted by the adapter, and the sites of an object are in it
\* when its labels are accepted by themselves and nobody else names its addresses
\* or snippets, whatever others bring along.
GoodSitesSurvive ==
  pc = "waiting" /\ content # <<>> /\ processing =>
    /\ Written \subseteq UNION Sources
    /\ content # Empty => Adapts(Unmarshal(content))
    /\ \A s \in Sources :
         AcceptedAlone(s) /\ (\A t \in Sources \ {s} : Addresses(s) \cap Addresses(t) = {})
           => Sites(s) \subseteq Written

\* No object has two blocks that merging cannot tell apart, unless they are in a
\* site it shares with nobody.
Distinct ==
  \A k \in DOMAIN docker : \A p, q \in Paths(docker[k]) :
    p # q /\ ChainTo(docker[k], p) = ChainTo(docker[k], q) =>
      /\ Len(p) > 1
      /\ \A s \in {AskedByFile} \cup {Asked(docker[j]) : j \in DOMAIN docker \ {k}} :
           SubSeq(ChainTo(docker[k], p), 1, 1) \notin s

\* As long as Docker's state does not change, neither does the Caddyfile, whatever
\* order the maps are visited in: update compares it with the last one, and pushes
\* it to every server when it differs (loader.go:265).
StableCaddyfile == [][content # <<>> /\ Distinct => content' = content]_content
=============================================================================

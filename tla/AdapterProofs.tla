---------------------------- MODULE AdapterProofs ----------------------------
(***************************************************************************)
(* Proofs about one call of the Claude adapter, for all batches of checks, *)
(* responses, texts and bounds on the iterations: the conversation is one  *)
(* the API accepts, the evidence is what the model was shown, and the      *)
(* verdicts are those of the text.                                         *)
(***************************************************************************)
EXTENDS ClaudeAdapter, FiniteSetTheorems, WellFoundedInduction, TLAPS

-----------------------------------------------------------------------------
(* The positions a loop meets.                                             *)

\* The least-number principle, from the well-foundedness of < on the naturals.
LEMMA LeastNumber ==
  ASSUME NEW S \in SUBSET Nat, S /= {}
  PROVE  \E n \in S : \A m \in S : n <= m
<1> DEFINE R == OpToRel(<, Nat)
<1>1. \A x, y \in Nat : <<x, y>> \in R <=> x < y
  BY DEF OpToRel
<1>2. IsWellFoundedOn(R, Nat)
  BY NatLessThanWellFounded
<1> HIDE DEF R
<1>3. PICK n \in S : \A m \in S : ~(<<m, n>> \in R)
  BY <1>2, WFMin
<1>4. \A m \in S : ~(m < n)
  BY <1>1, <1>3
<1> QED BY <1>4

\* s enumerates S from the least element to the greatest.
Enumerates(s, S) ==
  /\ s \in [1..Cardinality(S) -> S]
  /\ \A i, j \in 1..Cardinality(S) : i < j => s[i] < s[j]

\* A set of positions up to m has a size.
LEMMA PositionsAreFinite ==
  ASSUME NEW m \in Nat, NEW S \in SUBSET (1..m)
  PROVE  IsFiniteSet(S) /\ Cardinality(S) \in Nat
<1>1. IsFiniteSet(1..m)
  BY FS_Interval
<1>2. IsFiniteSet(S)
  BY <1>1, FS_Subset
<1> QED BY <1>2, FS_CardinalityType

\* Every set of positions has an enumeration.
LEMMA EnumerationExists ==
  ASSUME NEW m \in Nat, NEW S \in SUBSET (1..m)
  PROVE  \E s : Enumerates(s, S)
<1> DEFINE Bad == {n \in Nat : \E T \in SUBSET (1..n) : ~\E s : Enumerates(s, T)}
<1>1. Bad = {}
  <2> SUFFICES ASSUME Bad /= {} PROVE FALSE
    OBVIOUS
  <2>1. PICK n \in Bad : \A k \in Bad : n <= k
    <3>1. Bad \in SUBSET Nat
      OBVIOUS
    <3> HIDE DEF Bad
    <3> QED BY <3>1, LeastNumber
  <2>2. n \in Nat
    OBVIOUS
  <2>3. PICK T \in SUBSET (1..n) : ~\E s : Enumerates(s, T)
    OBVIOUS
  <2>4. n /= 0
    <3> SUFFICES ASSUME n = 0 PROVE FALSE
      OBVIOUS
    <3>1. T = {}
      <4>1. \A x \in 1..n : FALSE
        OBVIOUS
      <4> QED BY <4>1
    <3>2. Cardinality(T) = 0
      BY <3>1, FS_EmptySet
    <3>3. Enumerates([i \in 1..0 |-> 0], T)
      BY <3>1, <3>2 DEF Enumerates
    <3> QED BY <2>3, <3>3
  <2>5. n - 1 \in Nat /\ ~(n <= n - 1)
    BY <2>2, <2>4
  <2>6. n - 1 \notin Bad
    BY <2>1, <2>5
  <2>7. T \ {n} \in SUBSET (1..(n - 1))
    BY <2>2, <2>5
  <2>8. PICK s : Enumerates(s, T \ {n})
    BY <2>5, <2>6, <2>7
  <2>9. n \in T
    <3> SUFFICES ASSUME n \notin T PROVE FALSE
      OBVIOUS
    <3>1. T \ {n} = T
      OBVIOUS
    <3> QED BY <2>3, <2>8, <3>1
  <2>10. IsFiniteSet(T) /\ Cardinality(T) \in Nat
    BY <2>2, PositionsAreFinite
  <2>11. Cardinality(T \ {n}) = Cardinality(T) - 1 /\ Cardinality(T \ {n}) \in Nat
    BY <2>5, <2>7, <2>9, <2>10, FS_RemoveElement, PositionsAreFinite
  <2> DEFINE c == Cardinality(T)
             t == [i \in 1..c |-> IF i = c THEN n ELSE s[i]]
  <2>12. c \in Nat \ {0} /\ Cardinality(T \ {n}) = c - 1
    BY <2>10, <2>11
  <2> HIDE DEF c
  <2>13. s \in [1..(c - 1) -> T \ {n}] /\ \A i, j \in 1..(c - 1) : i < j => s[i] < s[j]
    BY <2>8, <2>12 DEF Enumerates
  <2>14. \A i \in 1..c : i /= c => i \in 1..(c - 1)
    BY <2>12
  <2>15. \A i \in 1..(c - 1) : s[i] \in T /\ s[i] < n
    <3>1. \A x \in T \ {n} : x \in T /\ x < n
      <4>1. \A x \in 1..(n - 1) : x < n
        BY <2>2
      <4> QED BY <2>7, <4>1
    <3> QED BY <2>13, <3>1
  <2>16. t \in [1..c -> T]
    BY <2>9, <2>14, <2>15
  <2>17. \A i, j \in 1..c : i < j => t[i] < t[j]
    <3> TAKE i, j \in 1..c
    <3> HAVE i < j
    <3>1. i \in 1..(c - 1) /\ t[i] = s[i]
      BY <2>12, <2>14
    <3>2. CASE j = c
      BY <2>12, <2>15, <3>1, <3>2
    <3>3. CASE j /= c
      BY <2>13, <2>14, <3>1, <3>3
    <3> QED BY <3>2, <3>3
  <2>18. Enumerates(t, T)
    BY <2>16, <2>17 DEF Enumerates, c
  <2> QED BY <2>3, <2>18
<1> QED BY <1>1

\* What InOrder(S) is.
LEMMA InOrderEnumerates ==
  ASSUME NEW m \in Nat, NEW S \in SUBSET (1..m)
  PROVE  /\ Enumerates(InOrder(S), S)
         /\ Cardinality(S) \in Nat
         /\ \A x \in S : \E i \in 1..Cardinality(S) : InOrder(S)[i] = x
<1> DEFINE c == Cardinality(S)
<1>1. c \in Nat /\ IsFiniteSet(S)
  BY PositionsAreFinite
<1>2. \E s \in [1..c -> S] : \A i, j \in DOMAIN s : i < j => s[i] < s[j]
  BY EnumerationExists DEF Enumerates
<1>3. InOrder(S) \in [1..c -> S] /\
      \A i, j \in DOMAIN InOrder(S) : i < j => InOrder(S)[i] < InOrder(S)[j]
  BY <1>2 DEF InOrder
<1>4. Enumerates(InOrder(S), S)
  BY <1>3 DEF Enumerates
<1> DEFINE s == InOrder(S)
<1> HIDE DEF s, c
<1>5. s \in [1..c -> S] /\ \A i, j \in 1..c : i < j => s[i] < s[j]
  BY <1>3 DEF s
<1>6. \A i, j \in 1..c : s[i] = s[j] => i = j
  <2>1. \A x \in S : x \in Nat
    <3>1. \A x \in 1..m : x \in Nat
      OBVIOUS
    <3> QED BY <3>1
  <2>2. \A i \in 1..c : s[i] \in Nat
    BY <1>5, <2>1
  <2> QED BY <1>1, <1>5, <2>2
<1>7. s \in Injection(1..c, S)
  BY <1>5, <1>6 DEF Injection, IsInjective
<1>8. Cardinality(1..c) = c
  BY <1>1, FS_Interval
<1>9. s \in Surjection(1..c, S)
  BY <1>1, <1>7, <1>8, FS_Injection DEF c
<1>10. \A x \in S : \E i \in 1..c : s[i] = x
  BY <1>9 DEF Surjection
<1> QED BY <1>1, <1>4, <1>10 DEF s, c

\* An ascending list of positions.
Ascends(s, c) ==
  /\ c \in Nat /\ s \in [1..c -> Nat]
  /\ \A i, j \in 1..c : i < j => s[i] < s[j]

\* A list that has all elements of another one begins like it.
LEMMA AscendingPrefix ==
  ASSUME NEW c, NEW d, NEW s, NEW t, Ascends(s, c), Ascends(t, d),
         \A i \in 1..c : \E j \in 1..d : s[i] = t[j],
         \A j \in 1..d : \E i \in 1..c : s[i] = t[j]
  PROVE  \A i \in 1..c : i \in 1..d /\ s[i] = t[i]
<1> DEFINE Bad == {i \in 1..c : ~(i \in 1..d /\ s[i] = t[i])}
<1> SUFFICES ASSUME Bad /= {} PROVE FALSE
  OBVIOUS
<1>1. c \in Nat /\ d \in Nat
  BY DEF Ascends
<1>2. PICK i \in Bad : \A k \in Bad : i <= k
  <2>1. Bad \in SUBSET Nat
    BY <1>1
  <2> HIDE DEF Bad
  <2> QED BY <2>1, LeastNumber
<1>3. i \in 1..c /\ ~(i \in 1..d /\ s[i] = t[i])
  OBVIOUS
<1>4. \A k \in 1..c : k < i => k \in 1..d /\ s[k] = t[k]
  BY <1>1, <1>2, <1>3
<1> HIDE DEF Bad
<1>5. PICK j \in 1..d : s[i] = t[j]
  BY <1>3
<1>6. ~(j < i)
  <2> SUFFICES ASSUME j < i PROVE FALSE
    OBVIOUS
  <2>1. j \in 1..c
    BY <1>1, <1>3, <1>5
  <2>2. s[j] = s[i] /\ s[j] < s[i] /\ s[i] \in Nat
    BY <1>3, <1>4, <1>5, <2>1 DEF Ascends
  <2> QED BY <2>2
<1>7. i \in 1..d /\ i < j
  <2>1. i /= j
    BY <1>3, <1>5
  <2>2. i \in Nat /\ j \in Nat /\ 1 <= i /\ j <= d
    BY <1>1, <1>3, <1>5
  <2> QED BY <1>1, <1>6, <2>1, <2>2
<1>8. t[i] < s[i] /\ t[i] \in Nat /\ s[i] \in Nat
  BY <1>3, <1>5, <1>7 DEF Ascends
<1>9. PICK k \in 1..c : s[k] = t[i]
  BY <1>7
<1>10. k < i
  <2> SUFFICES ASSUME ~(k < i) PROVE FALSE
    OBVIOUS
  <2>1. k = i \/ i < k
    BY <1>1, <1>3, <1>9
  <2>2. i < k => s[i] < s[k]
    BY <1>3, <1>9 DEF Ascends
  <2>3. s[i] <= s[k]
    BY <1>8, <1>9, <2>1, <2>2
  <2> QED BY <1>8, <1>9, <2>3
<1>11. t[k] = t[i] /\ t[k] < t[i]
  BY <1>4, <1>7, <1>9, <1>10 DEF Ascends
<1> QED BY <1>8, <1>11

\* The order determines the list.
LEMMA SameOrder ==
  ASSUME NEW c, NEW d, NEW s, NEW t, Ascends(s, c), Ascends(t, d),
         \A i \in 1..c : \E j \in 1..d : s[i] = t[j],
         \A j \in 1..d : \E i \in 1..c : s[i] = t[j]
  PROVE  c = d /\ s = t
<1>1. \A i \in 1..c : i \in 1..d /\ s[i] = t[i]
  BY AscendingPrefix
<1>2. \A i \in 1..d : i \in 1..c /\ t[i] = s[i]
  BY AscendingPrefix
<1>3. c \in Nat /\ d \in Nat
  BY DEF Ascends
<1>4. c = d
  <2>1. ~(c > d)
    <3> SUFFICES ASSUME c > d PROVE FALSE
      OBVIOUS
    <3>1. c \in 1..c /\ c \notin 1..d
      BY <1>3
    <3> QED BY <1>1, <3>1
  <2>2. ~(d > c)
    <3> SUFFICES ASSUME d > c PROVE FALSE
      OBVIOUS
    <3>1. d \in 1..d /\ d \notin 1..c
      BY <1>3
    <3> QED BY <1>2, <3>1
  <2> QED BY <1>3, <2>1, <2>2
<1>5. s = t
  BY <1>1, <1>4 DEF Ascends
<1> QED BY <1>4, <1>5

\* InOrder as such a list.
LEMMA InOrderAscends ==
  ASSUME NEW m \in Nat, NEW S \in SUBSET (1..m)
  PROVE  \E c \in Nat :
           /\ Ascends(InOrder(S), c) /\ DOMAIN InOrder(S) = 1..c
           /\ \A i \in 1..c : InOrder(S)[i] \in S
           /\ \A x \in S : \E i \in 1..c : InOrder(S)[i] = x
<1>1. \A x \in S : x \in Nat
  <2>1. \A x \in 1..m : x \in Nat
    OBVIOUS
  <2> QED BY <2>1
<1>2. /\ InOrder(S) \in [1..Cardinality(S) -> S]
      /\ \A i, j \in 1..Cardinality(S) : i < j => InOrder(S)[i] < InOrder(S)[j]
      /\ Cardinality(S) \in Nat
      /\ \A x \in S : \E i \in 1..Cardinality(S) : InOrder(S)[i] = x
  BY InOrderEnumerates DEF Enumerates
<1>3. InOrder(S) \in [1..Cardinality(S) -> Nat]
  BY <1>1, <1>2
<1> QED BY <1>2, <1>3 DEF Ascends

\* All positions in order.
LEMMA InOrderOfAll ==
  ASSUME NEW m \in Nat
  PROVE  InOrder(1..m) = [i \in 1..m |-> i]
<1> DEFINE s == InOrder(1..m)
           t == [i \in 1..m |-> i]
<1>1. PICK c \in Nat : /\ Ascends(s, c)
                       /\ \A i \in 1..c : s[i] \in 1..m
                       /\ \A x \in 1..m : \E i \in 1..c : s[i] = x
  BY InOrderAscends
<1>2. Ascends(t, m)
  BY DEF Ascends
<1>3. \A x \in 1..m : t[x] = x
  OBVIOUS
<1> HIDE DEF s, t
<1>4. \A i \in 1..c : \E j \in 1..m : s[i] = t[j]
  BY <1>1, <1>3
<1>5. \A j \in 1..m : \E i \in 1..c : s[i] = t[j]
  BY <1>1, <1>3
<1>6. s = t
  BY <1>1, <1>2, <1>4, <1>5, SameOrder
<1> QED BY <1>6 DEF s, t

\* Nothing in order.
LEMMA InOrderOfNone == InOrder({}) = << >>
<1>1. \A i \in 1..0 : FALSE
  OBVIOUS
<1>2. 1..0 = {}
  BY <1>1
<1>3. InOrder(1..0) = [i \in 1..0 |-> i]
  BY InOrderOfAll
<1>4. [i \in 1..0 |-> i] = << >>
  OBVIOUS
<1> QED BY <1>2, <1>3, <1>4
-----------------------------------------------------------------------------
(* The turns of the conversation.                                          *)

\* What content a message can have.
Blocks == [type : {"text", "tool_use", "tool_result"}, id : Nat \X Nat,
           content : {"text", "input", "output", "error"}]

Turns == [role : {"user", "assistant"}, content : Seq(Blocks)]

\* Of a list of blocks of one type, BlocksOf is the list.
LEMMA BlocksOfAll ==
  ASSUME NEW content \in Seq(Blocks), NEW role, NEW type,
         \A i \in DOMAIN content : content[i].type = type
  PROVE  BlocksOf(Message(role, content), type) = content
<1> DEFINE at == InOrder({i \in DOMAIN content : content[i].type = type})
<1>1. Len(content) \in Nat /\ DOMAIN content = 1..Len(content)
  OBVIOUS
<1>2. {i \in DOMAIN content : content[i].type = type} = 1..Len(content)
  BY <1>1
<1>3. at = [i \in 1..Len(content) |-> i]
  BY <1>1, <1>2, InOrderOfAll
<1>4. BlocksOf(Message(role, content), type) = [k \in DOMAIN at |-> content[at[k]]]
  BY DEF BlocksOf, Message
<1> HIDE DEF at
<1>5. DOMAIN at = 1..Len(content) /\ \A k \in 1..Len(content) : at[k] = k
  BY <1>3
<1>6. content = [k \in 1..Len(content) |-> content[k]]
  BY <1>1
<1> QED BY <1>4, <1>5, <1>6

\* Of a list without blocks of a type, it is empty.
LEMMA BlocksOfNone ==
  ASSUME NEW content \in Seq(Blocks), NEW role, NEW type,
         \A i \in DOMAIN content : content[i].type /= type
  PROVE  BlocksOf(Message(role, content), type) = << >>
<1> DEFINE at == InOrder({i \in DOMAIN content : content[i].type = type})
<1>1. {i \in DOMAIN content : content[i].type = type} = {}
  OBVIOUS
<1>2. at = << >>
  BY <1>1, InOrderOfNone
<1>3. BlocksOf(Message(role, content), type) = [k \in DOMAIN at |-> content[at[k]]]
  BY DEF BlocksOf, Message
<1> HIDE DEF at
<1> QED BY <1>2, <1>3

\* A response that can be processed.
Processed ==
  /\ iterations \in Nat
  /\ resp.content \in Seq({"text", "tool_use", "bad", "other"})

\* The tool uses of a response, in order.
LEMMA ToolUsesInOrder ==
  ASSUME Processed
  PROVE  \E c \in Nat :
           /\ Ascends(ToolUses, c) /\ DOMAIN ToolUses = 1..c
           /\ \A k \in 1..c : ToolUses[k] \in DOMAIN resp.content
                              /\ resp.content[ToolUses[k]] = "tool_use"
           /\ \A i \in DOMAIN resp.content :
                resp.content[i] = "tool_use" => \E k \in 1..c : ToolUses[k] = i
<1> DEFINE S == {i \in DOMAIN resp.content : resp.content[i] = "tool_use"}
<1>1. Len(resp.content) \in Nat /\ DOMAIN resp.content = 1..Len(resp.content)
  BY DEF Processed
<1>2. S \in SUBSET (1..Len(resp.content)) /\ ToolUses = InOrder(S)
  BY <1>1 DEF ToolUses
<1>3. \A i : i \in S <=> i \in DOMAIN resp.content /\ resp.content[i] = "tool_use"
  OBVIOUS
<1> HIDE DEF S
<1>4. PICK c \in Nat :
        /\ Ascends(InOrder(S), c) /\ DOMAIN InOrder(S) = 1..c
        /\ \A k \in 1..c : InOrder(S)[k] \in S
        /\ \A i \in S : \E k \in 1..c : InOrder(S)[k] = i
  BY <1>1, <1>2, InOrderAscends
<1> QED BY <1>2, <1>3, <1>4

\* The user's turn: one result per tool use, in their order.
LEMMA ToolResultsTurn ==
  ASSUME Processed, NEW outputs \in [DOMAIN ToolUses -> {"output", "error"}]
  PROVE  /\ ToolResults(outputs) \in Seq(Blocks)
         /\ DOMAIN ToolResults(outputs) = DOMAIN ToolUses
         /\ \A k \in DOMAIN ToolUses :
              /\ ToolResults(outputs)[k].type = "tool_result"
              /\ ToolResults(outputs)[k].id = <<iterations, ToolUses[k]>>
<1>1. PICK c \in Nat : Ascends(ToolUses, c) /\ DOMAIN ToolUses = 1..c
  BY ToolUsesInOrder
<1>2. \A k \in 1..c : ToolUses[k] \in Nat
  BY <1>1 DEF Ascends
<1>3. ToolResults(outputs) =
        [k \in 1..c |-> Block("tool_result", <<iterations, ToolUses[k]>>, outputs[k])]
  BY <1>1 DEF ToolResults
<1>4. \A k \in 1..c : Block("tool_result", <<iterations, ToolUses[k]>>, outputs[k]) \in Blocks
  BY <1>1, <1>2 DEF Block, Blocks, Processed
<1>5. ToolResults(outputs) \in [1..c -> Blocks]
  BY <1>3, <1>4
<1>6. ToolResults(outputs) \in Seq(Blocks)
  BY <1>5
<1>7. \A k \in 1..c : /\ ToolResults(outputs)[k].type = "tool_result"
                      /\ ToolResults(outputs)[k].id = <<iterations, ToolUses[k]>>
  BY <1>3 DEF Block
<1> QED BY <1>1, <1>5, <1>6, <1>7

\* The positions of the blocks that are sent back.
KeptPositions == {i \in DOMAIN resp.content : resp.content[i] \in {"text", "tool_use"}}

\* The assistant's turn: text and tool uses, in their order.
LEMMA AssistantTurn ==
  ASSUME Processed
  PROVE  \E d \in Nat : \E kept :
           /\ Ascends(kept, d)
           /\ \A k \in 1..d : kept[k] \in KeptPositions
           /\ \A i \in KeptPositions : \E k \in 1..d : kept[k] = i
           /\ AssistantContent \in Seq(Blocks) /\ DOMAIN AssistantContent = 1..d
           /\ \A k \in 1..d :
                /\ AssistantContent[k].type = resp.content[kept[k]]
                /\ resp.content[kept[k]] = "tool_use" =>
                     AssistantContent[k].id = <<iterations, kept[k]>>
<1> DEFINE kept == InOrder(KeptPositions)
<1>1. Len(resp.content) \in Nat /\ DOMAIN resp.content = 1..Len(resp.content)
  BY DEF Processed
<1>2. KeptPositions \in SUBSET (1..Len(resp.content))
  BY <1>1 DEF KeptPositions
<1>3. PICK d \in Nat :
        /\ Ascends(kept, d) /\ DOMAIN kept = 1..d
        /\ \A k \in 1..d : kept[k] \in KeptPositions
        /\ \A i \in KeptPositions : \E k \in 1..d : kept[k] = i
  BY <1>1, <1>2, InOrderAscends
<1>4. AssistantContent =
        [k \in DOMAIN kept |-> IF resp.content[kept[k]] = "text" THEN Text
                               ELSE Block("tool_use", <<iterations, kept[k]>>, "input")]
  BY DEF AssistantContent, KeptPositions
<1> HIDE DEF kept
<1>5. \A k \in 1..d : kept[k] \in Nat /\ resp.content[kept[k]] \in {"text", "tool_use"}
  BY <1>3 DEF Ascends, KeptPositions
<1>6. \A k \in 1..d :
        AssistantContent[k] = IF resp.content[kept[k]] = "text" THEN Text
                              ELSE Block("tool_use", <<iterations, kept[k]>>, "input")
  BY <1>3, <1>4
<1>7. Text \in Blocks /\ Text.type = "text"
  BY DEF Text, Block, Blocks
<1>8. \A n \in Nat : LET b == Block("tool_use", <<iterations, n>>, "input") IN
                     b \in Blocks /\ b.type = "tool_use" /\ b.id = <<iterations, n>>
  BY DEF Block, Blocks, Processed
<1>9. \A k \in 1..d :
        /\ AssistantContent[k] \in Blocks
        /\ AssistantContent[k].type = resp.content[kept[k]]
        /\ resp.content[kept[k]] = "tool_use" =>
             AssistantContent[k].id = <<iterations, kept[k]>>
  BY <1>5, <1>6, <1>7, <1>8
<1>10. DOMAIN AssistantContent = 1..d /\ AssistantContent \in [1..d -> Blocks]
  BY <1>3, <1>4, <1>9
<1>11. AssistantContent \in Seq(Blocks)
  BY <1>10
<1> QED BY <1>3, <1>9, <1>10, <1>11

\* Each tool use of the assistant's turn has its result in the user's turn that
\* follows, in order, whatever blocks were left out between them.
LEMMA TurnsMatch ==
  ASSUME Processed, NEW outputs \in [DOMAIN ToolUses -> {"output", "error"}]
  PROVE  IDsOf(Message("user", ToolResults(outputs)), "tool_result")
           = IDsOf(Message("assistant", AssistantContent), "tool_use")
<1> DEFINE R == ToolResults(outputs)
           A == AssistantContent
           at == InOrder({k \in DOMAIN A : A[k].type = "tool_use"})
<1>1. PICK c \in Nat :
        /\ Ascends(ToolUses, c) /\ DOMAIN ToolUses = 1..c
        /\ \A k \in 1..c : ToolUses[k] \in DOMAIN resp.content
                           /\ resp.content[ToolUses[k]] = "tool_use"
        /\ \A i \in DOMAIN resp.content :
             resp.content[i] = "tool_use" => \E k \in 1..c : ToolUses[k] = i
  BY ToolUsesInOrder
<1>2. PICK d \in Nat : \E kept :
           /\ Ascends(kept, d)
           /\ \A k \in 1..d : kept[k] \in KeptPositions
           /\ \A i \in KeptPositions : \E k \in 1..d : kept[k] = i
           /\ AssistantContent \in Seq(Blocks) /\ DOMAIN AssistantContent = 1..d
           /\ \A k \in 1..d :
                /\ AssistantContent[k].type = resp.content[kept[k]]
                /\ resp.content[kept[k]] = "tool_use" =>
                     AssistantContent[k].id = <<iterations, kept[k]>>
  BY AssistantTurn
<1>3. PICK kept :
        /\ Ascends(kept, d)
        /\ \A k \in 1..d : kept[k] \in KeptPositions
        /\ \A i \in KeptPositions : \E k \in 1..d : kept[k] = i
        /\ DOMAIN A = 1..d
        /\ \A k \in 1..d :
             /\ A[k].type = resp.content[kept[k]]
             /\ resp.content[kept[k]] = "tool_use" => A[k].id = <<iterations, kept[k]>>
  BY <1>2
<1>4. BlocksOf(Message("assistant", A), "tool_use") = [k \in DOMAIN at |-> A[at[k]]]
  BY DEF BlocksOf, Message
<1> HIDE DEF A
<1> DEFINE S == {k \in DOMAIN A : A[k].type = "tool_use"}
<1>5. S \in SUBSET (1..d) /\ \A k \in 1..d : k \in S <=> A[k].type = "tool_use"
  BY <1>3
<1>6. PICK e \in Nat :
        /\ Ascends(at, e) /\ DOMAIN at = 1..e
        /\ \A k \in 1..e : at[k] \in S
        /\ \A x \in S : \E k \in 1..e : at[k] = x
  BY <1>5, InOrderAscends
<1> HIDE DEF at, S
<1> DEFINE g == [k \in 1..e |-> kept[at[k]]]
<1>7. \A k \in 1..e : at[k] \in 1..d /\ resp.content[kept[at[k]]] = "tool_use"
                      /\ kept[at[k]] \in KeptPositions /\ kept[at[k]] \in Nat
  BY <1>3, <1>5, <1>6 DEF Ascends
<1>8. Ascends(g, e)
  <2>1. g \in [1..e -> Nat]
    BY <1>7
  <2>2. \A i, j \in 1..e : i < j => at[i] < at[j]
    BY <1>6 DEF Ascends
  <2>3. \A i, j \in 1..e : i < j => kept[at[i]] < kept[at[j]]
    BY <1>3, <1>7, <2>2 DEF Ascends
  <2> QED BY <2>1, <2>3 DEF Ascends
<1>9. \A k \in 1..e : \E j \in 1..c : g[k] = ToolUses[j]
  <2> TAKE k \in 1..e
  <2>1. g[k] \in DOMAIN resp.content /\ resp.content[g[k]] = "tool_use"
    BY <1>7 DEF KeptPositions
  <2> QED BY <1>1, <2>1
<1>10. \A j \in 1..c : \E k \in 1..e : g[k] = ToolUses[j]
  <2> TAKE j \in 1..c
  <2>1. ToolUses[j] \in KeptPositions /\ resp.content[ToolUses[j]] = "tool_use"
    BY <1>1 DEF KeptPositions
  <2>2. PICK x \in 1..d : kept[x] = ToolUses[j]
    BY <1>3, <2>1
  <2>3. x \in S
    BY <1>3, <1>5, <2>1, <2>2
  <2>4. PICK k \in 1..e : at[k] = x
    BY <1>6, <2>3
  <2>5. g[k] = ToolUses[j]
    BY <2>2, <2>4
  <2> QED BY <2>5
<1>11. e = c /\ g = ToolUses
  <2> HIDE DEF g
  <2> QED BY <1>1, <1>8, <1>9, <1>10, SameOrder
<1>12. \A k \in 1..c : A[at[k]].id = <<iterations, ToolUses[k]>>
  <2>1. \A k \in 1..e : g[k] = kept[at[k]]
    OBVIOUS
  <2> HIDE DEF g
  <2> QED BY <1>3, <1>7, <1>11, <2>1
<1>13. IDsOf(Message("assistant", A), "tool_use") = [k \in 1..c |-> <<iterations, ToolUses[k]>>]
  <2>1. IDsOf(Message("assistant", A), "tool_use")
          = [k \in 1..e |-> A[at[k]].id]
    BY <1>4, <1>6 DEF IDsOf
  <2> HIDE DEF g
  <2> QED BY <1>11, <1>12, <2>1
<1>14. /\ R \in Seq(Blocks) /\ DOMAIN R = 1..c
       /\ \A k \in 1..c : R[k].type = "tool_result" /\ R[k].id = <<iterations, ToolUses[k]>>
  BY <1>1, ToolResultsTurn
<1> HIDE DEF R
<1>15. BlocksOf(Message("user", R), "tool_result") = R
  BY <1>14, BlocksOfAll
<1>16. IDsOf(Message("user", R), "tool_result") = [k \in 1..c |-> <<iterations, ToolUses[k]>>]
  BY <1>14, <1>15 DEF IDsOf
<1> QED BY <1>13, <1>16 DEF A, R
-----------------------------------------------------------------------------
(* The evidence.                                                           *)

\* How FlattenSeq puts the first k sequences together.
Flattens(f, seqs, k) ==
  f = [i \in 1..k |-> IF i = 1 THEN seqs[i] ELSE f[i - 1] \o seqs[i]]

\* These steps can be made for any number of sequences.
LEMMA FlattensExists ==
  ASSUME NEW seqs, NEW k \in Nat
  PROVE  \E f : Flattens(f, seqs, k)
<1> DEFINE Bad == {n \in Nat : ~\E f : Flattens(f, seqs, n)}
<1>1. Bad = {}
  <2> SUFFICES ASSUME Bad /= {} PROVE FALSE
    OBVIOUS
  <2>1. PICK n \in Bad : \A m \in Bad : n <= m
    <3>1. Bad \in SUBSET Nat
      OBVIOUS
    <3> HIDE DEF Bad
    <3> QED BY <3>1, LeastNumber
  <2>2. n \in Nat /\ ~\E f : Flattens(f, seqs, n)
    OBVIOUS
  <2>3. n /= 0
    <3> SUFFICES ASSUME n = 0 PROVE FALSE
      OBVIOUS
    <3>1. \A i \in 1..0 : FALSE
      OBVIOUS
    <3> DEFINE f == [i \in 1..0 |-> 0]
    <3>2. f = [i \in 1..0 |-> IF i = 1 THEN seqs[i] ELSE f[i - 1] \o seqs[i]]
      BY <3>1
    <3> QED BY <2>2, <3>2 DEF Flattens
  <2>4. n - 1 \in Nat /\ ~(n <= n - 1)
    BY <2>2, <2>3
  <2>5. n - 1 \notin Bad
    BY <2>1, <2>4
  <2>6. PICK f : Flattens(f, seqs, n - 1)
    BY <2>4, <2>5
  <2>7. f = [i \in 1..(n - 1) |-> IF i = 1 THEN seqs[i] ELSE f[i - 1] \o seqs[i]]
    BY <2>6 DEF Flattens
  <2> DEFINE h == [i \in 1..n |-> IF i < n THEN f[i]
                                  ELSE IF i = 1 THEN seqs[i] ELSE f[i - 1] \o seqs[i]]
  <2>8. \A i \in 1..n : h[i] = IF i = 1 THEN seqs[i] ELSE h[i - 1] \o seqs[i]
    <3> TAKE i \in 1..n
    <3>1. i \in Nat /\ (i /= 1 => i - 1 \in 1..n /\ i - 1 < n)
      BY <2>2
    <3>2. i /= 1 => h[i - 1] = f[i - 1]
      BY <3>1
    <3>3. CASE i = n
      BY <3>1, <3>2, <3>3
    <3>4. CASE i /= n
      <4>1. i \in 1..(n - 1) /\ i < n
        BY <2>2, <3>1, <3>4
      <4>2. h[i] = f[i]
        BY <4>1
      <4>3. f[i] = IF i = 1 THEN seqs[i] ELSE f[i - 1] \o seqs[i]
        BY <2>7, <4>1
      <4> QED BY <3>2, <4>2, <4>3
    <3> QED BY <3>3, <3>4
  <2>9. h = [i \in 1..n |-> h[i]]
    OBVIOUS
  <2> HIDE DEF h
  <2>10. Flattens(h, seqs, n)
    BY <2>8, <2>9 DEF Flattens
  <2> QED BY <2>2, <2>10
<1> QED BY <1>1

\* FlattenSeq is what these steps end with.
LEMMA FlattenSeqSteps ==
  ASSUME NEW seqs, Len(seqs) \in Nat \ {0}
  PROVE  \E f : Flattens(f, seqs, Len(seqs)) /\ FlattenSeq(seqs) = f[Len(seqs)]
<1> DEFINE flatten ==
      CHOOSE f : f = [i \in 1..Len(seqs) |-> IF i = 1 THEN seqs[i] ELSE f[i - 1] \o seqs[i]]
<1>1. FlattenSeq(seqs) = flatten[Len(seqs)]
  BY DEF FlattenSeq
<1>2. \E f : f = [i \in 1..Len(seqs) |-> IF i = 1 THEN seqs[i] ELSE f[i - 1] \o seqs[i]]
  BY FlattensExists DEF Flattens
<1>3. flatten = [i \in 1..Len(seqs) |-> IF i = 1 THEN seqs[i] ELSE flatten[i - 1] \o seqs[i]]
  BY <1>2, Zenon
<1> HIDE DEF flatten
<1> QED BY <1>1, <1>3 DEF Flattens

\* One more sequence is put at the end.
LEMMA FlattenAppend ==
  ASSUME NEW T, NEW seqs \in Seq(T), Len(seqs) /= 0, NEW last \in T
  PROVE  FlattenSeq(Append(seqs, last)) = FlattenSeq(seqs) \o last
<1> DEFINE n == Len(seqs)
           more == Append(seqs, last)
<1>1. /\ n \in Nat \ {0} /\ Len(more) = n + 1 /\ more[n + 1] = last
      /\ \A i \in 1..n : more[i] = seqs[i]
  OBVIOUS
<1> HIDE DEF n, more
<1>2. PICK f : Flattens(f, seqs, n) /\ FlattenSeq(seqs) = f[n]
  BY <1>1, FlattenSeqSteps DEF n
<1>3. PICK h : Flattens(h, more, n + 1) /\ FlattenSeq(more) = h[n + 1]
  BY <1>1, FlattenSeqSteps
<1>4. \A i \in 1..n : f[i] = IF i = 1 THEN seqs[i] ELSE f[i - 1] \o seqs[i]
  BY <1>2 DEF Flattens
<1>5. \A i \in 1..(n + 1) : h[i] = IF i = 1 THEN more[i] ELSE h[i - 1] \o more[i]
  BY <1>3 DEF Flattens
<1> DEFINE Bad == {i \in 1..n : f[i] /= h[i]}
<1>6. Bad = {}
  <2> SUFFICES ASSUME Bad /= {} PROVE FALSE
    OBVIOUS
  <2>1. PICK i \in Bad : \A j \in Bad : i <= j
    <3>1. Bad \in SUBSET Nat
      BY <1>1
    <3> HIDE DEF Bad
    <3> QED BY <3>1, LeastNumber
  <2>2. i \in 1..n /\ i \in 1..(n + 1) /\ f[i] /= h[i]
    BY <1>1
  <2>3. i /= 1 => i - 1 \in 1..n /\ ~(i <= i - 1)
    BY <1>1, <2>2
  <2>4. i /= 1 => f[i - 1] = h[i - 1]
    BY <2>1, <2>3
  <2> QED BY <1>1, <1>4, <1>5, <2>2, <2>4
<1>7. f[n] = h[n]
  BY <1>1, <1>6
<1>8. n + 1 \in 1..(n + 1) /\ n + 1 /= 1 /\ (n + 1) - 1 = n
  BY <1>1
<1>9. h[n + 1] = h[n] \o last
  BY <1>1, <1>5, <1>8
<1> QED BY <1>2, <1>3, <1>7, <1>9 DEF more
-----------------------------------------------------------------------------
(* The inductive invariant.                                                *)

\* What the model was shown, turn by turn.
Shown == [i \in DOMAIN messages |-> BlocksOf(messages[i], "tool_result")]

\* The conversation of ConversationAccepted, whether or not the API is called next.
Talk ==
  /\ messages \in Seq(Turns)
  /\ Len(messages) % 2 = 1
  /\ \A i \in DOMAIN messages :
       /\ messages[i].role = IF i % 2 = 1 THEN "user" ELSE "assistant"
       /\ messages[i].content /= <<>>
       /\ i % 2 = 0 =>
            IDsOf(messages[i + 1], "tool_result") = IDsOf(messages[i], "tool_use")

\* A response of the API, or none yet.
Response ==
  /\ resp.stop \in {"none", "end_turn", "stop", "tool_use", "max_tokens"}
  /\ resp.content \in Seq({"text", "tool_use", "bad", "other"})
  /\ resp.text \in Seq(Tokens)
  /\ pc = "respond" =>
       /\ resp.stop /= "none"
       /\ resp.stop = "tool_use" => \E i \in DOMAIN resp.content : resp.content[i] = "tool_use"

\* The conversation is kept acceptable, the evidence is collected as it is shown,
\* and verdicts come from the last response and from nothing else.
AdapterInv ==
  /\ iterations \in Nat /\ Response /\ allToolCalls \in Seq(Blocks)
  /\ pc = "idle" => allToolCalls = <<>>
  /\ pc /= "idle" => checks \in Batches /\ Talk /\ allToolCalls = FlattenSeq(Shown)
  /\ Answered =>
       /\ resp.stop \in {"end_turn", "stop", "max_tokens"}
       /\ outcome.verdicts = Parse(resp.text) /\ outcome.evidence = allToolCalls

\* The blocks of a type are blocks.
LEMMA BlocksOfType ==
  ASSUME NEW turn \in Turns, NEW type
  PROVE  BlocksOf(turn, type) \in Seq(Blocks)
<1> DEFINE S == {i \in DOMAIN turn.content : turn.content[i].type = type}
           at == InOrder(S)
<1>1. /\ turn.content \in Seq(Blocks)
      /\ Len(turn.content) \in Nat /\ DOMAIN turn.content = 1..Len(turn.content)
  BY DEF Turns
<1>2. BlocksOf(turn, type) = [k \in DOMAIN at |-> turn.content[at[k]]]
  BY DEF BlocksOf
<1>3. S \in SUBSET (1..Len(turn.content))
  BY <1>1
<1> HIDE DEF S
<1>4. PICK c \in Nat : DOMAIN at = 1..c /\ \A k \in 1..c : at[k] \in S
  BY <1>1, <1>3, InOrderAscends
<1> HIDE DEF at
<1>5. \A k \in 1..c : turn.content[at[k]] \in Blocks
  <2>1. \A i \in 1..Len(turn.content) : turn.content[i] \in Blocks
    BY <1>1
  <2>2. \A k \in 1..c : at[k] \in 1..Len(turn.content)
    BY <1>3, <1>4
  <2> QED BY <2>1, <2>2
<1>6. BlocksOf(turn, type) \in [1..c -> Blocks]
  BY <1>2, <1>4, <1>5
<1> QED BY <1>6

\* A function on 1..n is a sequence.
LEMMA FunctionIsSeq ==
  ASSUME NEW T, NEW n \in Nat, NEW f \in [1..n -> T]
  PROVE  f \in Seq(T) /\ Len(f) = n
OBVIOUS

\* The messages take turns.
LEMMA Parity ==
  ASSUME NEW n \in Nat
  PROVE  /\ n % 2 = 1 => (n + 1) % 2 = 0 /\ (n + 2) % 2 = 1
         /\ n % 2 \in {0, 1}
OBVIOUS

\* Before the call there is nothing.
LEMMA InitAdapterInv == Init => AdapterInv
<1> SUFFICES ASSUME Init PROVE AdapterInv
  OBVIOUS
<1>1. pc = "idle" /\ iterations = 0 /\ allToolCalls = <<>> /\ resp = NoResponse
  BY DEF Init
<1>2. Response
  BY <1>1 DEF Response, NoResponse
<1>3. allToolCalls \in Seq(Blocks)
  BY <1>1
<1> QED BY <1>1, <1>2, <1>3 DEF AdapterInv, Answered

\* The first message.
LEMMA BeginKeeps ==
  ASSUME AdapterInv, Begin
  PROVE  AdapterInv'
<1> DEFINE m == Message("user", <<Text>>)
<1>1. /\ pc = "idle" /\ pc' = "call" /\ checks' \in Batches /\ messages' = <<m>>
      /\ resp' = resp /\ allToolCalls' = allToolCalls /\ iterations' = iterations
  BY DEF Begin
<1>2. Text \in Blocks /\ Text.type = "text"
  BY DEF Text, Block, Blocks
<1>3. <<Text>> \in Seq(Blocks) /\ DOMAIN <<Text>> = 1..1 /\ <<Text>>[1] = Text /\ <<Text>> /= <<>>
  BY <1>2
<1>4. m \in Turns /\ m.role = "user" /\ m.content /= <<>>
  BY <1>3 DEF Message, Turns
<1>5. BlocksOf(m, "tool_result") = <<>>
  <2> DEFINE one == <<Text>>
  <2>1. one \in Seq(Blocks) /\ \A i \in DOMAIN one : one[i].type /= "tool_result"
    BY <1>2, <1>3
  <2> HIDE DEF one
  <2>2. BlocksOf(Message("user", one), "tool_result") = <<>>
    BY <2>1, BlocksOfNone
  <2> QED BY <2>2 DEF one
<1> HIDE DEF m
<1>6. /\ messages' \in Seq(Turns) /\ Len(messages') = 1 /\ DOMAIN messages' = 1..1
      /\ messages'[1] = m
  BY <1>1, <1>4
<1>7. \A i \in 1..1 : i = 1 /\ i % 2 = 1
  OBVIOUS
<1>8. Talk'
  BY <1>4, <1>6, <1>7 DEF Talk
<1>9. Len(Shown') = 1 /\ Shown'[1] = <<>>
  <2>1. Shown' = [i \in 1..1 |-> <<>>]
    BY <1>5, <1>6, <1>7 DEF Shown
  <2>2. [i \in 1..1 |-> <<>>] = << <<>> >>
    OBVIOUS
  <2> QED BY <2>1, <2>2
<1>10. FlattenSeq(Shown') = <<>>
  <2> DEFINE sh == Shown'
  <2>1. Len(sh) = 1 /\ sh[1] = <<>>
    BY <1>9
  <2> HIDE DEF sh
  <2>2. Len(sh) \in Nat \ {0}
    BY <2>1
  <2>3. PICK f : Flattens(f, sh, Len(sh)) /\ FlattenSeq(sh) = f[Len(sh)]
    BY <2>2, FlattenSeqSteps
  <2>4. f[1] = sh[1]
    BY <2>1, <2>3 DEF Flattens
  <2>5. FlattenSeq(sh) = <<>>
    BY <2>1, <2>3, <2>4
  <2> QED BY <2>5 DEF sh
<1>11. Response' /\ ~Answered'
  BY <1>1 DEF AdapterInv, Response, Answered
<1> QED BY <1>1, <1>8, <1>10, <1>11 DEF AdapterInv

\* Tools are run: two more turns, and their results are evidence.
LEMMA ProcessToolUseKeeps ==
  ASSUME AdapterInv, processToolUse
  PROVE  AdapterInv'
<1>1. PICK outputs \in [DOMAIN ToolUses -> {"output", "error"}] :
        /\ messages' = messages \o <<Message("assistant", AssistantContent),
                                     Message("user", ToolResults(outputs))>>
        /\ allToolCalls' = allToolCalls \o ToolResults(outputs)
  BY DEF processToolUse
<1>2. /\ pc = "respond" /\ pc' = "call" /\ resp.stop = "tool_use" /\ resp' = NoResponse
      /\ checks' = checks /\ iterations' = iterations
  BY DEF processToolUse
<1>3. Processed
  BY DEF AdapterInv, Response, Processed
<1> DEFINE A == AssistantContent
           R == ToolResults(outputs)
           a == Message("assistant", A)
           u == Message("user", R)
           n == Len(messages)
<1>4. R \in Seq(Blocks) /\ (\A k \in DOMAIN R : R[k].type = "tool_result")
  BY <1>3, ToolResultsTurn
<1>5. A \in Seq(Blocks) /\ (\A k \in DOMAIN A : A[k].type /= "tool_result")
  <2>1. PICK d \in Nat : \E kept :
           /\ \A k \in 1..d : kept[k] \in KeptPositions
           /\ A \in Seq(Blocks) /\ DOMAIN A = 1..d
           /\ \A k \in 1..d : A[k].type = resp.content[kept[k]]
    BY <1>3, AssistantTurn
  <2>2. PICK kept :
           /\ \A k \in 1..d : kept[k] \in KeptPositions
           /\ A \in Seq(Blocks) /\ DOMAIN A = 1..d
           /\ \A k \in 1..d : A[k].type = resp.content[kept[k]]
    BY <2>1
  <2>3. \A i \in KeptPositions : resp.content[i] /= "tool_result"
    BY DEF KeptPositions
  <2> HIDE DEF A
  <2> QED BY <2>2, <2>3
<1>6. IDsOf(u, "tool_result") = IDsOf(a, "tool_use")
  BY <1>3, TurnsMatch
<1>7. PICK i \in DOMAIN resp.content : resp.content[i] = "tool_use"
  BY <1>2 DEF AdapterInv, Response
<1>8. A /= <<>> /\ R /= <<>>
  <2>1. PICK c \in Nat : DOMAIN ToolUses = 1..c /\ \E k \in 1..c : ToolUses[k] = i
    BY <1>3, <1>7, ToolUsesInOrder
  <2>2. DOMAIN R = 1..c
    BY <1>3, <2>1, ToolResultsTurn
  <2>3. i \in KeptPositions
    BY <1>7 DEF KeptPositions
  <2>4. PICK d \in Nat : \E k \in 1..d : DOMAIN A = 1..d
    BY <1>3, <2>3, AssistantTurn
  <2>5. DOMAIN << >> = {}
    OBVIOUS
  <2> HIDE DEF A, R
  <2> QED BY <2>1, <2>2, <2>4, <2>5
<1>9. /\ a \in Turns /\ a.role = "assistant" /\ a.content /= <<>>
      /\ u \in Turns /\ u.role = "user" /\ u.content /= <<>>
  BY <1>4, <1>5, <1>8 DEF Message, Turns
<1>10. BlocksOf(a, "tool_result") = <<>> /\ BlocksOf(u, "tool_result") = R
  BY <1>4, <1>5, BlocksOfNone, BlocksOfAll
<1>11. messages' = messages \o <<a, u>> /\ allToolCalls' = allToolCalls \o R
  BY <1>1
<1> HIDE DEF A, R, a, u
<1>12. messages \in Seq(Turns) /\ n \in Nat /\ n % 2 = 1 /\ Talk
  BY <1>2 DEF AdapterInv, Talk
<1>13. /\ messages' \in Seq(Turns) /\ Len(messages') = n + 2 /\ DOMAIN messages' = 1..(n + 2)
       /\ messages'[n + 1] = a /\ messages'[n + 2] = u
       /\ \A k \in 1..n : messages'[k] = messages[k]
  BY <1>9, <1>11, <1>12
<1> HIDE DEF n
<1>14. Talk'
  <2>1. (n + 1) % 2 = 0 /\ (n + 2) % 2 = 1
    BY <1>12, Parity
  <2>2. ASSUME NEW k \in DOMAIN messages'
        PROVE  /\ messages'[k].role = IF k % 2 = 1 THEN "user" ELSE "assistant"
               /\ messages'[k].content /= <<>>
               /\ k % 2 = 0 =>
                    IDsOf(messages'[k + 1], "tool_result") = IDsOf(messages'[k], "tool_use")
    <3>1. k \in 1..n \/ k = n + 1 \/ k = n + 2
      BY <1>12, <1>13, <2>2
    <3>2. CASE k \in 1..n
      <4>1. k % 2 = 0 => k + 1 \in 1..n
        BY <1>12, <3>2
      <4>2. k \in DOMAIN messages
        BY <1>12, <3>2 DEF n
      <4> QED BY <1>12, <1>13, <3>2, <4>1, <4>2 DEF Talk
    <3>3. CASE k = n + 1
      <4>1. (n + 1) + 1 = n + 2
        BY <1>12
      <4> QED BY <1>6, <1>9, <1>13, <2>1, <3>3, <4>1
    <3>4. CASE k = n + 2
      BY <1>9, <1>13, <2>1, <3>4
    <3> QED BY <3>1, <3>2, <3>3, <3>4
  <2> QED BY <1>13, <2>1, <2>2 DEF Talk
<1>15. FlattenSeq(Shown') = FlattenSeq(Shown) \o <<>> \o R
  <2>1. DOMAIN messages = 1..n
    BY <1>12 DEF n
  <2>2. Shown = [k \in 1..n |-> BlocksOf(messages[k], "tool_result")]
    BY <2>1 DEF Shown
  <2>3. \A k \in 1..n : BlocksOf(messages[k], "tool_result") \in Seq(Blocks)
    BY <1>12, <2>1, BlocksOfType
  <2>4. Shown \in Seq(Seq(Blocks)) /\ Len(Shown) = n
    <3>1. Shown \in [1..n -> Seq(Blocks)]
      BY <2>2, <2>3
    <3> QED BY <1>12, <3>1, FunctionIsSeq
  <2>5. Shown' = [k \in 1..(n + 2) |-> BlocksOf(messages'[k], "tool_result")]
    BY <1>13 DEF Shown
  <2> DEFINE one == Append(Shown, <<>>)
             two == Append(one, R)
  <2>6. <<>> \in Seq(Blocks) /\ n /= 0
    BY <1>12, Parity
  <2>7. /\ one \in Seq(Seq(Blocks)) /\ Len(one) = n + 1 /\ one[n + 1] = <<>>
        /\ \A k \in 1..n : one[k] = Shown[k]
    BY <2>4, <2>6
  <2>8. FlattenSeq(one) = FlattenSeq(Shown) \o <<>>
    BY <2>4, <2>6, FlattenAppend
  <2> HIDE DEF one
  <2>9. /\ two \in Seq(Seq(Blocks)) /\ Len(two) = n + 2 /\ two[n + 2] = R
        /\ \A k \in 1..(n + 1) : two[k] = one[k]
    BY <1>4, <1>12, <2>7
  <2>10. FlattenSeq(two) = FlattenSeq(one) \o R
    BY <1>4, <1>12, <2>7, FlattenAppend
  <2> HIDE DEF two
  <2>11. \A k \in 1..(n + 2) : two[k] = BlocksOf(messages'[k], "tool_result")
    <3> TAKE k \in 1..(n + 2)
    <3>1. k \in 1..n \/ k = n + 1 \/ k = n + 2
      BY <1>12
    <3>2. CASE k \in 1..n
      BY <1>12, <1>13, <2>2, <2>7, <2>9, <3>2
    <3>3. CASE k = n + 1
      BY <1>10, <1>12, <1>13, <2>7, <2>9, <3>3
    <3>4. CASE k = n + 2
      BY <1>10, <1>13, <2>9, <3>4
    <3> QED BY <3>1, <3>2, <3>3, <3>4
  <2>12. two = [k \in 1..(n + 2) |-> two[k]]
    BY <1>12, <2>9
  <2>13. Shown' = two
    BY <2>5, <2>11, <2>12
  <2> QED BY <2>8, <2>10, <2>13
<1>16. allToolCalls' = FlattenSeq(Shown') /\ allToolCalls' \in Seq(Blocks)
  <2>1. allToolCalls = FlattenSeq(Shown) /\ allToolCalls \in Seq(Blocks)
    BY <1>2 DEF AdapterInv
  <2>2. allToolCalls \o <<>> = allToolCalls
    BY <2>1
  <2> QED BY <1>4, <1>11, <1>15, <2>1, <2>2
<1>17. Response' /\ ~Answered'
  BY <1>2 DEF Response, NoResponse, Answered
<1> QED BY <1>2, <1>14, <1>16, <1>17 DEF AdapterInv

\* The other steps of the call leave the conversation as it is.
LEMMA AdapterStep == AdapterInv /\ [Next]_vars => AdapterInv'
<1> SUFFICES ASSUME AdapterInv, [Next]_vars PROVE AdapterInv'
  OBVIOUS
<1>1. ASSUME messages' = messages, allToolCalls' = allToolCalls, checks' = checks,
             pc /= "idle", pc' /= "idle", iterations' \in Nat, Response',
             Answered' => /\ resp'.stop \in {"end_turn", "stop", "max_tokens"}
                          /\ outcome'.verdicts = Parse(resp.text)'
                          /\ outcome'.evidence = allToolCalls
      PROVE  AdapterInv'
  <2>1. Talk' /\ FlattenSeq(Shown') = FlattenSeq(Shown)
    BY <1>1 DEF AdapterInv, Talk, Shown
  <2> QED BY <1>1, <2>1 DEF AdapterInv
<1>2. CASE callAPI
  <2>1. PICK stop \in {"end_turn", "stop", "tool_use", "max_tokens"} :
          \E content \in Contents, text \in Texts :
            /\ stop = "tool_use" => \E i \in DOMAIN content : content[i] = "tool_use"
            /\ resp' = [stop |-> stop, content |-> content, text |-> text]
    BY <1>2 DEF callAPI
  <2>2. PICK content \in Contents, text \in Texts :
            /\ stop = "tool_use" => \E i \in DOMAIN content : content[i] = "tool_use"
            /\ resp' = [stop |-> stop, content |-> content, text |-> text]
    BY <2>1
  <2>3. Response'
    BY <2>2, AdapterConstants DEF Response
  <2>4. iterations' \in Nat
    BY <1>2 DEF callAPI, AdapterInv
  <2> QED BY <1>1, <1>2, <2>3, <2>4 DEF callAPI, Answered
<1>3. CASE callAPIFails \/ Exceed
  <2>1. ~Answered'
    BY <1>3 DEF callAPIFails, Exceed, Answered, Failed, Pending
  <2>2. Response'
    BY <1>3 DEF callAPIFails, Exceed, AdapterInv, Response
  <2> QED BY <1>1, <1>3, <2>1, <2>2 DEF callAPIFails, Exceed, AdapterInv
<1>4. CASE Answer
  <2>1. /\ pc = "respond" /\ pc' = "done" /\ resp.stop /= "tool_use"
        /\ messages' = messages /\ allToolCalls' = allToolCalls /\ checks' = checks
        /\ iterations' = iterations /\ resp' = resp
        /\ outcome' = [err |-> FALSE, verdicts |-> Parse(resp.text), evidence |-> allToolCalls]
    BY <1>4 DEF Answer
  <2>2. Response' /\ resp'.stop \in {"end_turn", "stop", "max_tokens"}
    BY <2>1 DEF AdapterInv, Response
  <2>3. Parse(resp.text)' = Parse(resp.text)
    BY <2>1 DEF Parse
  <2> QED BY <1>1, <2>1, <2>2, <2>3 DEF AdapterInv
<1>5. CASE UNCHANGED vars
  <2>1. /\ pc' = pc /\ messages' = messages /\ allToolCalls' = allToolCalls
        /\ checks' = checks /\ iterations' = iterations /\ resp' = resp /\ outcome' = outcome
    BY <1>5 DEF vars
  <2>2. Response' /\ Talk' = Talk /\ Answered' = Answered /\ Shown' = Shown
    BY <2>1 DEF AdapterInv, Response, Talk, Answered, Shown
  <2>3. Parse(resp.text)' = Parse(resp.text)
    BY <2>1 DEF Parse
  <2> QED BY <2>1, <2>2, <2>3 DEF AdapterInv
<1> QED BY <1>2, <1>3, <1>4, <1>5, BeginKeeps, ProcessToolUseKeeps DEF Next

\* The conversation, the evidence and the verdicts of every call.
THEOREM AdapterInvariant == Spec => []AdapterInv
BY InitAdapterInv, AdapterStep, PTL DEF Spec

\* Whenever callAPI is called, the conversation is one the Messages API accepts: the
\* turns alternate, none is empty, and every tool use has its result in the turn
\* that follows it (processToolUse of claude.go), whatever blocks the responses had
\* and whichever tools failed.
THEOREM ConversationIsAccepted == Spec => []ConversationAccepted
<1>1. AdapterInv => ConversationAccepted
  BY DEF AdapterInv, Talk, ConversationAccepted
<1> QED BY <1>1, AdapterInvariant, PTL

\* The evidence that Verify and BatchVerify return is what the model was shown, in
\* order, over any number of iterations.
THEOREM EvidenceIsWhatTheModelSaw == Spec => []EvidenceIsWhatWasShown
<1>1. AdapterInv => EvidenceIsWhatWasShown
  BY DEF AdapterInv, EvidenceIsWhatWasShown, Shown, Answered
<1> QED BY <1>1, AdapterInvariant, PTL
-----------------------------------------------------------------------------
(* The verdicts.                                                           *)

\* A call has as many verdicts as checks.
LEMMA ParseLength ==
  ASSUME checks \in Batches
  PROVE  Len(Parse(resp.text)) = Len(checks)
<1>1. checks \in Seq(CheckIDs)
  BY AdapterConstants
<1>2. CASE Len(checks) = 1
  BY <1>2 DEF Parse
<1>3. CASE Len(checks) /= 1
  <2> DEFINE f == [i \in DOMAIN checks |-> parseBatchVerdict(resp.text, checks[i])]
             T == {parseBatchVerdict(resp.text, checks[i]) : i \in DOMAIN checks}
  <2>1. Parse(resp.text) = f
    BY <1>3 DEF Parse, parseBatchVerdicts
  <2>2. f \in [1..Len(checks) -> T] /\ Len(checks) \in Nat
    BY <1>1
  <2> HIDE DEF f, T
  <2> QED BY <2>1, <2>2, FunctionIsSeq
<1> QED BY <1>2, <1>3

\* A call that is cut off, by an error or by the bound on iterations, returns no
\* verdict: verdicts come from a response in which the model had stopped asking for
\* tools, one for each check.
THEOREM VerdictsComeAtTheEnd == Spec => []NoVerdictBeforeTheEnd
<1>1. AdapterInv => NoVerdictBeforeTheEnd
  BY ParseLength DEF AdapterInv, NoVerdictBeforeTheEnd, Answered
<1> QED BY <1>1, AdapterInvariant, PTL

\* The first match of a search that has one match, or none.
LEMMA OnlyMatch ==
  ASSUME NEW i \in Nat
  PROVE  Min({i}) = i
BY DEF Min

\* parseVerdict finds a verdict that is stated once.
LEMMA SingleVerdict ==
  ASSUME NEW text \in Seq(Tokens), NEW i \in 1..(Len(text) - 1), NEW verdict \in Verdicts,
         \A j \in 1..(Len(text) - 1) : AsksVerdict(text[j]) <=> j = i,
         text[i + 1] = <<"word", verdict>>
  PROVE  parseVerdict(text) = verdict
<1> DEFINE Says(v) == \E j \in DOMAIN text :
             AsksVerdict(text[j]) /\ j < Len(text) /\ text[j + 1] = <<"word", v>>
<1>1. parseVerdict(text) =
        IF Says("PASS") THEN "PASS" ELSE IF Says("WARN") THEN "WARN" ELSE "FAIL"
  BY DEF parseVerdict
<1>2. Len(text) \in Nat /\ DOMAIN text = 1..Len(text)
  OBVIOUS
<1>3. i \in DOMAIN text /\ i < Len(text) /\ AsksVerdict(text[i])
  BY <1>2
<1>4. Says(verdict)
  BY <1>3
<1>5. \A v : Says(v) => v = verdict
  <2> SUFFICES ASSUME NEW v, Says(v) PROVE v = verdict
    OBVIOUS
  <2>1. PICK j \in DOMAIN text :
          AsksVerdict(text[j]) /\ j < Len(text) /\ text[j + 1] = <<"word", v>>
    OBVIOUS
  <2>2. j \in 1..(Len(text) - 1)
    BY <1>2, <2>1
  <2>3. j = i
    BY <2>1, <2>2
  <2>4. <<"word", v>> = <<"word", verdict>>
    BY <2>1, <2>3
  <2> QED BY <2>4
<1> HIDE DEF Says
<1> QED BY <1>1, <1>4, <1>5 DEF Verdicts

\* parseBatchVerdict finds the verdict in the line of a check.
LEMMA LineVerdict ==
  ASSUME NEW text \in Seq(Tokens), NEW id, NEW i \in DOMAIN text, NEW verdict \in Verdicts,
         \A j \in DOMAIN text : text[j] = <<"line", id>> <=> j = i,
         i < Len(text), text[i + 1] = <<"word", verdict>>
  PROVE  parseBatchVerdict(text, id) = verdict
<1>1. Len(text) \in Nat /\ DOMAIN text = 1..Len(text)
  OBVIOUS
<1>2. {j \in 1..Len(text) : text[j] = <<"line", id>>} = {i}
  BY <1>1
<1>3. SelectInSeq(text, LAMBDA token : token = <<"line", id>>) = i
  BY <1>1, <1>2, OnlyMatch DEF SelectInSeq
<1>4. i > 0
  BY <1>1
<1>5. parseBatchVerdict(text, id) = VerdictAfter(text, i)
  BY <1>3, <1>4 DEF parseBatchVerdict
<1>6. VerdictAfter(text, i) = verdict
  BY DEF VerdictAfter, Verdicts
<1> QED BY <1>5, <1>6

\* A check that the text does not mention has no line either.
LEMMA SilentVerdict ==
  ASSUME NEW text \in Seq(Tokens), NEW id \in CheckIDs,
         \A j \in DOMAIN text : ~Mentions(text[j], id)
  PROVE  parseBatchVerdict(text, id) = "FAIL"
<1>1. Len(text) \in Nat /\ DOMAIN text = 1..Len(text)
  OBVIOUS
<1>2. Mentions(<<"line", id>>, id)
  BY ParsingConstants DEF Mentions
<1>3. \A j \in 1..Len(text) : text[j] /= <<"line", id>>
  BY <1>1, <1>2
<1>4. SelectInSeq(text, LAMBDA token : token = <<"line", id>>) = 0
  BY <1>3 DEF SelectInSeq
<1>5. SelectInSeq(text, LAMBDA token : Mentions(token, id)) = 0
  BY <1>1 DEF SelectInSeq
<1>6. VerdictNearMention(text, id) = "FAIL"
  BY <1>5 DEF VerdictNearMention
<1> QED BY <1>4, <1>6 DEF parseBatchVerdict

\* The verdict of each check of a batch.
LEMMA BatchVerdicts ==
  ASSUME AdapterInv, Answered
  PROVE  /\ checks \in Seq(CheckIDs) /\ checks /= <<>> /\ resp.text \in Seq(Tokens)
         /\ Len(checks) = 1 => outcome.verdicts[1] = parseVerdict(resp.text)
         /\ Len(checks) /= 1 => \A k \in DOMAIN checks :
              outcome.verdicts[k] = parseBatchVerdict(resp.text, checks[k])
<1>1. checks \in Batches /\ outcome.verdicts = Parse(resp.text)
  BY DEF AdapterInv, Answered
<1>2. checks \in Seq(CheckIDs) /\ checks /= <<>> /\ resp.text \in Seq(Tokens)
  BY <1>1, AdapterConstants DEF AdapterInv, Response
<1>3. Len(checks) = 1 => outcome.verdicts[1] = parseVerdict(resp.text)
  BY <1>1 DEF Parse
<1>4. Len(checks) /= 1 => \A k \in DOMAIN checks :
              outcome.verdicts[k] = parseBatchVerdict(resp.text, checks[k])
  BY <1>1 DEF Parse, parseBatchVerdicts
<1> QED BY <1>2, <1>3, <1>4

\* A check that is answered once, in the format the system prompts ask for, gets
\* that answer (parseVerdict and parseBatchVerdicts of claude.go), for texts of any
\* length and any IDs, also those that contain one another.
THEOREM AnswersAreUnderstood == Spec => []AnswerIsUnderstood
<1>1. AdapterInv => AnswerIsUnderstood
  <2> SUFFICES ASSUME AdapterInv, Answered, NEW k \in DOMAIN checks, NEW i \in AnswersTo(k),
                      NEW verdict \in Verdicts, AnswersTo(k) = {i}, States(i, verdict)
               PROVE  outcome.verdicts[k] = verdict
    BY DEF AnswerIsUnderstood
  <2>1. i < Len(resp.text) /\ resp.text[i + 1] = <<"word", verdict>>
    BY DEF States
  <2>2. checks \in Seq(CheckIDs) /\ resp.text \in Seq(Tokens)
    BY BatchVerdicts
  <2>3. CASE Len(checks) = 1
    <3>1. k = 1
      BY <2>2, <2>3
    <3>2. Statements = {i}
      BY <2>3 DEF AnswersTo
    <3>3. /\ i \in 1..(Len(resp.text) - 1)
          /\ \A j \in 1..(Len(resp.text) - 1) : AsksVerdict(resp.text[j]) <=> j = i
      BY <3>2 DEF Statements
    <3>4. parseVerdict(resp.text) = verdict
      BY <2>1, <2>2, <3>3, SingleVerdict
    <3> QED BY <2>3, <3>1, <3>4, BatchVerdicts
  <2>4. CASE Len(checks) /= 1
    <3>1. Lines(k) = {i}
      BY <2>4 DEF AnswersTo
    <3>2. /\ i \in DOMAIN resp.text
          /\ \A j \in DOMAIN resp.text : resp.text[j] = <<"line", checks[k]>> <=> j = i
      BY <3>1 DEF Lines
    <3>3. parseBatchVerdict(resp.text, checks[k]) = verdict
      BY <2>1, <2>2, <3>2, LineVerdict
    <3> QED BY <2>4, <3>3, BatchVerdicts
  <2> QED BY <2>3, <2>4
<1> QED BY <1>1, AdapterInvariant, PTL

\* A check of a batch that the text does not mention fails, whatever verdicts the
\* text states of others.
THEOREM SilenceIsFailure == Spec => []SilenceFails
<1>1. AdapterInv => SilenceFails
  <2> SUFFICES ASSUME AdapterInv, AnsweredBatch, NEW k \in DOMAIN checks,
                      \A i \in DOMAIN resp.text : ~Mentions(resp.text[i], checks[k])
               PROVE  outcome.verdicts[k] = "FAIL"
    BY DEF SilenceFails
  <2>1. Answered /\ Len(checks) > 1
    BY DEF AnsweredBatch
  <2>2. checks \in Seq(CheckIDs) /\ resp.text \in Seq(Tokens)
    BY <2>1, BatchVerdicts
  <2>3. Len(checks) /= 1 /\ checks[k] \in CheckIDs
    <3>1. Len(checks) \in Nat /\ k \in 1..Len(checks)
      BY <2>2
    <3>2. checks[k] \in CheckIDs
      BY <2>2, <3>1
    <3>3. Len(checks) /= 1
      <4>1. Len(checks) > 1
        BY <2>1
      <4>2. \A n \in Nat : n > 1 => n /= 1
        OBVIOUS
      <4> QED BY <3>1, <4>1, <4>2
    <3> QED BY <3>2, <3>3
  <2>4. parseBatchVerdict(resp.text, checks[k]) = "FAIL"
    BY <2>2, <2>3, SilentVerdict
  <2> QED BY <2>1, <2>3, <2>4, BatchVerdicts
<1> QED BY <1>1, AdapterInvariant, PTL
=============================================================================

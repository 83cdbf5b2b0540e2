--------------------------- MODULE TextInputProofs --------------------------
(***************************************************************************)
(* Proofs about TextInput, for any characters, lengths and bounds: the     *)
(* repetition stays within the queue, the cursor within the text, and the  *)
(* keys of a controlled input are typed in their order.                    *)
(***************************************************************************)
EXTENDS TextInput, SequenceTheorems, TLAPS

Pc == {"none", "loop", "pop", "wait", "ended"}
EditKey == Char \cup {"delete"}
Edit == [pc : {"idle", "test", "edit", "store", "end"}, key : Key \cup {NoKey}, text : Text,
         before : Nat, end : Int, loc : Int]
Before == {"no", "enter", "text"}   \* not inside of the mutex

InputTypeOK ==
  /\ TypeOK
  /\ maxLength \in Nat
  /\ threads \in [1..MaxThreads -> [pc : Pc, waits : BOOLEAN]]
  /\ handler \in Edit
  /\ entering \in [Caller -> Before \cup {"loc", "end"}]

\* Only the keys of a controlled input are queued, and only its threads report
\* texts to the script; and the focus clears a text only if it is asked to.
Unqueued ==
  /\ ~controlled =>
       /\ inputQueue = <<>> /\ events = <<>> /\ ~inFocus
       /\ \A i \in 1..MaxThreads : threads[i].pc = "none"
  /\ \A t \in Caller : entering[t] \in {"text", "loc", "end"} => clearTextOnFocus

\* Nothing but the keys and the focus changes the text, no clear has met an
\* edit, and a text that is too long is not met by one that was cleared.
OwnText == ~controlled /\ ~overruled /\ ~raced /\ (maxLength = 0 \/ ~clearTextOnFocus)

\* The text that a key has read is the one that is shown, as far as its length
\* goes, or the focus has cleared it since.
ReadText == Len(handler.text) = end \/ (end = 0 /\ loc = 0)

(***************************************************************************)
(* CursorInText is not inductive.  While the text is cleared it is empty,  *)
(* and the cursor is reset before the length.  At any other time the       *)
(* cursor is inside of the text that is shown, or, once the key has edited *)
(* its copy, of the text that it is going to store; and what the key has   *)
(* tested is still true when it edits.                                     *)
(***************************************************************************)
Kept ==
  /\ handler.pc \in {"idle", "test", "edit"} => end = Len(display) /\ loc \in 0..end
  /\ handler.pc \in {"test", "edit"} => ReadText
  /\ handler.pc = "edit" =>
       /\ handler.end = end /\ handler.loc = loc
       /\ handler.key \in EditKey => InText(handler.key, handler.text, loc, end, loc)
       /\ handler.key \notin EditKey => Moves(handler.key, end, loc)
  /\ handler.pc = "store" => loc \in 0..Len(handler.text)
  /\ handler.pc = "end" => loc \in 0..Len(display)

\* Without a focus that clears, the text stays as long as it was when it was read.
Uncut ==
  (maxLength # 0 /\ handler.pc \in {"test", "edit", "store"}) =>
    Len(display) = handler.before /\ loc <= handler.before

CursorKept ==
  OwnText =>
    /\ ~crashed
    /\ Clearing => display = <<>> /\ handler.pc \notin {"edit", "end"}
    /\ \A t \in Caller : entering[t] = "end" => loc = 0
    /\ ~Clearing => Kept
    /\ Uncut

InputInv == InputTypeOK /\ Unqueued /\ CursorKept

-----------------------------------------------------------------------------
(* Edits of a text.                                                        *)

\* A text without one of its characters.
LEMMA RemoveLength ==
  ASSUME NEW S, NEW s \in Seq(S), NEW i \in 1..Len(s)
  PROVE  RemoveAt(s, i) \in Seq(S) /\ Len(RemoveAt(s, i)) = Len(s) - 1
<1>1. Len(s) \in Nat /\ i \in Nat /\ i >= 1 /\ i <= Len(s)
  OBVIOUS
<1> DEFINE a == SubSeq(s, 1, i - 1)
           b == SubSeq(s, i + 1, Len(s))
<1>2. a \in Seq(S) /\ Len(a) = i - 1
  BY <1>1, SubSeqProperties
<1>3. b \in Seq(S) /\ Len(b) = Len(s) - i
  BY <1>1, SubSeqProperties
<1> HIDE DEF a, b
<1>4. a \o b \in Seq(S) /\ Len(a \o b) = Len(a) + Len(b)
  BY <1>2, <1>3, ConcatProperties
<1>5. Len(a \o b) = Len(s) - 1
  BY <1>1, <1>2, <1>3, <1>4
<1> QED BY <1>4, <1>5 DEF RemoveAt, a, b

\* A text with one character more.
LEMMA InsertLength ==
  ASSUME NEW S, NEW s \in Seq(S), NEW i \in 1..(Len(s) + 1), NEW e \in S
  PROVE  InsertAt(s, i, e) \in Seq(S) /\ Len(InsertAt(s, i, e)) = Len(s) + 1
<1>1. Len(s) \in Nat /\ i \in Nat /\ i >= 1 /\ i <= Len(s) + 1
  OBVIOUS
<1> DEFINE a == SubSeq(s, 1, i - 1)
           b == SubSeq(s, i, Len(s))
<1>2. a \in Seq(S) /\ Len(a) = i - 1
  BY <1>1, SubSeqProperties
<1>3. b \in Seq(S) /\ Len(b) = Len(s) - i + 1
  BY <1>1, SubSeqProperties
<1>4. <<e>> \in Seq(S) /\ Len(<<e>>) = 1
  OBVIOUS
<1> HIDE DEF a, b
<1>5. a \o <<e>> \in Seq(S) /\ Len(a \o <<e>>) = i
  BY <1>1, <1>2, <1>4, ConcatProperties
<1> DEFINE c == a \o <<e>>
<1> HIDE DEF c
<1>6. c \in Seq(S) /\ Len(c) = i
  BY <1>5 DEF c
<1>7. c \o b \in Seq(S) /\ Len(c \o b) = Len(c) + Len(b)
  BY <1>3, <1>6, ConcatProperties
<1>8. Len(c \o b) = Len(s) + 1
  BY <1>1, <1>3, <1>6, <1>7
<1> QED BY <1>7, <1>8 DEF InsertAt, a, b, c

\* What a key makes of a text, unless it edits outside of it.
LEMMA EditedText ==
  ASSUME NEW k \in EditKey, NEW text \in Text, NEW seen \in Int, NEW e \in Int, NEW l \in Int,
         InText(k, text, seen, e, l)
  PROVE  /\ Edited(k, text, seen, e, l) \in Text
         /\ Len(Edited(k, text, seen, e, l)) = IF k \in Char THEN Len(text) + 1 ELSE Len(text) - 1
<1>1. text \in Seq(Char) /\ Len(text) \in Nat
  BY LenProperties DEF Text
<1>2. CASE k \in Char
  <2>1. k # "delete" /\ (seen # 0 => e - l \in 0..Len(text))
    BY <1>2, TextAssumption DEF InText
  <2>2. CASE seen = 0
    <3>1. Edited(k, text, seen, e, l) = Append(text, k)
      BY <2>1, <2>2 DEF Edited
    <3>2. Append(text, k) \in Seq(Char) /\ Len(Append(text, k)) = Len(text) + 1
      BY <1>1, <1>2, AppendProperties
    <3> QED BY <1>2, <3>1, <3>2 DEF Text
  <2>3. CASE seen # 0
    <3>1. Edited(k, text, seen, e, l) = InsertAt(text, e - l + 1, k)
      BY <2>1, <2>3 DEF Edited
    <3>2. e - l + 1 \in 1..(Len(text) + 1)
      BY <1>1, <2>1, <2>3
    <3>3. /\ InsertAt(text, e - l + 1, k) \in Seq(Char)
          /\ Len(InsertAt(text, e - l + 1, k)) = Len(text) + 1
      BY <1>1, <1>2, <3>2, InsertLength
    <3> QED BY <1>2, <3>1, <3>3 DEF Text
  <2> QED BY <2>2, <2>3
<1>3. CASE k \notin Char
  <2>1. k = "delete" /\ e - l \in 1..Len(text)
    BY <1>3 DEF InText, EditKey
  <2>2. Edited(k, text, seen, e, l) = RemoveAt(text, e - l)
    BY <2>1 DEF Edited
  <2>3. RemoveAt(text, e - l) \in Seq(Char) /\ Len(RemoveAt(text, e - l)) = Len(text) - 1
    BY <1>1, <2>1, RemoveLength
  <2> QED BY <1>3, <2>2, <2>3 DEF Text
<1> QED BY <1>2, <1>3

-----------------------------------------------------------------------------
(* The steps.                                                              *)

\* What the script sets is a text.
LEMMA ScriptTexts == ScriptText \subseteq Text
<1> SUFFICES ASSUME NEW text \in ScriptText PROVE text \in Text
  OBVIOUS
<1>1. PICK n \in 0..MaxText : text \in [1..n -> Char]
  BY DEF ScriptText
<1>2. n \in Nat
  BY <1>1, TextAssumption
<1> QED BY <1>1, <1>2, IsASeq DEF Text

\* No key is being handled.
LEMMA NoEditTyped == NoEdit \in Edit
  BY EmptySeq DEF NoEdit, Handling, Edit, Text

\* The initial states satisfy the invariant.
LEMMA InitInv == Init => InputInv
<1> SUFFICES ASSUME Init PROVE InputInv
  OBVIOUS
<1>1. display \in Text /\ end \in Nat /\ end = Len(display) /\ loc = 0
  BY ScriptTexts, LenProperties DEF Init, Text
<1>2. inputQueue \in Seq(Key) /\ processed \in Seq(Key) /\ events \in Seq(Text)
  BY EmptySeq DEF Init
<1>3. {controlled, clearTextOnFocus, editing, inFocus, repeatOn, repeat, overruled, raced, crashed}
         \subseteq BOOLEAN
  BY DEF Init
<1>4. threads \in [1..MaxThreads -> [pc : Pc, waits : BOOLEAN]] /\ started \in 0..MaxThreads
  BY TextAssumption DEF Init, Pc
<1>5. maxLength \in Nat /\ handler = NoEdit /\ ~inFocus /\ repeatStart = 0 /\ permits = 0
  BY TextAssumption DEF Init
<1>6. \A i \in 1..MaxThreads : threads[i].pc = "none"
  BY DEF Init
<1>7. /\ entering \in [Caller -> Before \cup {"loc", "end"}]
      /\ \A t \in Caller : entering[t] = "no"
  BY DEF Init, Before
<1>8. InputTypeOK
  BY <1>1, <1>2, <1>3, <1>4, <1>5, <1>6, <1>7, NoEditTyped DEF InputTypeOK, TypeOK
<1>9. Unqueued
  BY <1>6, <1>7 DEF Init, Unqueued
<1>10. CursorKept
  <2>1. handler.pc = "idle" /\ ~Clearing
    BY <1>5, <1>7 DEF NoEdit, Handling, Clearing
  <2>2. Kept /\ Uncut
    BY <1>1, <2>1 DEF Kept, Uncut
  <2> QED BY <1>7, <2>1, <2>2 DEF Init, CursorKept
<1> QED BY <1>8, <1>9, <1>10 DEF InputInv

\* The text, the cursor and the key that is handled stay, and no thread takes
\* or leaves the mutex.
LEMMA SameCursor ==
  ASSUME InputInv, UNCHANGED <<props, textVars, handler, crashed>>,
         OwnText' => OwnText,
         \A t \in Caller :
           entering'[t] = entering[t] \/ {entering[t], entering'[t]} \subseteq Before
  PROVE  CursorKept'
<1>1. \A t \in Caller : \A c \in {"loc", "end"} : entering'[t] = c <=> entering[t] = c
  BY DEF Before
<1>2. Clearing' <=> Clearing
  BY <1>1 DEF Clearing
<1>3. Kept' <=> Kept
  BY DEF Kept, ReadText, InText, Moves, textVars
<1>4. Uncut' <=> Uncut
  BY DEF Uncut, textVars, props
<1> QED BY <1>1, <1>2, <1>3, <1>4 DEF InputInv, CursorKept, textVars

\* The focus and its loss leave the invariant true, whoever causes them.
LEMMA EditingModeInv ==
  ASSUME InputInv,
         UNCHANGED <<props, textVars, threads, started, permits, processed, handler, events,
                     history, crashed, repeatOn, repeatStart>>,
         repeat' \in BOOLEAN,
         \/ UNCHANGED entering /\ (ResignFromEditingMode \/ UNCHANGED <<editing, inFocus, inputQueue>>)
         \/ /\ editing' \in BOOLEAN /\ UNCHANGED <<inFocus, inputQueue>>
            /\ \E t \in Caller, p \in Before :
                 /\ entering[t] \in Before /\ (p = "text" => clearTextOnFocus)
                 /\ entering' = [entering EXCEPT ![t] = p]
  PROVE  InputInv'
<1> USE DEF InputInv
<1>1. /\ <<>> \in Seq(Key) /\ inputQueue \in Seq(Key)
      /\ editing \in BOOLEAN /\ inFocus \in BOOLEAN
      /\ inFocus => repeatStart <= Len(inputQueue)
      /\ entering \in [Caller -> Before \cup {"loc", "end"}]
  BY EmptySeq DEF InputTypeOK, TypeOK
<1>2. /\ editing' \in BOOLEAN /\ inFocus' \in BOOLEAN /\ inputQueue' \in Seq(Key)
      /\ inFocus' => repeatStart' <= Len(inputQueue')
      /\ inFocus' => inFocus
      /\ inputQueue = <<>> => inputQueue' = <<>>
  <2>1. CASE ResignFromEditingMode
    <3>1. editing' = FALSE /\ inFocus' = FALSE /\ inputQueue' \in {inputQueue, <<>>}
      BY <2>1 DEF ResignFromEditingMode
    <3> QED BY <1>1, <3>1
  <2>2. CASE editing' \in BOOLEAN /\ UNCHANGED <<inFocus, inputQueue>>
    BY <1>1, <2>2
  <2> QED BY <1>1, <2>1, <2>2
<1>3. /\ entering' \in [Caller -> Before \cup {"loc", "end"}]
      /\ \A t \in Caller : entering'[t] = entering[t] \/ {entering[t], entering'[t]} \subseteq Before
      /\ \A t \in Caller : entering'[t] \in {"text", "loc", "end"} => clearTextOnFocus
  <2>1. CASE UNCHANGED entering
    BY <1>1, <2>1 DEF Unqueued
  <2>2. ASSUME NEW t \in Caller, NEW p \in Before, entering[t] \in Before, p = "text" => clearTextOnFocus,
               entering' = [entering EXCEPT ![t] = p]
        PROVE  /\ entering' \in [Caller -> Before \cup {"loc", "end"}]
               /\ \A u \in Caller :
                    /\ entering'[u] = entering[u] \/ {entering[u], entering'[u]} \subseteq Before
                    /\ entering'[u] \in {"text", "loc", "end"} => clearTextOnFocus
    <3>1. \A u \in Caller : entering'[u] = IF u = t THEN p ELSE entering[u]
      BY <1>1, <2>2
    <3>2. p \in {"text", "loc", "end"} => clearTextOnFocus
      BY <2>2 DEF Before
    <3> QED BY <1>1, <2>2, <3>1, <3>2 DEF Unqueued
  <2> QED BY <2>1, <2>2
<1>4. InputTypeOK'
  BY <1>2, <1>3 DEF InputTypeOK, TypeOK, props, textVars, history
<1>5. Unqueued'
  BY <1>2, <1>3 DEF Unqueued, props
<1>6. CursorKept'
  <2>1. OwnText' <=> OwnText
    BY DEF OwnText, props, history
  <2> QED BY <1>3, <2>1, SameCursor
<1> QED BY <1>4, <1>5, <1>6

\* The steps that give the focus or take it.
LEMMA FocusInv ==
  ASSUME InputInv,
         \/ Blur \/ Release
         \/ \E t \in Caller : Focus(t) \/ Enter(t)
         \/ \E k \in Key : PressNotEditing(k) \/ PressOther(k)
  PROVE  InputInv'
<1>1. editing \in BOOLEAN /\ repeat \in BOOLEAN
  BY DEF InputInv, InputTypeOK, TypeOK
<1>2. CASE Blur
  BY <1>1, <1>2, EditingModeInv DEF Blur, Command, threadVars, inputVars, textVars
<1>3. CASE Release
  BY <1>3, EditingModeInv DEF Release, threadVars, queueVars, inputVars, textVars
<1>4. CASE \E t \in Caller : Focus(t)
  <2>1. PICK t \in Caller : Focus(t)
    BY <1>4
  <2>2. entering[t] \in Before /\ "enter" \in Before /\ entering' = [entering EXCEPT ![t] = "enter"]
    BY <2>1 DEF Focus, Free, RequestForEditingMode, Before
  <2> QED BY <1>1, <2>1, <2>2, EditingModeInv DEF Focus, threadVars, queueVars, inputVars, textVars
<1>5. CASE \E t \in Caller : Enter(t)
  <2>1. PICK t \in Caller : Enter(t)
    BY <1>5
  <2>2. \E p \in Before : /\ entering[t] \in Before /\ (p = "text" => clearTextOnFocus)
                          /\ entering' = [entering EXCEPT ![t] = p]
    BY <2>1 DEF Enter, Before
  <2>3. editing' \in BOOLEAN
    BY <2>1 DEF Enter
  <2> QED BY <1>1, <2>1, <2>2, <2>3, EditingModeInv
          DEF Enter, threadVars, queueVars, inputVars, textVars
<1>6. CASE \E k \in Key : PressNotEditing(k)
  <2>1. PICK k \in Key : PressNotEditing(k)
    BY <1>6
  <2>2. repeat' \in BOOLEAN /\ entering["keys"] \in Before /\ "keys" \in Caller
    BY <1>1, <2>1 DEF PressNotEditing, Press, Free, Before, Caller
  <2>3. UNCHANGED entering \/ entering' = [entering EXCEPT !["keys"] = "enter"]
    BY <2>1 DEF PressNotEditing, RequestForEditingMode
  <2>4. "enter" \in Before
    BY DEF Before
  <2> QED BY <1>1, <2>1, <2>2, <2>3, <2>4, EditingModeInv
          DEF PressNotEditing, threadVars, queueVars, textVars
<1>7. CASE \E k \in Key : PressOther(k)
  <2>1. PICK k \in Key : PressOther(k)
    BY <1>7
  <2>2. repeat' \in BOOLEAN
    BY <1>1, <2>1 DEF PressOther, Press
  <2> QED BY <2>1, <2>2, EditingModeInv DEF PressOther, threadVars, textVars
<1> QED BY <1>2, <1>3, <1>4, <1>5, <1>6, <1>7

\* The clearing of the text, in its three steps.
LEMMA ClearInv ==
  ASSUME InputInv, NEW t \in Caller, ClearText(t) \/ ClearLoc(t) \/ ClearEnd(t)
  PROVE  InputInv'
<1> USE DEF InputInv
<1>1. /\ display \in Text /\ end \in Nat /\ loc \in Int /\ <<>> \in Text /\ Len(<<>>) = 0
      /\ raced \in BOOLEAN
      /\ entering \in [Caller -> Before \cup {"loc", "end"}]
  BY EmptySeq DEF InputTypeOK, TypeOK, Text
<1>2. UNCHANGED <<props, editing, inFocus, queueVars, threadVars, handler, events, inputVars,
                  overruled, crashed>>
  BY DEF ClearText, ClearLoc, ClearEnd, history
<1>3. clearTextOnFocus
  BY DEF ClearText, ClearLoc, ClearEnd, Unqueued
<1>4. /\ display' \in Text /\ end' \in Nat /\ loc' \in Int /\ raced' \in BOOLEAN
  <2>1. raced' \in BOOLEAN
    <3>1. CASE ClearText(t)
      BY <3>1, Zenon DEF ClearText
    <3>2. CASE ClearLoc(t) \/ ClearEnd(t)
      BY <1>1, <3>2 DEF ClearLoc, ClearEnd, history
    <3> QED BY <3>1, <3>2
  <2>2. display' \in Text /\ end' \in Nat /\ loc' \in Int
    BY <1>1 DEF ClearText, ClearLoc, ClearEnd
  <2> QED BY <2>1, <2>2
<1>5. \E p \in {"no", "loc", "end"} : entering' = [entering EXCEPT ![t] = p]
  BY DEF ClearText, ClearLoc, ClearEnd
<1>6. entering' \in [Caller -> Before \cup {"loc", "end"}]
  BY <1>1, <1>5 DEF Before
<1>7. InputTypeOK'
  BY <1>2, <1>4, <1>6 DEF InputTypeOK, TypeOK, props, queueVars, threadVars, inputVars
<1>8. Unqueued'
  BY <1>2, <1>3 DEF Unqueued, props, queueVars, threadVars
<1>9. CursorKept'
  <2>1. CASE OwnText /\ OwnText'
    <3>1. maxLength' = 0
      BY <1>2, <1>3, <2>1 DEF OwnText, props
    <3>2. Uncut'
      BY <3>1 DEF Uncut
    <3>3. ~crashed'
      BY <1>2, <2>1 DEF CursorKept
    <3>4. CASE ClearText(t) /\ display = <<>>
      <4>1. entering[t] = "text" /\ entering' = [entering EXCEPT ![t] = "no"]
        BY <3>4 DEF ClearText
      <4>2. \A u \in Caller : entering'[u] = IF u = t THEN "no" ELSE entering[u]
        BY <1>1, <4>1
      <4>3. \A u \in Caller : entering'[u] = entering[u] \/ {entering[u], entering'[u]} \subseteq Before
        BY <4>1, <4>2 DEF Before
      <4>4. UNCHANGED textVars
        BY <3>4 DEF ClearText, textVars
      <4> QED BY <1>2, <2>1, <4>3, <4>4, SameCursor
    <3>5. CASE ClearText(t) /\ display # <<>>
      <4>1. ~Clearing /\ entering' = [entering EXCEPT ![t] = "loc"] /\ display' = <<>>
        BY <3>5 DEF ClearText
      <4>2. \A u \in Caller : entering'[u] = IF u = t THEN "loc" ELSE entering[u]
        BY <1>1, <4>1
      <4>3. Clearing' /\ \A u \in Caller : entering'[u] # "end"
        BY <4>1, <4>2 DEF Clearing
      <4>4. handler'.pc \notin {"edit", "end"}
        BY <1>2, <2>1, <3>5 DEF ClearText, OwnText
      <4> QED BY <3>2, <3>3, <4>1, <4>3, <4>4 DEF CursorKept
    <3>6. CASE ClearLoc(t)
      <4>1. entering[t] = "loc" /\ entering' = [entering EXCEPT ![t] = "end"] /\ loc' = 0
            /\ display' = display
        BY <3>6 DEF ClearLoc
      <4>2. Clearing /\ Clearing'
        BY <1>1, <4>1 DEF Clearing
      <4> QED BY <1>2, <2>1, <3>2, <3>3, <4>1, <4>2 DEF CursorKept
    <3>7. CASE ClearEnd(t)
      <4>1. entering[t] = "end" /\ entering' = [entering EXCEPT ![t] = "no"] /\ end' = 0
            /\ display' = display /\ loc' = loc
        BY <3>7 DEF ClearEnd
      <4>2. \A u \in Caller : entering'[u] = IF u = t THEN "no" ELSE entering[u]
        BY <1>1, <4>1
      <4>3. Clearing
        BY <4>1 DEF Clearing
      <4>4. display' = <<>> /\ loc' = 0 /\ handler'.pc \notin {"edit", "end"}
        BY <1>2, <2>1, <4>1, <4>3 DEF CursorKept
      <4>5. Len(handler'.text) \in Nat
        BY <1>7, LenProperties DEF InputTypeOK, Edit, Text
      <4>6. Kept'
        BY <1>1, <4>1, <4>4, <4>5 DEF Kept, ReadText
      <4> QED BY <3>2, <3>3, <4>4, <4>6 DEF CursorKept
    <3> QED BY <3>4, <3>5, <3>6, <3>7
  <2>2. OwnText' => OwnText
    BY <1>1, <1>2 DEF ClearText, ClearLoc, ClearEnd, OwnText, props, history
  <2> QED BY <2>1, <2>2 DEF CursorKept
<1> QED BY <1>7, <1>8, <1>9

\* The commands of the script: only those of a controlled input, and those
\* that overrule the keys, change the text.
LEMMA ScriptInv ==
  ASSUME InputInv, Answer \/ Refuse \/ \E text \in ScriptText : SetTextAndSelection(text)
  PROVE  InputInv'
<1> USE DEF InputInv
<1>4. ASSUME NEW text \in Text, NEW rest \in Seq(Text), permits' \in Nat, overruled' \in BOOLEAN,
             UNCHANGED <<props, editing, entering, inFocus, loc, queueVars, threads, started,
                         processed, handler, inputVars, raced, crashed>>,
             \/ display' = text /\ end' = Len(text)
             \/ UNCHANGED <<display, end>>,
             events' = rest,
             events = <<>> => events' = <<>>,
             overruled' \/ controlled
      PROVE  InputInv'
  <2>1. display' \in Text /\ end' \in Nat
    BY <1>4, LenProperties DEF InputTypeOK, TypeOK, Text
  <2>2. InputTypeOK'
    BY <1>4, <2>1 DEF InputTypeOK, TypeOK, props, queueVars, inputVars
  <2>3. Unqueued'
    BY <1>4 DEF Unqueued, props, queueVars
  <2>4. CursorKept'
    BY <1>4 DEF CursorKept, OwnText, props
  <2> QED BY <2>2, <2>3, <2>4
<1>5. permits \in Nat /\ permits + 1 \in Nat /\ display \in Text /\ events \in Seq(Text)
      /\ overruled \in BOOLEAN
  BY DEF InputTypeOK, TypeOK
<1>6. CASE Answer
  <2>1. PICK n \in 1..Len(events) :
          events' = SubSeq(events, n + 1, Len(events)) /\ UpdateComponentProps(events[n])
    BY <1>6 DEF Answer
  <2>2. n \in 1..Len(events) /\ Len(events) \in Nat
    BY <1>5, <2>1, LenProperties
  <2>3. events[n] \in Text /\ events' \in Seq(Text)
    BY <1>5, <2>1, <2>2, ElementOfSeq, SubSeqProperties
  <2>4. events # <<>>
    BY <2>2
  <2>5. controlled
    BY <2>4 DEF Unqueued
  <2>6. permits' \in Nat
    BY <1>5, <2>1 DEF UpdateComponentProps, Post
  <2>7. \/ display' = events[n] /\ end' = Len(events[n])
        \/ UNCHANGED <<display, end>>
    BY <2>1 DEF UpdateComponentProps
  <2> QED BY <1>4, <1>5, <1>6, <2>3, <2>4, <2>5, <2>6, <2>7 DEF Answer, history
<1>7. CASE Refuse
  <2>1. events # <<>> /\ events' = Tail(events) /\ overruled' = TRUE
    BY <1>7 DEF Refuse
  <2>2. events' \in Seq(Text)
    BY <1>5, <2>1, HeadTailProperties
  <2>3. UNCHANGED <<display, end, permits>>
    BY <1>7 DEF Refuse, UpdateComponentProps
  <2> QED BY <1>4, <1>5, <1>7, <2>1, <2>2, <2>3 DEF Refuse
<1>8. CASE \E text \in ScriptText : SetTextAndSelection(text)
  <2>1. PICK text \in ScriptText : SetTextAndSelection(text)
    BY <1>8
  <2>2. text \in Text
    BY <2>1, ScriptTexts
  <2>3. permits' \in Nat
    BY <1>5, <2>1 DEF SetTextAndSelection, Post
  <2> QED BY <1>4, <1>5, <2>1, <2>2, <2>3 DEF SetTextAndSelection
<1> QED BY <1>6, <1>7, <1>8

\* A thread that the first key of a controlled input starts is one of those
\* that the input may have.
LEMMA StartedThread ==
  ASSUME InputTypeOK, StartThread
  PROVE  /\ threads' \in [1..MaxThreads -> [pc : Pc, waits : BOOLEAN]]
         /\ started' \in 0..MaxThreads
<1> USE TextAssumption
<1>1. threads \in [1..MaxThreads -> [pc : Pc, waits : BOOLEAN]] /\ started \in 0..MaxThreads
  BY DEF InputTypeOK, TypeOK
<1>2. CASE inFocus
  BY <1>1, <1>2 DEF StartThread
<1>3. CASE ~inFocus
  BY <1>1, <1>3 DEF StartThread, Pc
<1> QED BY <1>2, <1>3

\* The keys of a controlled input: the repetition they begin, go on with or
\* end stays within the queue.
LEMMA QueuedInv ==
  ASSUME InputInv, NEW k \in Key,
         PressEndsRepeat(k) \/ PressQueued(k) \/ (k = "select" /\ PressSelect)
  PROVE  InputInv'
<1> USE DEF InputInv
<1>1. /\ inputQueue \in Seq(Key) /\ Len(inputQueue) \in Nat /\ repeatStart \in Nat
      /\ inFocus => repeatStart <= Len(inputQueue)
      /\ repeat \in BOOLEAN /\ <<>> \in Seq(Key) /\ inFocus \in BOOLEAN
  BY LenProperties, EmptySeq DEF InputTypeOK, TypeOK
<1>2. controlled /\ controlled' = controlled /\ UNCHANGED <<props, crashed, textVars>>
      /\ UNCHANGED <<permits, processed, handler, events, history, entering>>
  BY DEF PressEndsRepeat, PressQueued, PressSelect, props, threadVars
<1>3. repeat' \in BOOLEAN
  BY <1>1 DEF PressEndsRepeat, PressQueued, PressSelect, Press
<1>4. CASE PressEndsRepeat(k)
  <2>1. inputQueue' \in Seq(Key)
    BY <1>1, <1>4, SubSeqProperties DEF PressEndsRepeat, Repeating
  <2>2. /\ repeatOn' = FALSE /\ repeatStart' = 0 /\ UNCHANGED <<editing, inFocus, threads, started>>
    BY <1>4 DEF PressEndsRepeat, threadVars
  <2>3. repeatStart' <= Len(inputQueue')
    BY <2>1, <2>2, LenProperties
  <2>4. InputTypeOK'
    BY <1>2, <1>3, <2>1, <2>2, <2>3 DEF InputTypeOK, TypeOK, props, textVars, history
  <2>5. Unqueued' /\ CursorKept'
    BY <1>2 DEF Unqueued, CursorKept, OwnText, props
  <2> QED BY <2>4, <2>5
<1>5. CASE PressQueued(k) \/ PressSelect
  <2>1. Start(repeat') \in Nat /\ Start(repeat') <= Len(inputQueue)
    BY <1>1 DEF Start, Repeating
  <2>2. repeatOn' = repeat' /\ repeatStart' = Start(repeat')
    BY <1>5 DEF PressQueued, PressSelect
  <2>3. threads' \in [1..MaxThreads -> [pc : Pc, waits : BOOLEAN]] /\ started' \in 0..MaxThreads
    BY <1>5, StartedThread DEF PressQueued, PressSelect
  <2>4. /\ inputQueue' \in Seq(Key) /\ editing' \in BOOLEAN /\ inFocus' \in BOOLEAN
        /\ inFocus' => repeatStart' <= Len(inputQueue')
    <3>1. CASE PressQueued(k)
      <4>1. inputQueue' = Append(inputQueue, k) /\ inFocus' = TRUE /\ editing' = editing
        BY <3>1 DEF PressQueued
      <4>2. inputQueue' \in Seq(Key) /\ Len(inputQueue') = Len(inputQueue) + 1
        BY <1>1, <4>1, AppendProperties
      <4> QED BY <1>1, <2>1, <2>2, <4>1, <4>2 DEF InputTypeOK, TypeOK
    <3>2. CASE PressSelect
      BY <1>1, <3>2 DEF PressSelect
    <3> QED BY <1>5, <3>1, <3>2
  <2>5. InputTypeOK'
    <3>1. \A i \in 1..MaxThreads : threads'[i].pc \in Pc
      BY <2>3
    <3> QED BY <1>2, <1>3, <2>1, <2>2, <2>3, <2>4, <3>1
            DEF InputTypeOK, TypeOK, props, textVars, history, Pc
  <2>6. Unqueued' /\ CursorKept'
    BY <1>2 DEF Unqueued, CursorKept, OwnText, props
  <2> QED BY <2>5, <2>6
<1> QED BY <1>4, <1>5

\* A key of an input that is not controlled has read the text.
LEMMA PressEditInv ==
  ASSUME InputInv, NEW k \in Key, PressEdit(k)
  PROVE  InputInv'
<1> USE DEF InputInv
<1>1. /\ display \in Text /\ Len(display) \in Nat /\ end \in Nat /\ loc \in Int
      /\ repeat \in BOOLEAN
  BY LenProperties DEF InputTypeOK, TypeOK, Text
<1>2. /\ handler = NoEdit /\ handler.pc = "idle"
      /\ handler' = [pc |-> "test", key |-> k, text |-> display, before |-> Len(display),
                     end |-> 0, loc |-> 0]
  BY DEF PressEdit, Press, Free, NoEdit, Handling
<1>3. UNCHANGED <<props, editing, entering, inFocus, textVars, queueVars, threadVars, events,
                  history, crashed>>
      /\ repeat' \in BOOLEAN
  BY <1>1 DEF PressEdit, Press
<1>4. handler' \in Edit
  BY <1>1, <1>2 DEF Edit
<1>5. InputTypeOK'
  BY <1>3, <1>4 DEF InputTypeOK, TypeOK, props, textVars, queueVars, threadVars, history
<1>6. Unqueued'
  BY <1>3 DEF Unqueued, props, queueVars, threadVars
<1>7. CursorKept'
  <2>1. SUFFICES ASSUME OwnText PROVE CursorKept'
    BY <1>3 DEF CursorKept, OwnText, props, history
  <2>2. (Clearing' <=> Clearing) /\ maxLength' = maxLength /\ UNCHANGED <<display, end, loc>>
    BY <1>3 DEF Clearing, props, textVars
  <2>3. ~Clearing => end = Len(display) /\ loc \in 0..end
    BY <1>2, <2>1 DEF CursorKept, Kept
  <2>4. ~Clearing' => Kept'
    BY <1>2, <2>2, <2>3 DEF Kept, ReadText
  <2>5. maxLength # 0 => ~Clearing
    BY <2>1 DEF OwnText, Unqueued, Clearing
  <2>6. Uncut'
    <3>1. handler'.before = Len(display)
      BY <1>2
    <3>2. ASSUME maxLength # 0 PROVE loc <= Len(display)
      <4>1. end = Len(display) /\ loc \in 0..end
        BY <2>3, <2>5, <3>2
      <4>2. loc <= end
        BY <1>1, <4>1
      <4> QED BY <4>1, <4>2
    <3> QED BY <2>2, <3>1, <3>2 DEF Uncut
  <2> QED BY <1>2, <1>3, <2>1, <2>2, <2>4, <2>6 DEF CursorKept
<1> QED BY <1>5, <1>6, <1>7

\* What the key does next depends on the cursor of this moment.
LEMMA TestInv ==
  ASSUME InputInv, Test
  PROVE  InputInv'
<1> USE DEF InputInv
<1>1. /\ display \in Text /\ Len(display) \in Nat /\ end \in Nat /\ loc \in Int /\ raced \in BOOLEAN
      /\ handler \in Edit /\ handler.pc = "test"
      /\ handler.text \in Text /\ Len(handler.text) \in Nat /\ handler.before \in Nat
      /\ handler.key \in Key \cup {NoKey}
  BY LenProperties DEF InputTypeOK, TypeOK, Text, Test, Edit
<1>2. UNCHANGED <<props, editing, entering, inFocus, textVars, queueVars, threadVars, events,
                  inputVars, overruled, crashed>>
  BY DEF Test
<1> DEFINE goes == Edits(handler.key, handler.text, end, loc) \/ Moves(handler.key, end, loc)
           edit == Handling("edit", handler.key, handler.text, handler.before, end, loc)
           same == Handling("store", NoKey, handler.text, handler.before, 0, 0)
<1>3. \/ goes /\ handler' = edit
      \/ ~goes /\ handler.key = "delete" /\ handler' = same
      \/ handler' = NoEdit
  BY DEF Test
<1>4. edit \in Edit /\ edit.pc = "edit" /\ edit.key = handler.key /\ edit.text = handler.text
      /\ edit.before = handler.before /\ edit.end = end /\ edit.loc = loc
  BY <1>1 DEF Edit, Handling
<1>5. same \in Edit /\ same.pc = "store" /\ same.text = handler.text /\ same.before = handler.before
  BY <1>1 DEF Edit, Handling
<1>6. NoEdit \in Edit /\ NoEdit.pc = "idle"
  BY NoEditTyped DEF NoEdit, Handling
<1> HIDE DEF edit, same
<1>7. raced' \in BOOLEAN
  BY DEF Test
<1>8. handler' \in Edit
  BY <1>3, <1>4, <1>5, <1>6
<1>9. InputTypeOK'
  BY <1>2, <1>7, <1>8 DEF InputTypeOK, TypeOK, props, textVars, queueVars, threadVars, inputVars
<1>10. Unqueued'
  BY <1>2 DEF Unqueued, props, queueVars, threadVars
<1>11. CursorKept'
  <2>1. SUFFICES ASSUME OwnText, OwnText' PROVE CursorKept'
    BY <1>1, <1>2 DEF CursorKept, OwnText, props, Test
  <2>2. (Clearing' <=> Clearing) /\ maxLength' = maxLength /\ UNCHANGED <<display, end, loc>>
    BY <1>2 DEF Clearing, props, textVars
  <2>3. Clearing => handler'.pc # "edit"
    BY <2>1 DEF Test, OwnText
  <2>4. ~Clearing => end = Len(display) /\ loc \in 0..end /\ ReadText
    BY <1>1, <2>1 DEF CursorKept, Kept
  <2>5. Clearing' => handler'.pc \notin {"edit", "end"}
    BY <1>3, <1>4, <1>5, <1>6, <2>2, <2>3
  <2>6. ~Clearing' => Kept'
    <3>1. SUFFICES ASSUME ~Clearing PROVE Kept'
      BY <2>2
    <3>2. CASE goes /\ handler' = edit
      <4>1. ReadText'
        BY <1>4, <2>2, <2>4, <3>1, <3>2 DEF ReadText
      <4>2. handler.key \in Char => InText(handler.key, handler.text, loc, end, loc)
        <5>1. ASSUME loc # 0 PROVE end - loc \in 0..Len(handler.text)
          <6>1. loc \in 0..end /\ Len(handler.text) = end
            BY <1>1, <2>4, <3>1, <5>1 DEF ReadText
          <6>2. end - loc \in 0..end
            BY <1>1, <6>1
          <6> QED BY <6>1, <6>2
        <5> QED BY <5>1 DEF InText
      <4>3. handler.key = "delete" => InText(handler.key, handler.text, loc, end, loc)
        <5>1. SUFFICES ASSUME handler.key = "delete"
                       PROVE  InText(handler.key, handler.text, loc, end, loc)
          OBVIOUS
        <5>2. end # loc /\ handler.key \notin Char
          BY <3>2, <5>1, TextAssumption DEF Edits, Moves
        <5>3. Len(handler.text) = end
          BY <2>4, <3>1, <5>2 DEF ReadText
        <5>4. end - loc \in 1..Len(handler.text)
          BY <1>1, <2>4, <3>1, <5>2, <5>3
        <5> QED BY <5>2, <5>4 DEF InText
      <4>4. handler.key \notin EditKey => Moves(handler.key, end, loc)
        BY <3>2 DEF Edits, EditKey
      <4>5. /\ handler'.key = handler.key /\ handler'.text = handler.text
            /\ handler'.end = end /\ handler'.loc = loc /\ handler'.pc = "edit"
        BY <1>4, <3>2
      <4>6. handler'.key \in EditKey => InText(handler'.key, handler'.text, loc', end', loc')
        BY <2>2, <4>2, <4>3, <4>5 DEF EditKey
      <4>7. handler'.key \notin EditKey => Moves(handler'.key, end', loc')
        BY <2>2, <4>4, <4>5
      <4>8. end' = Len(display') /\ loc' \in 0..end'
        BY <2>2, <2>4, <3>1
      <4>9. (InText(handler.key, handler.text, loc, end, loc))'
              <=> InText(handler'.key, handler'.text, loc', end', loc')
        BY DEF InText
      <4>10. (Moves(handler.key, end, loc))' <=> Moves(handler'.key, end', loc')
        BY DEF Moves
      <4> QED BY <2>2, <4>1, <4>5, <4>6, <4>7, <4>8, <4>9, <4>10 DEF Kept
    <3>3. CASE ~goes /\ handler.key = "delete" /\ handler' = same
      <4>1. loc = 0 \/ Len(handler.text) = end
        BY <2>4, <3>1 DEF ReadText
      <4>2. loc \in 0..Len(handler.text)
        <5>1. loc \in 0..end
          BY <2>4, <3>1
        <5>2. 0 \in 0..Len(handler.text)
          BY <1>1
        <5> QED BY <4>1, <5>1, <5>2
      <4> QED BY <1>5, <2>2, <3>3, <4>2 DEF Kept
    <3>4. CASE handler' = NoEdit
      BY <1>6, <2>2, <2>4, <3>1, <3>4 DEF Kept
    <3> QED BY <1>3, <3>2, <3>3, <3>4
  <2>7. Uncut'
    <3>1. handler'.pc \in {"test", "edit", "store"} => handler'.before = handler.before
      BY <1>3, <1>4, <1>5, <1>6
    <3> QED BY <1>1, <2>1, <2>2, <3>1 DEF CursorKept, Uncut
  <2> QED BY <1>2, <2>1, <2>2, <2>5, <2>6, <2>7 DEF CursorKept
<1> QED BY <1>9, <1>10, <1>11

\* The key edits its copy of the text; unless a clear has met it, the place of
\* the edit is the one it has tested, and inside of the text.
LEMMA EditInv ==
  ASSUME InputInv, EditText
  PROVE  InputInv'
<1> USE DEF InputInv
<1>1. /\ display \in Text /\ Len(display) \in Nat /\ end \in Nat /\ loc \in Int
      /\ handler \in Edit /\ handler.pc = "edit" /\ handler.key \in EditKey
      /\ handler.text \in Text /\ Len(handler.text) \in Nat /\ handler.before \in Nat
      /\ handler.end \in Int /\ handler.loc \in Int /\ crashed = FALSE
  BY LenProperties DEF InputTypeOK, TypeOK, Text, EditText, Edit, EditKey
<1>2. UNCHANGED <<props, editing, entering, inFocus, display, loc, queueVars, threadVars, events,
                  inputVars, history>>
  BY DEF EditText
<1>3. PICK e \in {handler.end, end}, l \in {handler.loc, loc} :
        LET new == Edited(handler.key, handler.text, handler.loc, e, l) IN
        IF InText(handler.key, handler.text, handler.loc, e, l)
        THEN /\ handler' = Handling("store", NoKey, new, handler.before, 0, 0)
             /\ end' = Len(new)
             /\ UNCHANGED crashed
        ELSE crashed' = TRUE /\ UNCHANGED <<handler, end>>
  BY DEF EditText
<1>4. e \in Int /\ l \in Int
  BY <1>1
<1> DEFINE new == Edited(handler.key, handler.text, handler.loc, e, l)
           next == Handling("store", NoKey, new, handler.before, 0, 0)
<1>5. CASE InText(handler.key, handler.text, handler.loc, e, l)
  <2>1. handler' = next /\ end' = Len(new) /\ crashed' = FALSE
    BY <1>1, <1>3, <1>5
  <2>2. /\ new \in Text
        /\ Len(new) = IF handler.key \in Char THEN Len(handler.text) + 1 ELSE Len(handler.text) - 1
    <3>1. handler.loc \in Int /\ handler.text \in Text /\ handler.key \in EditKey
      BY <1>1
    <3>2. ASSUME NEW k \in EditKey, NEW text \in Text, NEW seen \in Int, InText(k, text, seen, e, l)
          PROVE  /\ Edited(k, text, seen, e, l) \in Text
                 /\ Len(Edited(k, text, seen, e, l))
                      = IF k \in Char THEN Len(text) + 1 ELSE Len(text) - 1
      BY <1>4, <3>2, EditedText
    <3> QED BY <1>5, <3>1, <3>2, Zenon
  <2>3. Len(new) \in Nat
    BY <2>2, LenProperties DEF Text
  <2> HIDE DEF new
  <2>4. next \in Edit /\ next.pc = "store" /\ next.text = new /\ next.before = handler.before
    BY <1>1, <2>2 DEF Edit, Handling
  <2> HIDE DEF next
  <2>5. InputTypeOK'
    BY <1>2, <2>1, <2>3, <2>4
    DEF InputTypeOK, TypeOK, props, queueVars, threadVars, inputVars, history
  <2>6. CursorKept'
    <3>1. SUFFICES ASSUME OwnText PROVE CursorKept'
      BY <1>2 DEF CursorKept, OwnText, props, history
    <3>2. (Clearing' <=> Clearing) /\ maxLength' = maxLength /\ UNCHANGED <<display, loc>>
      BY <1>2 DEF Clearing, props
    <3>3. ~Clearing
      BY <1>1, <3>1 DEF CursorKept
    <3>4. /\ end = Len(display) /\ loc \in 0..end /\ ReadText
          /\ handler.end = end /\ handler.loc = loc
      BY <1>1, <3>1, <3>3 DEF CursorKept, Kept
    <3>5. e = end /\ l = loc
      BY <3>4
    <3>6. loc \in 0..Len(new)
      <4>1. CASE handler.key \in Char
        <5>1. Len(new) = Len(handler.text) + 1
          BY <2>2, <4>1
        <5>2. CASE loc = 0
          BY <1>1, <5>1, <5>2
        <5>3. CASE Len(handler.text) = end
          <6>1. loc \in 0..end
            BY <3>4
          <6>2. loc \in 0..(end + 1)
            BY <1>1, <6>1
          <6> QED BY <5>1, <5>3, <6>2
        <5> QED BY <3>4, <5>2, <5>3 DEF ReadText
      <4>2. CASE handler.key \notin Char
        <5>1. end - loc \in 1..Len(handler.text)
          BY <1>5, <3>5, <4>2 DEF InText
        <5>2. Len(handler.text) = end
          BY <1>1, <3>4, <5>1 DEF ReadText
        <5> QED BY <1>1, <2>2, <3>4, <4>2, <5>1, <5>2
      <4> QED BY <4>1, <4>2
    <3>7. Kept'
      BY <2>1, <2>4, <3>2, <3>6 DEF Kept
    <3>8. Uncut'
      BY <1>1, <2>1, <2>4, <3>1, <3>2 DEF CursorKept, Uncut
    <3> QED BY <1>2, <2>1, <3>1, <3>2, <3>3, <3>7, <3>8 DEF CursorKept
  <2>7. Unqueued'
    BY <1>2 DEF Unqueued, props, queueVars, threadVars
  <2> QED BY <2>5, <2>6, <2>7
<1>6. CASE ~InText(handler.key, handler.text, handler.loc, e, l)
  <2>1. crashed' = TRUE /\ UNCHANGED <<handler, end>>
    BY <1>3, <1>6
  <2>2. InputTypeOK'
    BY <1>2, <2>1 DEF InputTypeOK, TypeOK, props, queueVars, threadVars, inputVars, history
  <2>3. ~OwnText
    <3>1. SUFFICES ASSUME OwnText PROVE FALSE
      OBVIOUS
    <3>2. /\ handler.end = end /\ handler.loc = loc
          /\ InText(handler.key, handler.text, loc, end, loc)
      BY <1>1, <3>1 DEF CursorKept, Kept
    <3> QED BY <1>6, <3>2
  <2>4. CursorKept'
    BY <1>2, <2>3 DEF CursorKept, OwnText, props, history
  <2>5. Unqueued'
    BY <1>2 DEF Unqueued, props, queueVars, threadVars
  <2> QED BY <2>2, <2>4, <2>5
<1> QED BY <1>5, <1>6

\* Left and right move the cursor within the text.
LEMMA MoveInv ==
  ASSUME InputInv, MoveCursor
  PROVE  InputInv'
<1> USE DEF InputInv
<1>1. /\ end \in Nat /\ loc \in Int /\ handler.loc \in Int
      /\ handler.pc = "edit" /\ handler.key \in {"left", "right"}
  BY DEF MoveCursor, InputTypeOK, TypeOK, Edit
<1>2. UNCHANGED <<props, editing, entering, inFocus, display, end, queueVars, threadVars, events,
                  inputVars, history, crashed>>
      /\ handler' = NoEdit
  BY DEF MoveCursor
<1>3. PICK l \in {handler.loc, loc} : loc' = MovedCursor(handler.key, l)
  BY DEF MoveCursor
<1>4. loc' \in Int /\ handler' \in Edit /\ handler'.pc = "idle"
  BY <1>1, <1>2, <1>3, NoEditTyped DEF MovedCursor, NoEdit, Handling
<1>5. InputTypeOK'
  BY <1>2, <1>4 DEF InputTypeOK, TypeOK, props, queueVars, threadVars, inputVars, history
<1>6. Unqueued'
  BY <1>2 DEF Unqueued, props, queueVars, threadVars
<1>7. CursorKept'
  <2>1. SUFFICES ASSUME OwnText PROVE CursorKept'
    BY <1>2 DEF CursorKept, OwnText, props, history
  <2>2. ~Clearing /\ ~Clearing'
    BY <1>1, <1>2, <2>1 DEF CursorKept, Clearing
  <2>3. end = Len(display) /\ loc \in 0..end /\ handler.loc = loc /\ Moves(handler.key, end, loc)
    BY <1>1, <2>1, <2>2, TextAssumption DEF CursorKept, Kept, EditKey
  <2>4. loc' \in 0..end
    BY <1>1, <1>3, <2>3 DEF Moves, MovedCursor
  <2>5. Kept' /\ Uncut'
    BY <1>2, <1>4, <2>3, <2>4 DEF Kept, Uncut
  <2>6. \A t \in Caller : entering'[t] # "end"
    BY <2>2 DEF Clearing
  <2> QED BY <1>2, <2>1, <2>2, <2>5, <2>6 DEF CursorKept
<1> QED BY <1>5, <1>6, <1>7

\* The text that was read before is stored with the cursor inside of it, also
\* when it is cut and when the focus has cleared the old text meanwhile.
LEMMA StoreInv ==
  ASSUME InputInv, StoreText
  PROVE  InputInv'
<1> USE DEF InputInv
<1> DEFINE text   == handler.text
           before == handler.before
           cut    == SubSeq(text, 1, before)
           rest   == SubSeq(display, before + 1, Len(display))
           isLong == TooLong(text) /\ Len(text) > before /\ display # text
           next   == Handling("end", NoKey, <<>>, 0, 0, 0)
<1>1. /\ text \in Text /\ before \in Nat /\ Len(text) \in Nat
      /\ display \in Text /\ Len(display) \in Nat /\ handler.pc = "store" /\ raced \in BOOLEAN
      /\ loc \in Int
  BY LenProperties DEF StoreText, InputTypeOK, TypeOK, Edit, Text
<1>2. /\ handler' = next
      /\ crashed' = (isLong /\ Len(display) < before)
      /\ display' = IF crashed' THEN display ELSE IF isLong THEN cut \o rest ELSE text
      /\ raced' = (raced \/ Clearing)
      /\ UNCHANGED <<props, editing, entering, inFocus, end, loc, queueVars, threadVars, events,
                     inputVars, overruled>>
  BY DEF StoreText
<1>a. crashed' \in BOOLEAN /\ (crashed' <=> isLong /\ Len(display) < before)
  BY <1>2, Zenon
<1>b. raced' \in BOOLEAN
  BY <1>2, Zenon
<1>c. next \in Edit /\ next.pc = "end"
  BY EmptySeq DEF Handling, Edit, Text
<1> HIDE DEF next
<1>3. isLong /\ ~crashed' => cut \o rest \in Text /\ Len(cut \o rest) = Len(display)
  <2> SUFFICES ASSUME isLong, ~crashed'
               PROVE  cut \o rest \in Text /\ Len(cut \o rest) = Len(display)
    OBVIOUS
  <2>1. before <= Len(display) /\ before < Len(text)
    <3>1. Len(text) > before /\ ~(Len(display) < before)
      BY <1>a
    <3> HIDE DEF text, before
    <3> QED BY <1>1, <3>1
  <2>2. cut \in Seq(Char) /\ Len(cut) = before
    BY <1>1, <2>1, SubSeqProperties DEF Text
  <2>3. rest \in Seq(Char) /\ Len(rest) = Len(display) - before
    BY <1>1, <2>1, SubSeqProperties DEF Text
  <2> HIDE DEF cut, rest
  <2>4. cut \o rest \in Seq(Char) /\ Len(cut \o rest) = Len(cut) + Len(rest)
    BY <2>2, <2>3, ConcatProperties
  <2> QED BY <1>1, <2>2, <2>3, <2>4 DEF Text
<1> HIDE DEF text, before, cut, rest, isLong
<1>4. display' \in Text /\ Len(display') \in Nat
  <2>1. display' \in Text
    BY <1>1, <1>2, <1>3
  <2> QED BY <2>1, LenProperties DEF Text
<1>5. InputTypeOK'
  BY <1>2, <1>4, <1>a, <1>b, <1>c DEF InputTypeOK, TypeOK, props, queueVars, threadVars, inputVars
<1>6. Unqueued'
  BY <1>2 DEF Unqueued, props, queueVars, threadVars
<1>7. CursorKept'
  <2>1. SUFFICES ASSUME OwnText, ~Clearing PROVE CursorKept'
    BY <1>1, <1>2 DEF CursorKept, OwnText, props
  <2>2. loc \in 0..Len(text) /\ (maxLength # 0 => Len(display) = before /\ loc <= before)
    BY <1>1, <2>1 DEF CursorKept, Kept, Uncut, text, before
  <2>3. isLong => maxLength # 0
    BY DEF isLong, TooLong
  <2>4. ~crashed'
    <3>1. SUFFICES ASSUME isLong, Len(display) < before PROVE FALSE
      BY <1>a
    <3>2. Len(display) = before
      BY <2>2, <2>3, <3>1
    <3> QED BY <1>1, <3>1, <3>2
  <2>5. loc \in 0..Len(display')
    BY <1>1, <1>2, <1>3, <2>2, <2>3, <2>4
  <2>6. Kept' /\ Uncut'
    BY <1>2, <1>c, <2>5 DEF Kept, Uncut
  <2>7. ~Clearing' /\ \A t \in Caller : entering'[t] # "end"
    BY <1>2, <2>1 DEF Clearing
  <2> QED BY <2>4, <2>6, <2>7 DEF CursorKept
<1> QED BY <1>5, <1>6, <1>7

\* The length that is stored last is that of the text.
LEMMA StoreEndInv ==
  ASSUME InputInv, StoreEnd
  PROVE  InputInv'
<1> USE DEF InputInv
<1>1. display \in Text /\ Len(display) \in Nat /\ handler.pc = "end"
  BY LenProperties DEF StoreEnd, InputTypeOK, TypeOK, Text
<1>2. /\ handler' = NoEdit /\ end' = Len(display)
      /\ UNCHANGED <<props, editing, entering, inFocus, display, loc, queueVars, threadVars, events,
                     inputVars, history, crashed>>
  BY DEF StoreEnd
<1>3. InputTypeOK'
  BY <1>1, <1>2, NoEditTyped
  DEF InputTypeOK, TypeOK, props, queueVars, threadVars, inputVars, history
<1>4. Unqueued'
  BY <1>2 DEF Unqueued, props, queueVars, threadVars
<1>5. CursorKept'
  <2>1. SUFFICES ASSUME OwnText PROVE CursorKept'
    BY <1>2 DEF CursorKept, OwnText, props, history
  <2>2. ~Clearing /\ ~Clearing'
    BY <1>1, <1>2, <2>1 DEF CursorKept, Clearing
  <2>3. loc \in 0..Len(display) /\ handler'.pc = "idle"
    BY <1>1, <1>2, <2>1, <2>2 DEF CursorKept, Kept, NoEdit, Handling
  <2>4. Kept' /\ Uncut'
    BY <1>1, <1>2, <2>3 DEF Kept, Uncut
  <2> QED BY <1>2, <2>1, <2>2, <2>4 DEF CursorKept
<1> QED BY <1>3, <1>4, <1>5

\* The threads take keys off the front of the queue, and none of them runs in
\* an input that is not controlled.
LEMMA ThreadInv ==
  ASSUME InputInv, NEW i \in 1..MaxThreads,
         ThreadLoop(i) \/ ThreadKey(i) \/ ThreadNoKey(i) \/ ThreadWait(i)
  PROVE  InputInv'
<1> USE DEF InputInv
<1>1. /\ threads \in [1..MaxThreads -> [pc : Pc, waits : BOOLEAN]]
      /\ permits \in Nat /\ end \in Nat /\ loc \in Int /\ display \in Text
      /\ events \in Seq(Text) /\ processed \in Seq(Key) /\ crashed \in BOOLEAN
      /\ inFocus => repeatStart <= Len(inputQueue)
      /\ inputQueue \in Seq(Key) /\ repeatStart \in Nat /\ Len(inputQueue) \in Nat
  BY LenProperties DEF InputTypeOK, TypeOK
<1>2. UNCHANGED <<props, editing, entering, inFocus, display, repeatOn, started, handler, inputVars,
                  history>>
  BY DEF ThreadLoop, ThreadKey, ThreadNoKey, ThreadWait, threadVars, queueVars, textVars
<1>3. controlled /\ controlled' = controlled
  <2>1. threads[i].pc # "none"
    BY DEF ThreadLoop, ThreadKey, ThreadNoKey, ThreadWait
  <2> QED BY <1>2, <2>1 DEF Unqueued, InputTypeOK, TypeOK, props
<1>4. Unqueued' /\ CursorKept'
  BY <1>2, <1>3 DEF Unqueued, CursorKept, OwnText, props
<1>5. /\ threads' \in [1..MaxThreads -> [pc : Pc, waits : BOOLEAN]]
      /\ \A j \in 1..MaxThreads : threads'[j].pc \in Pc
  <2>1. \E e \in [pc : Pc, waits : BOOLEAN] : threads' = [threads EXCEPT ![i] = e]
    <3>1. threads[i] \in [pc : Pc, waits : BOOLEAN]
      BY <1>1
    <3>2. CASE ThreadLoop(i) \/ ThreadWait(i)
      <4>1. PICK p \in Pc : threads' = [threads EXCEPT ![i].pc = p]
        BY <3>2 DEF ThreadLoop, ThreadWait, Pc
      <4>2. [threads[i] EXCEPT !.pc = p] \in [pc : Pc, waits : BOOLEAN]
        BY <3>1
      <4> QED BY <4>1, <4>2
    <3>3. CASE ThreadKey(i)
      <4>1. PICK w \in BOOLEAN : threads' = [threads EXCEPT ![i] = AfterKey(w)]
        BY <3>1, <3>3, Zenon DEF ThreadKey
      <4>2. AfterKey(w) \in [pc : Pc, waits : BOOLEAN]
        BY DEF AfterKey, Pc
      <4> QED BY <4>1, <4>2
    <3>4. CASE ThreadNoKey(i)
      BY <1>1, <3>1, <3>4 DEF ThreadNoKey, threadVars
    <3> QED BY <3>2, <3>3, <3>4
  <2> QED BY <1>1, <2>1
<1>6. CASE ThreadKey(i)
  <2> DEFINE k     == Head(inputQueue)
             edits == Edits(k, display, end, loc)
             new   == Edited(k, display, loc, end, loc)
  <2>1. /\ k \in Key /\ Tail(inputQueue) \in Seq(Key)
        /\ Len(Tail(inputQueue)) = Len(inputQueue) - 1
    BY <1>1, <1>6, HeadTailProperties DEF ThreadKey
  <2>2. /\ inputQueue' = Tail(inputQueue) /\ repeatStart' = PoppedStart
        /\ processed' = Append(processed, k)
        /\ crashed' = (edits /\ ~InText(k, display, loc, end, loc))
        /\ end' = IF edits /\ ~crashed' THEN Len(new) ELSE end
        /\ loc' = IF Moves(k, end, loc) THEN MovedCursor(k, loc) ELSE loc
        /\ events' = IF k \notin Char \cup {"delete"} \/ crashed' THEN events
                     ELSE Reported(IF edits THEN new ELSE display)
        /\ permits' = permits
    BY <1>6 DEF ThreadKey
  <2> HIDE DEF k
  <2>3. crashed' \in BOOLEAN /\ (crashed' <=> edits /\ ~InText(k, display, loc, end, loc))
    BY <2>2, Zenon
  <2>4. edits /\ ~crashed' => new \in Text /\ Len(new) \in Nat
    <3> SUFFICES ASSUME edits, ~crashed' PROVE new \in Text /\ Len(new) \in Nat
      OBVIOUS
    <3>1. k \in EditKey /\ InText(k, display, loc, end, loc) /\ end \in Int
      BY <1>1, <2>3 DEF Edits, EditKey
    <3>2. new \in Text
      BY <1>1, <3>1, EditedText
    <3> QED BY <3>2, LenProperties DEF Text
  <2> HIDE DEF edits, new
  <2>5. end' \in Nat /\ loc' \in Int
    BY <1>1, <2>2, <2>4 DEF MovedCursor
  <2>6. events' \in Seq(Text)
    <3>1. CASE events' = events
      BY <1>1, <3>1
    <3>2. CASE ~crashed' /\ events' = Append(events, IF edits THEN new ELSE display)
      <4>1. (IF edits THEN new ELSE display) \in Text
        BY <1>1, <2>4, <3>2
      <4> QED BY <1>1, <3>2, <4>1, AppendProperties
    <3> QED BY <2>2, <3>1, <3>2 DEF Reported
  <2>7. processed' \in Seq(Key)
    BY <1>1, <2>1, <2>2, AppendProperties
  <2>8. repeatStart' \in Nat /\ (inFocus => repeatStart' <= Len(inputQueue'))
    <3>1. Len(inputQueue') \in Nat
      BY <2>1, <2>2, LenProperties
    <3> QED BY <1>1, <2>1, <2>2, <3>1 DEF PoppedStart
  <2>9. InputTypeOK'
    BY <1>1, <1>2, <1>5, <2>1, <2>2, <2>3, <2>5, <2>6, <2>7, <2>8
    DEF InputTypeOK, TypeOK, props, inputVars, history, Pc
  <2> QED BY <1>4, <2>9
<1>7. CASE ThreadLoop(i) \/ ThreadNoKey(i) \/ ThreadWait(i)
  <2>1. permits' \in Nat /\ crashed' \in BOOLEAN
    <3>1. CASE ThreadLoop(i)
      BY <1>1, <3>1 DEF ThreadLoop
    <3>2. CASE ThreadNoKey(i)
      BY <1>1, <3>2 DEF ThreadNoKey, threadVars
    <3>3. CASE ThreadWait(i)
      BY <1>1, <3>3 DEF ThreadWait
    <3> QED BY <1>7, <3>1, <3>2, <3>3
  <2>2. UNCHANGED <<textVars, queueVars, processed, events>>
    BY <1>7 DEF ThreadLoop, ThreadNoKey, ThreadWait, threadVars
  <2>3. InputTypeOK'
    BY <1>1, <1>2, <1>5, <2>1, <2>2
    DEF InputTypeOK, TypeOK, props, inputVars, textVars, queueVars, history, Pc
  <2> QED BY <1>4, <2>3
<1> QED BY <1>6, <1>7

-----------------------------------------------------------------------------
(* The texts that keys lead to.  TypedAll is a recursion over the keys;    *)
(* instead of an induction over them, the invariant of the state machine   *)
(* says of the keys taken so far that the recursion has a solution and     *)
(* which text all of its solutions end with.  One key more keeps this.     *)

\* What a key makes of a text in an input of the maximal length m.
TypedIn(m, text, k) ==
  LET new == IF k = "delete" THEN SubSeq(text, 1, Len(text) - 1) ELSE Append(text, k)
  IN  IF m # 0 /\ Len(new) > m THEN text ELSE new

Solves(f, m, text, ks) ==
  f = [n \in 0..Len(ks) |-> IF n = 0 THEN text ELSE TypedIn(m, f[n - 1], ks[n])]

LeadsTo(m, text, ks, last) ==
  (\E f : Solves(f, m, text, ks)) /\ \A f : Solves(f, m, text, ks) => f[Len(ks)] = last

\* No keys leave a text as it is.
LEMMA NoKeysTyped ==
  ASSUME NEW m, NEW text, NEW ks, ks = <<>>
  PROVE  LeadsTo(m, text, ks, text)
<1> HIDE DEF TypedIn
<1>1. Len(ks) = 0
  BY EmptySeq
<1>2. Solves([n \in 0..Len(ks) |-> text], m, text, ks)
  BY <1>1 DEF Solves
<1>3. ASSUME NEW f, Solves(f, m, text, ks) PROVE f[Len(ks)] = text
  BY <1>1, <1>3 DEF Solves
<1> QED BY <1>2, <1>3 DEF LeadsTo

\* The last key is typed at the end of the text that the others lead to.
LEMMA KeyTyped ==
  ASSUME NEW m, NEW text, NEW last, NEW S, NEW ks \in Seq(S), NEW k \in S,
         LeadsTo(m, text, ks, last)
  PROVE  LeadsTo(m, text, Append(ks, k), TypedIn(m, last, k))
<1> DEFINE n == Len(ks)
           more == Append(ks, k)
<1>1. n \in Nat /\ Len(more) = n + 1 /\ more[n + 1] = k /\ \A i \in 1..n : more[i] = ks[i]
  BY AppendProperties, LenProperties
<1> HIDE DEF n, more, TypedIn
<1>2. ASSUME NEW f, Solves(f, m, text, ks)
      PROVE  \E g : Solves(g, m, text, more)
  <2>1. /\ f = [i \in 0..n |-> IF i = 0 THEN text ELSE TypedIn(m, f[i - 1], ks[i])]
        /\ f[n] = last
    BY <1>2 DEF Solves, LeadsTo, n
  <2> DEFINE g == [i \in 0..(n + 1) |-> IF i = n + 1 THEN TypedIn(m, last, k) ELSE f[i]]
  <2>2. ASSUME NEW i \in 0..(n + 1)
        PROVE  g[i] = IF i = 0 THEN text ELSE TypedIn(m, g[i - 1], more[i])
    <3>1. CASE i = 0
      BY <1>1, <2>1, <3>1
    <3>2. CASE i \in 1..n
      <4>1. i \in 0..n /\ i # 0 /\ i # n + 1 /\ i - 1 \in 0..n /\ i - 1 # n + 1 /\ i - 1 \in 0..(n + 1)
        BY <1>1, <3>2
      <4>2. g[i] = f[i] /\ g[i - 1] = f[i - 1] /\ more[i] = ks[i]
        BY <1>1, <3>2, <4>1
      <4>3. f[i] = TypedIn(m, f[i - 1], ks[i])
        BY <2>1, <4>1
      <4> QED BY <4>1, <4>2, <4>3
    <3>3. CASE i = n + 1
      <4>1. n \in 0..(n + 1) /\ n # n + 1 /\ i - 1 = n /\ i # 0
        BY <1>1, <3>3
      <4>2. g[i] = TypedIn(m, last, k) /\ g[i - 1] = last /\ more[i] = k
        BY <1>1, <2>1, <3>3, <4>1
      <4> QED BY <4>1, <4>2
    <3> QED BY <1>1, <3>1, <3>2, <3>3
  <2>3. g = [i \in 0..(n + 1) |-> IF i = 0 THEN text ELSE TypedIn(m, g[i - 1], more[i])]
    BY <2>2
  <2> QED BY <1>1, <2>3 DEF Solves
<1>3. ASSUME NEW h, Solves(h, m, text, more)
      PROVE  h[n + 1] = TypedIn(m, last, k)
  <2>1. h = [i \in 0..(n + 1) |-> IF i = 0 THEN text ELSE TypedIn(m, h[i - 1], more[i])]
    BY <1>1, <1>3 DEF Solves
  <2> DEFINE r == [i \in 0..n |-> h[i]]
  <2>2. ASSUME NEW i \in 0..n
        PROVE  r[i] = IF i = 0 THEN text ELSE TypedIn(m, r[i - 1], ks[i])
    <3>1. r[i] = h[i] /\ h[i] = IF i = 0 THEN text ELSE TypedIn(m, h[i - 1], more[i])
      BY <1>1, <2>1
    <3>2. i # 0 => r[i - 1] = h[i - 1] /\ more[i] = ks[i]
      BY <1>1
    <3> QED BY <3>1, <3>2
  <2>3. r = [i \in 0..n |-> IF i = 0 THEN text ELSE TypedIn(m, r[i - 1], ks[i])]
    BY <2>2
  <2>4. r[n] = last
    BY <2>3 DEF Solves, LeadsTo, n
  <2>5. h[n] = last
    BY <1>1, <2>4
  <2>6. n + 1 \in 0..(n + 1) /\ n + 1 # 0 /\ (n + 1) - 1 = n
    BY <1>1
  <2>7. h[n + 1] = TypedIn(m, h[n], more[n + 1])
    BY <2>1, <2>6
  <2> QED BY <1>1, <2>5, <2>7
<1> QED BY <1>1, <1>2, <1>3 DEF LeadsTo, n, more

\* TypedAll is the text that the keys lead to.
LEMMA TypedAllIsLast ==
  ASSUME NEW text, NEW ks, NEW last, LeadsTo(maxLength, text, ks, last)
  PROVE  TypedAll(text, ks) = last
<1> DEFINE after[n \in 0..Len(ks)] == IF n = 0 THEN text ELSE Typed(after[n - 1], ks[n])
<1>1. \A t, k : Typed(t, k) = TypedIn(maxLength, t, k)
  BY DEF Typed, TypedIn, TooLong
<1>2. PICK f : Solves(f, maxLength, text, ks)
  BY DEF LeadsTo
<1>3. f = [n \in 0..Len(ks) |-> IF n = 0 THEN text ELSE Typed(f[n - 1], ks[n])]
  <2> HIDE DEF Typed, TypedIn
  <2>1. f = [n \in 0..Len(ks) |-> IF n = 0 THEN text ELSE TypedIn(maxLength, f[n - 1], ks[n])]
    BY <1>2 DEF Solves
  <2>2. [n \in 0..Len(ks) |-> IF n = 0 THEN text ELSE TypedIn(maxLength, f[n - 1], ks[n])]
          = [n \in 0..Len(ks) |-> IF n = 0 THEN text ELSE Typed(f[n - 1], ks[n])]
    BY <1>1
  <2> QED BY <2>1, <2>2, Zenon
<1>4. \E g : g = [n \in 0..Len(ks) |-> IF n = 0 THEN text ELSE Typed(g[n - 1], ks[n])]
  BY <1>3, Zenon
<1>5. after = [n \in 0..Len(ks) |-> IF n = 0 THEN text ELSE Typed(after[n - 1], ks[n])]
  BY <1>4, Zenon DEF after
<1>6. TypedAll(text, ks) = after[Len(ks)]
  BY Zenon DEF TypedAll, after
<1> HIDE DEF after, Typed, TypedIn
<1>7. Solves(after, maxLength, text, ks)
  <2>1. [n \in 0..Len(ks) |-> IF n = 0 THEN text ELSE TypedIn(maxLength, after[n - 1], ks[n])]
          = [n \in 0..Len(ks) |-> IF n = 0 THEN text ELSE Typed(after[n - 1], ks[n])]
    BY <1>1
  <2> QED BY <1>5, <2>1, Zenon DEF Solves
<1> QED BY <1>6, <1>7, Zenon DEF LeadsTo

\* An input whose text only its keys change, by way of one thread that has
\* waited for the script after every key.
OneThread ==
  /\ controlled /\ ~clearTextOnFocus /\ ~overruled /\ ~crashed
  /\ started <= 1 /\ (started = 1 => threads[1].waits)

\* The threads that were not started; and the keys of a controlled input are
\* not edited where they arrive.
Unstarted ==
  /\ \A i \in 1..MaxThreads : i > started => threads[i].pc = "none" /\ threads[i].waits
  /\ controlled => handler = NoEdit

\* A thread waits for the script.
Waits == \E i \in 1..MaxThreads : threads[i].pc = "wait"

\* The text with the last key: what the script was told and has not answered,
\* or what is shown.
Latest == IF events = <<>> THEN display ELSE Head(events)

\* The keys are processed in their order, each in the text that the one before
\* has led to: while a text is on its way to the script the thread waits, and
\* whenever it does not wait the text is shown, with the cursor at its end.  A
\* key that does nothing because the text is full leaves the thread waiting for
\* ever, since nothing is reported to the script.
KeysInOrder ==
  OneThread =>
    /\ loc = 0
    /\ events # <<>> => Len(events) = 1 /\ permits = 0
    /\ permits <= 1 /\ (~Waits => events = <<>> /\ permits = 0)
    /\ end = Len(Latest) \/ (events = <<>> /\ permits = 0 /\ Waits)
    /\ \E text \in ScriptText : LeadsTo(maxLength, text, processed, Latest)

KeysInv == Unstarted /\ KeysInOrder

-----------------------------------------------------------------------------
(* The keys of a controlled input.                                         *)

\* Before the first key is taken the text is one of the script.
LEMMA KeysInit == Init => KeysInv
<1> SUFFICES ASSUME Init PROVE KeysInv
  OBVIOUS
<1>1. Unstarted
  BY DEF Init, Unstarted
<1>2. LeadsTo(maxLength, display, processed, display)
  BY NoKeysTyped DEF Init
<1>3. Latest = display /\ events = <<>> /\ permits = 0 /\ loc = 0 /\ end = Len(display)
  BY DEF Init, Latest
<1>4. \E text \in ScriptText : LeadsTo(maxLength, text, processed, Latest)
  BY <1>2, <1>3 DEF Init
<1>5. KeysInOrder
  BY <1>3, <1>4 DEF KeysInOrder
<1> QED BY <1>1, <1>5 DEF KeysInv

\* Steps that leave the threads, the text and what was reported alone, or after
\* which the keys are not the only ones that change the text.
LEMMA OtherKeepsKeys ==
  ASSUME KeysInv, UNCHANGED <<props, threads, started>>, controlled => handler' = handler,
         \/ ~OneThread'
         \/ UNCHANGED <<textVars, permits, processed, events, overruled, crashed>>
  PROVE  KeysInv'
<1>1. Unstarted'
  BY DEF KeysInv, Unstarted, props
<1>2. CASE ~OneThread'
  BY <1>1, <1>2 DEF KeysInv, KeysInOrder
<1>3. CASE UNCHANGED <<textVars, permits, processed, events, overruled, crashed>>
  <2>1. (OneThread' <=> OneThread) /\ (Waits' <=> Waits) /\ Latest' = Latest
    BY <1>3 DEF OneThread, Waits, Latest, props, textVars
  <2>2. UNCHANGED <<maxLength, processed, loc, events, permits, end>>
    BY <1>3 DEF props, textVars
  <2>3. KeysInOrder'
    BY <2>1, <2>2 DEF KeysInv, KeysInOrder
  <2> QED BY <1>1, <2>3 DEF KeysInv
<1> QED BY <1>2, <1>3

\* The steps that are not about a key of a controlled input; only the answer of
\* the script changes what is shown.
LEMMA ScriptKeepsKeys ==
  ASSUME InputInv, KeysInv,
         \/ Blur \/ Refuse \/ Release
         \/ Test \/ EditText \/ MoveCursor \/ StoreText \/ StoreEnd
         \/ \E t \in Caller : Focus(t) \/ Enter(t) \/ ClearText(t) \/ ClearLoc(t) \/ ClearEnd(t)
         \/ \E text \in ScriptText : SetTextAndSelection(text)
         \/ \E k \in Key : PressNotEditing(k) \/ PressEdit(k) \/ PressOther(k)
  PROVE  KeysInv'
<1>1. CASE \/ Blur \/ Release
           \/ \E t \in Caller : Focus(t) \/ Enter(t)
           \/ \E k \in Key : PressNotEditing(k)
  <2>1. UNCHANGED <<props, threads, started, permits, processed, handler, events, overruled, crashed,
                    textVars>>
    BY <1>1 DEF Blur, Release, Focus, Enter, PressNotEditing, threadVars, history
  <2> QED BY <2>1, OtherKeepsKeys
<1>2. CASE \E t \in Caller : ClearText(t) \/ ClearLoc(t) \/ ClearEnd(t)
  <2>1. UNCHANGED <<props, threads, started, handler>> /\ clearTextOnFocus
    BY <1>2 DEF ClearText, ClearLoc, ClearEnd, threadVars, InputInv, Unqueued
  <2>2. ~OneThread'
    BY <2>1 DEF OneThread, props
  <2> QED BY <2>1, <2>2, OtherKeepsKeys
<1>3. CASE Refuse \/ \E text \in ScriptText : SetTextAndSelection(text)
  <2>1. UNCHANGED <<props, threads, started, handler>> /\ overruled' = TRUE
    BY <1>3 DEF Refuse, SetTextAndSelection
  <2>2. ~OneThread'
    BY <2>1 DEF OneThread
  <2> QED BY <2>1, <2>2, OtherKeepsKeys
<1>4. CASE \/ Test \/ EditText \/ MoveCursor \/ StoreText \/ StoreEnd
           \/ \E k \in Key : PressEdit(k) \/ PressOther(k)
  <2>1. UNCHANGED <<props, threads, started>>
    BY <1>4 DEF Test, EditText, MoveCursor, StoreText, StoreEnd, PressEdit, PressOther, threadVars
  <2>2. ~controlled
    BY <1>4 DEF Test, EditText, MoveCursor, StoreText, StoreEnd, PressEdit, PressOther, KeysInv,
                Unstarted, NoEdit, Handling
  <2>3. ~OneThread'
    BY <2>1, <2>2 DEF OneThread, props
  <2>4. controlled => handler' = handler
    BY <2>2
  <2> QED BY <2>1, <2>3, <2>4, OtherKeepsKeys
<1> QED BY <1>1, <1>2, <1>3, <1>4

\* The script answers the one text it was told, and that text is shown.
LEMMA AnswerKeepsKeys ==
  ASSUME InputInv, KeysInv, Answer
  PROVE  KeysInv'
<1>1. PICK n \in 1..Len(events) :
        events' = SubSeq(events, n + 1, Len(events)) /\ UpdateComponentProps(events[n])
  BY DEF Answer
<1>2. UNCHANGED <<props, loc, threads, started, processed, handler, overruled, crashed>>
  BY DEF Answer, history
<1>3. events \in Seq(Text) /\ Len(events) \in Nat /\ permits \in Nat
  BY LenProperties DEF InputInv, InputTypeOK, TypeOK
<1>4. CASE ~OneThread'
  BY <1>2, <1>4, OtherKeepsKeys
<1>5. CASE OneThread'
  <2>1. OneThread
    BY <1>2, <1>5 DEF OneThread, props
  <2>2. events # <<>>
    BY <1>1, <1>3
  <2>3. Len(events) = 1 /\ permits = 0 /\ Waits /\ loc = 0
    BY <2>1, <2>2 DEF KeysInv, KeysInOrder
  <2>4. n = 1 /\ Latest = events[1] /\ end = Len(events[1])
    BY <1>1, <1>3, <2>1, <2>2, <2>3 DEF Latest, KeysInv, KeysInOrder
  <2>5. events' = <<>>
    <3>1. events' \in Seq(Text) /\ Len(events') = 0
      BY <1>1, <1>3, <2>3, <2>4, SubSeqProperties
    <3> QED BY <3>1, EmptySeq
  <2>6. display' = events[1] /\ end' = Len(events[1]) /\ permits' \in {0, 1}
    BY <1>1, <2>3, <2>4 DEF UpdateComponentProps, Post
  <2>7. Latest' = Latest /\ end' = Len(Latest')
    BY <2>4, <2>5, <2>6 DEF Latest
  <2>8. Waits' /\ loc' = 0 /\ maxLength' = maxLength /\ processed' = processed
    BY <1>2, <2>3 DEF Waits, props
  <2>9. KeysInOrder'
    BY <2>1, <2>5, <2>6, <2>7, <2>8 DEF KeysInv, KeysInOrder
  <2>10. Unstarted'
    BY <1>2 DEF KeysInv, Unstarted, props
  <2> QED BY <2>9, <2>10 DEF KeysInv
<1> QED BY <1>4, <1>5

\* A key that goes to the queue may start a thread, which waits for nothing.
LEMMA QueuedKeepsKeys ==
  ASSUME InputInv, KeysInv,
         PressSelect \/ \E k \in Key : PressEndsRepeat(k) \/ PressQueued(k)
  PROVE  KeysInv'
<1>1. UNCHANGED <<props, textVars, permits, processed, handler, events, overruled, crashed>>
  BY DEF PressSelect, PressEndsRepeat, PressQueued, threadVars, history
<1>2. CASE UNCHANGED <<threads, started>>
  BY <1>1, <1>2, OtherKeepsKeys
<1>3. CASE ~UNCHANGED <<threads, started>>
  <2>1. /\ started < MaxThreads /\ started' = started + 1
        /\ threads' = [threads EXCEPT ![started + 1].pc = "loop"]
    BY <1>3 DEF PressSelect, PressEndsRepeat, PressQueued, threadVars, StartThread
  <2>2. /\ threads \in [1..MaxThreads -> [pc : Pc, waits : BOOLEAN]]
        /\ started \in Nat /\ started + 1 \in 1..MaxThreads /\ MaxThreads \in Nat
    BY <2>1, TextAssumption DEF InputInv, InputTypeOK, TypeOK
  <2>3. threads[started + 1].pc = "none" /\ threads[started + 1].waits
    <3>1. started + 1 > started
      BY <2>2
    <3> QED BY <2>2, <3>1 DEF KeysInv, Unstarted
  <2>4. /\ threads'[started + 1].pc = "loop" /\ threads'[started + 1].waits
        /\ \A i \in 1..MaxThreads : i # started + 1 => threads'[i] = threads[i]
    BY <2>1, <2>2, <2>3
  <2>5. Unstarted'
    <3>1. ASSUME NEW i \in 1..MaxThreads, i > started'
          PROVE  threads'[i].pc = "none" /\ threads'[i].waits
      <4>1. i # started + 1 /\ i > started
        BY <2>1, <2>2, <3>1
      <4>2. threads'[i] = threads[i] /\ threads[i].pc = "none" /\ threads[i].waits
        BY <2>4, <4>1 DEF KeysInv, Unstarted
      <4> QED BY <4>2
    <3> QED BY <1>1, <3>1 DEF KeysInv, Unstarted, props
  <2>6. Waits' <=> Waits
    BY <2>2, <2>3, <2>4 DEF Waits
  <2>7. OneThread' => OneThread
    BY <1>1, <2>1, <2>2 DEF OneThread, props
  <2>8. Latest' = Latest /\ UNCHANGED <<maxLength, processed, loc, events, permits, end>>
    BY <1>1 DEF Latest, props, textVars
  <2>9. KeysInOrder'
    BY <2>6, <2>7, <2>8 DEF KeysInv, KeysInOrder
  <2> QED BY <2>5, <2>9 DEF KeysInv
<1> QED BY <1>2, <1>3

\* The only thread that was started is the first one.
LEMMA FirstThread ==
  ASSUME InputInv, Unstarted, started <= 1, NEW i \in 1..MaxThreads, threads[i].pc # "none"
  PROVE  i = 1 /\ started = 1
<1>1. i <= started
  BY DEF Unstarted, InputInv, InputTypeOK, TypeOK
<1> QED BY <1>1, TextAssumption DEF InputInv, InputTypeOK, TypeOK

\* A thread that takes a key finds the text of the key before it, and edits it
\* at its end.
LEMMA TakenKey ==
  ASSUME InputInv, KeysInv, NEW i \in 1..MaxThreads, ThreadKey(i)
  PROVE  KeysInv'
<1> DEFINE k      == Head(inputQueue)
           edits  == Edits(k, display, end, loc)
           edited == Edited(k, display, loc, end, loc)
           inside == InText(k, display, loc, end, loc)
<1>1. /\ threads \in [1..MaxThreads -> [pc : Pc, waits : BOOLEAN]]
      /\ threads[i].pc = "pop" /\ display \in Text /\ Len(display) \in Nat
      /\ processed \in Seq(Key) /\ k \in Key /\ inputQueue \in Seq(Key) /\ MaxThreads \in Nat
      /\ started \in Nat
  BY HeadTailProperties, LenProperties, TextAssumption
  DEF ThreadKey, InputInv, InputTypeOK, TypeOK, Text
<1>2. /\ processed' = Append(processed, k)
      /\ threads' = [threads EXCEPT ![i] = AfterKey(threads[i].waits /\ edits)]
      /\ crashed' = (edits /\ ~inside)
      /\ end' = IF edits /\ ~crashed' THEN Len(edited) ELSE end
      /\ loc' = IF Moves(k, end, loc) THEN MovedCursor(k, loc) ELSE loc
      /\ events' = IF k \notin Char \cup {"delete"} \/ crashed' THEN events
                   ELSE Reported(IF edits THEN edited ELSE display)
      /\ permits' = permits
      /\ UNCHANGED <<props, display, started, handler, overruled>>
      /\ ~crashed
  BY DEF ThreadKey, history
<1> HIDE DEF k, edits, edited, inside
<1>3. Unstarted'
  <2>1. i <= started
    BY <1>1 DEF KeysInv, Unstarted
  <2>2. \A j \in 1..MaxThreads : j # i => threads'[j] = threads[j]
    BY <1>1, <1>2
  <2>3. ASSUME NEW j \in 1..MaxThreads, j > started'
        PROVE  threads'[j].pc = "none" /\ threads'[j].waits
    <3>1. j # i /\ j > started
      BY <1>1, <1>2, <2>1, <2>3
    <3> QED BY <2>2, <3>1 DEF KeysInv, Unstarted
  <2> QED BY <1>2, <2>3 DEF KeysInv, Unstarted, props
<1>4. SUFFICES ASSUME OneThread' PROVE KeysInOrder'
  BY <1>3 DEF KeysInv, KeysInOrder
<1>5. i = 1 /\ started = 1
  <2>1. started <= 1
    BY <1>2, <1>4 DEF OneThread
  <2> QED BY <1>1, <2>1, FirstThread DEF KeysInv
<1>6. threads[1].waits /\ edits /\ threads'[1] = AfterKey(TRUE)
  <2>1. PICK w \in BOOLEAN : w <=> threads[i].waits /\ edits
    OBVIOUS
  <2>2. w = (threads[i].waits /\ edits)
    <3>1. threads[i].waits \in BOOLEAN
      BY <1>1
    <3>2. (threads[i].waits /\ edits) \in BOOLEAN
      BY Zenon
    <3> QED BY <2>1, <3>2, Zenon
  <2>3. threads'[1] = AfterKey(w)
    BY <1>1, <1>2, <1>5, <2>2
  <2>4. threads'[1].waits
    BY <1>2, <1>4, <1>5 DEF OneThread
  <2>5. w
    BY <2>3, <2>4 DEF AfterKey
  <2> QED BY <1>5, <2>1, <2>3, <2>5
<1>7. OneThread
  BY <1>2, <1>4, <1>5, <1>6 DEF OneThread, props
<1>8. ~Waits
  <2>1. ASSUME NEW j \in 1..MaxThreads, threads[j].pc = "wait" PROVE FALSE
    BY <1>1, <1>5, <2>1, FirstThread DEF KeysInv
  <2> QED BY <2>1 DEF Waits
<1>9. events = <<>> /\ permits = 0 /\ loc = 0 /\ Latest = display /\ end = Len(display)
  BY <1>7, <1>8 DEF KeysInv, KeysInOrder, Latest
<1>10. inside /\ ~crashed'
  <2>1. ~crashed'
    BY <1>4 DEF OneThread
  <2> QED BY <1>2, <1>6, <2>1, Zenon
<1>11. k \in Char \/ (k = "delete" /\ k \notin Char /\ display # <<>>)
  BY <1>6, TextAssumption DEF edits, Edits
<1> DEFINE new == IF k = "delete" THEN SubSeq(display, 1, Len(display) - 1) ELSE Append(display, k)
<1>12. edited = new
  <2>1. CASE k \in Char
    BY <1>9, <2>1, TextAssumption DEF edited, Edited
  <2>2. CASE k = "delete"
    <3>1. edited = RemoveAt(display, Len(display))
      BY <1>1, <1>9, <2>2 DEF edited, Edited
    <3>2. Len(display) # 0
      BY <1>1, <1>11, <2>2, EmptySeq, TextAssumption DEF Text
    <3>3. SubSeq(display, Len(display) + 1, Len(display)) = <<>>
      <4>1. /\ SubSeq(display, Len(display) + 1, Len(display)) \in Seq(Char)
            /\ Len(SubSeq(display, Len(display) + 1, Len(display))) = 0
        BY <1>1, SubSeqProperties DEF Text
      <4> QED BY <4>1, EmptySeq
    <3>4. SubSeq(display, 1, Len(display) - 1) \in Seq(Char)
      BY <1>1, <3>2, SubSeqProperties DEF Text
    <3>5. SubSeq(display, 1, Len(display) - 1) \o <<>> = SubSeq(display, 1, Len(display) - 1)
      BY <3>4, ConcatEmptySeq
    <3> QED BY <2>2, <3>1, <3>3, <3>5 DEF RemoveAt
  <2> QED BY <1>11, <2>1, <2>2
<1> HIDE DEF new
<1>13. end' = Len(new) /\ loc' = 0 /\ permits' = 0
  <2>1. ~Moves(k, end, loc)
    BY <1>11, TextAssumption DEF Moves
  <2> QED BY <1>2, <1>6, <1>9, <1>10, <1>12, <2>1
<1>14. events' = IF TooLong(new) THEN <<>> ELSE Append(events, new)
  BY <1>2, <1>6, <1>9, <1>10, <1>11, <1>12 DEF Reported
<1>15. Waits'
  BY <1>1, <1>5, <1>6 DEF Waits, AfterKey
<1>16. TypedIn(maxLength, display, k) = IF TooLong(new) THEN display ELSE new
  BY DEF TypedIn, TooLong, new
<1>17. PICK text \in ScriptText : LeadsTo(maxLength, text, processed, display)
  BY <1>7, <1>9 DEF KeysInv, KeysInOrder
<1>18. LeadsTo(maxLength, text, processed', TypedIn(maxLength, display, k))
  BY <1>1, <1>2, <1>17, KeyTyped
<1>19. maxLength' = maxLength /\ display' = display
  BY <1>2 DEF props
<1>20. CASE TooLong(new)
  <2>1. events' = <<>> /\ Latest' = display /\ TypedIn(maxLength, display, k) = display
    BY <1>14, <1>16, <1>19, <1>20 DEF Latest
  <2> QED BY <1>13, <1>15, <1>18, <1>19, <2>1 DEF KeysInOrder
<1>21. CASE ~TooLong(new)
  <2>1. events \in Seq(Text) /\ new \in Text
    <3>1. k \in EditKey /\ InText(k, display, loc, end, loc) /\ loc \in Int /\ end \in Int
      BY <1>1, <1>9, <1>10, <1>11 DEF EditKey, inside
    <3>2. edited \in Text
      BY <1>1, <3>1, EditedText DEF edited
    <3> QED BY <1>12, <3>2 DEF InputInv, InputTypeOK, TypeOK
  <2>2. events' \in Seq(Text) /\ Len(events') = 1 /\ events'[1] = new
    BY <1>9, <1>14, <1>21, <2>1, AppendProperties, EmptySeq
  <2>3. events' # <<>> /\ Head(events') = new
    <3>1. events' # <<>>
      BY <2>2, EmptySeq
    <3> QED BY <2>2, <3>1
  <2>4. Latest' = new /\ TypedIn(maxLength, display, k) = new
    BY <1>16, <1>21, <2>3 DEF Latest
  <2> QED BY <1>13, <1>15, <1>18, <1>19, <2>2, <2>3, <2>4 DEF KeysInOrder
<1> QED BY <1>20, <1>21

\* The other steps of a thread; a permit is there only after the answer.
LEMMA ThreadKeepsKeys ==
  ASSUME InputInv, KeysInv, NEW i \in 1..MaxThreads, ThreadLoop(i) \/ ThreadNoKey(i) \/ ThreadWait(i)
  PROVE  KeysInv'
<1>1. /\ threads \in [1..MaxThreads -> [pc : Pc, waits : BOOLEAN]] /\ permits \in Nat
      /\ started \in Nat /\ MaxThreads \in Nat
  BY TextAssumption DEF InputInv, InputTypeOK, TypeOK
<1>2. CASE ThreadNoKey(i)
  <2>1. UNCHANGED <<props, threads, started, handler>> /\ crashed' = TRUE
    BY <1>2 DEF ThreadNoKey, threadVars
  <2>2. ~OneThread'
    BY <2>1 DEF OneThread
  <2> QED BY <2>1, <2>2, OtherKeepsKeys
<1>3. CASE ThreadLoop(i) \/ ThreadWait(i)
  <2>1. UNCHANGED <<props, textVars, processed, handler, events, overruled, crashed, started>>
    BY <1>3 DEF ThreadLoop, ThreadWait, history
  <2>2. /\ threads[i].pc \in {"loop", "wait"}
        /\ \E p \in Pc : p # "wait" /\ threads' = [threads EXCEPT ![i].pc = p]
    BY <1>3 DEF ThreadLoop, ThreadWait, Pc
  <2>3. /\ \A j \in 1..MaxThreads : j # i => threads'[j] = threads[j]
        /\ threads'[i].waits = threads[i].waits /\ threads'[i].pc # "wait"
    BY <1>1, <2>2
  <2>4. Unstarted'
    <3>1. ASSUME NEW j \in 1..MaxThreads, j > started
          PROVE  threads'[j].pc = "none" /\ threads'[j].waits
      <4>1. threads[j].pc = "none" /\ threads[j].waits
        BY <3>1 DEF KeysInv, Unstarted
      <4> QED BY <2>2, <2>3, <4>1
    <3> QED BY <2>1, <3>1 DEF KeysInv, Unstarted, props
  <2>5. OneThread' => OneThread
    <3>1. started = 1 => 1 \in 1..MaxThreads
      BY <1>1 DEF InputInv, InputTypeOK, TypeOK
    <3> QED BY <2>1, <2>3, <3>1 DEF OneThread, props
  <2>6. Latest' = Latest /\ UNCHANGED <<maxLength, processed, loc, events, end>>
    BY <2>1 DEF Latest, props, textVars
  <2>7. CASE ThreadLoop(i)
    <3>1. permits' = permits /\ threads[i].pc = "loop"
      BY <2>7 DEF ThreadLoop
    <3>2. Waits' <=> Waits
      BY <2>3, <3>1 DEF Waits
    <3>3. KeysInOrder'
      BY <2>5, <2>6, <3>1, <3>2 DEF KeysInv, KeysInOrder
    <3> QED BY <2>4, <3>3 DEF KeysInv
  <2>8. CASE ThreadWait(i)
    <3>1. permits' = permits - 1 /\ permits > 0
      BY <2>8 DEF ThreadWait
    <3>2. SUFFICES ASSUME OneThread' PROVE KeysInOrder'
      BY <2>4 DEF KeysInv, KeysInOrder
    <3>3. permits = 1 /\ events = <<>> /\ loc = 0 /\ end = Len(Latest)
      BY <1>1, <2>5, <3>1, <3>2 DEF KeysInv, KeysInOrder
    <3> QED BY <2>5, <2>6, <3>1, <3>2, <3>3 DEF KeysInv, KeysInOrder
  <2> QED BY <1>3, <2>7, <2>8
<1> QED BY <1>2, <1>3

-----------------------------------------------------------------------------
(* The theorems.                                                           *)

\* The invariant holds in every reachable state.
LEMMA InvHolds == Spec => []InputInv
<1>1. ASSUME InputInv, [Next]_vars PROVE InputInv'
  <2>1. CASE Answer \/ Refuse \/ \E text \in ScriptText : SetTextAndSelection(text)
    BY <1>1, <2>1, ScriptInv
  <2>2. CASE \/ Blur \/ Release
             \/ \E t \in Caller : Focus(t) \/ Enter(t)
             \/ \E k \in Key : PressNotEditing(k) \/ PressOther(k)
    BY <1>1, <2>2, FocusInv
  <2>3. CASE \E t \in Caller : ClearText(t) \/ ClearLoc(t) \/ ClearEnd(t)
    BY <1>1, <2>3, ClearInv
  <2>4. CASE PressSelect \/ \E k \in Key : PressEndsRepeat(k) \/ PressQueued(k)
    <3>1. "select" \in Key
      BY DEF Key
    <3> QED BY <1>1, <2>4, <3>1, QueuedInv
  <2>5. CASE \/ Test \/ EditText \/ MoveCursor \/ StoreText \/ StoreEnd
             \/ \E k \in Key : PressEdit(k)
    BY <1>1, <2>5, PressEditInv, TestInv, EditInv, MoveInv, StoreInv, StoreEndInv
  <2>6. CASE \E i \in 1..MaxThreads : ThreadLoop(i) \/ ThreadKey(i) \/ ThreadNoKey(i) \/ ThreadWait(i)
    BY <1>1, <2>6, ThreadInv
  <2>7. CASE UNCHANGED vars
    <3>1. UNCHANGED <<props, editing, entering, inFocus, textVars, queueVars, threadVars, handler,
                      events, inputVars, history, commands, crashed>>
      BY <2>7 DEF vars
    <3>2. InputTypeOK' /\ Unqueued'
      BY <1>1, <3>1 DEF InputInv, InputTypeOK, TypeOK, Unqueued, props, textVars, queueVars,
                        threadVars, inputVars, history
    <3>3. CursorKept'
      <4>1. OwnText' <=> OwnText
        BY <3>1 DEF OwnText, props, history
      <4> QED BY <1>1, <3>1, <4>1, SameCursor
    <3> QED BY <3>2, <3>3 DEF InputInv
  <2> QED BY <1>1, <2>1, <2>2, <2>3, <2>4, <2>5, <2>6, <2>7 DEF Next
<1> QED BY <1>1, InitInv, PTL DEF Spec

\* The index of the first repeated key stays within the queue of keys, for any
\* keys and any number of threads (RSkComponentTextInput::onHandleKey and
\* keyEventProcessingThread), and the variables keep their types.
THEOREM TypesHold == Spec => []TypeOK
<1>1. InputInv => TypeOK
  BY DEF InputInv, InputTypeOK
<1> QED BY <1>1, InvHolds, PTL

\* The keys of a controlled input are kept in their order, too.
LEMMA KeysInvHolds == Spec => []KeysInv
<1>1. ASSUME InputInv, KeysInv, [Next]_vars PROVE KeysInv'
  <2>1. CASE \/ Blur \/ Refuse \/ Release
             \/ Test \/ EditText \/ MoveCursor \/ StoreText \/ StoreEnd
             \/ \E t \in Caller : Focus(t) \/ Enter(t) \/ ClearText(t) \/ ClearLoc(t) \/ ClearEnd(t)
             \/ \E text \in ScriptText : SetTextAndSelection(text)
             \/ \E k \in Key : PressNotEditing(k) \/ PressEdit(k) \/ PressOther(k)
    BY <1>1, <2>1, ScriptKeepsKeys
  <2>2. CASE Answer
    BY <1>1, <2>2, AnswerKeepsKeys
  <2>3. CASE PressSelect \/ \E k \in Key : PressEndsRepeat(k) \/ PressQueued(k)
    BY <1>1, <2>3, QueuedKeepsKeys
  <2>4. CASE \E i \in 1..MaxThreads : ThreadLoop(i) \/ ThreadKey(i) \/ ThreadNoKey(i) \/ ThreadWait(i)
    BY <1>1, <2>4, TakenKey, ThreadKeepsKeys
  <2>5. CASE UNCHANGED vars
    BY <1>1, <2>5, OtherKeepsKeys DEF vars, threadVars, history
  <2> QED BY <1>1, <2>1, <2>2, <2>3, <2>4, <2>5 DEF Next
<1> QED BY <1>1, KeysInit, InvHolds, PTL DEF Spec

\* No key is lost or applied to an old text between the queue and the script
\* (RSkComponentTextInput::keyEventProcessingThread, updateComponentProps): once
\* the script has answered, a controlled input shows what its keys have typed,
\* for any texts, limits and interleavings of keys, answers and focus changes.
THEOREM KeysKeptHolds == Spec => []KeysKept
<1>1. KeysInv => KeysKept
  <2> SUFFICES ASSUME KeysInv, OneThread, events = <<>>
               PROVE  \E text \in ScriptText : display = TypedAll(text, processed)
    BY DEF KeysKept, OneThread
  <2>1. PICK text \in ScriptText : LeadsTo(maxLength, text, processed, display)
    BY DEF KeysInv, KeysInOrder, Latest
  <2>2. TypedAll(text, processed) = display
    BY <2>1, TypedAllIsLast
  <2> QED BY <2>2
<1> QED BY <1>1, KeysInvHolds, PTL

\* The cursor of an input that is not controlled stays inside of its text, and
\* no key edits outside of it, although RSkComponentTextInput::processEventKey
\* reads and writes both without the mutex under which a focus clears them: at
\* every step of the key, except between its test of the cursor and the edit and
\* between its storing of the text and of the length.
THEOREM CursorHolds == Spec => []CursorInText
<1>1. InputInv => CursorInText
  <2>1. handler = NoEdit => handler.pc = "idle"
    BY DEF NoEdit, Handling
  <2> QED BY <2>1 DEF InputInv, CursorKept, Kept, OwnText, CursorInText
<1> QED BY <1>1, InvHolds, PTL

=============================================================================

------------------------------ MODULE TextInput ------------------------------
(***************************************************************************)
(* RSkComponentTextInput: one text input, its text and its cursor.  Keys   *)
(* come on the thread of the input event manager.  An input whose text the *)
(* script controls (it has a value) only queues them: a thread of the      *)
(* input edits a copy of the text, reports it to the script and waits on   *)
(* jsUpdateSem until the script has set the text.  An input that is not    *)
(* controlled edits its text on the thread of the keys, while commands of  *)
(* the script come on the main thread.  Only the clearing of the text      *)
(* takes a mutex, the edit does not: each of its reads and writes is a     *)
(* step, and what is read twice may have changed or not.  The script of    *)
(* the model answers a reported text with that text, or refuses it.        *)
(***************************************************************************)
EXTENDS Integers, Sequences, SequencesExt

CONSTANTS
  Char,          \* keys that are characters
  MaxText,       \* bound on the length of texts that the script sets
  MaxLength,     \* values of maxLength; 0: no limit
  MaxKeys,       \* bound on key presses
  MaxCommands,   \* bound on commands, changes of the focus and refusals
  MaxThreads     \* bound on the threads an input starts

ASSUME TextAssumption ==
  /\ MaxText \in Nat /\ MaxThreads \in Nat /\ MaxLength \subseteq Nat
  /\ Char \cap {"left", "right", "up", "delete", "select"} = {}

Key == Char \cup {"left", "right", "up", "delete", "select"}  \* "up" for down as well
Text == Seq(Char)
ScriptText == UNION {[1..n -> Char] : n \in 0..MaxText}
Caller == {"main", "keys"}   \* the threads that give the focus

VARIABLES
  controlled, maxLength, clearTextOnFocus,   \* props
  editing,       \* isInEditingMode_
  entering,      \* the threads inside requestForEditingMode
  inFocus,       \* isTextInputInFocus_
  display,       \* displayString_
  end, loc,      \* cursor_.end, cursor_.locationFromEnd
  inputQueue,
  repeatOn,      \* isKeyRepeateOn
  repeatStart,   \* keyRepeateStartIndex
  permits,       \* jsUpdateSem
  threads,       \* keyEventProcessingThread: pc and waitForupdateProps
  started,       \* the number of threads started so far
  handler,       \* the key thread inside processEventKey, and what it has read
  events,        \* texts reported by onChange and not answered yet
  lastKey, repeat,     \* previousKeyType and keyRepeat of the event manager
  processed,     \* history: the keys the threads have taken, in order
  overruled,     \* history: the script has set or refused a text on its own
  raced,         \* history: the text was cleared between a key's test of the cursor and its
                 \* edit, or between the storing of its text and of the length
  keys, commands,
  crashed        \* an access outside of the text or of the queue

props == <<controlled, maxLength, clearTextOnFocus>>
textVars == <<display, end, loc>>
queueVars == <<inputQueue, repeatOn, repeatStart>>
threadVars == <<threads, started, permits, processed>>
inputVars == <<lastKey, repeat, keys>>
history == <<overruled, raced>>
vars == <<props, editing, entering, inFocus, textVars, queueVars, threadVars, handler, events,
          inputVars, history, commands, crashed>>

NoKey == "none"

\* processEventKey at the place pc: the key, its copy of the text with the length
\* before the edit, and the cursor of its test.
Handling(pc, k, text, before, e, l) ==
  [pc |-> pc, key |-> k, text |-> text, before |-> before, end |-> e, loc |-> l]
NoEdit == Handling("idle", NoKey, <<>>, 0, 0, 0)

Init ==
  /\ controlled \in BOOLEAN /\ maxLength \in MaxLength /\ clearTextOnFocus \in BOOLEAN
  /\ editing = FALSE /\ inFocus = FALSE /\ entering = [t \in Caller |-> "no"]
  /\ display \in ScriptText /\ end = Len(display) /\ loc = 0
  /\ inputQueue = <<>> /\ repeatOn = FALSE /\ repeatStart = 0
  /\ threads = [i \in 1..MaxThreads |-> [pc |-> "none", waits |-> TRUE]]
  /\ started = 0 /\ permits = 0 /\ processed = <<>>
  /\ handler = NoEdit /\ events = <<>>
  /\ lastKey = NoKey /\ repeat = FALSE /\ keys = 0
  /\ overruled = FALSE /\ raced = FALSE /\ commands = 0 /\ crashed = FALSE

-----------------------------------------------------------------------------
(* processEventKey: e and l are the values it reads of cursor_             *)

\* A character is inserted before the cursor, delete acts like a backspace.
Edits(k, text, e, l) == k \in Char \/ (k = "delete" /\ text # <<>> /\ e # l)

\* The place of the edit is inside of the text; a character is appended if the
\* distance from the end was 0 when it was tested (seen).
InText(k, text, seen, e, l) == IF k \in Char THEN seen # 0 => e - l \in 0..Len(text)
                                             ELSE e - l \in 1..Len(text)

Edited(k, text, seen, e, l) == IF k = "delete" THEN RemoveAt(text, e - l)
                               ELSE IF seen = 0 THEN Append(text, k)
                               ELSE InsertAt(text, e - l + 1, k)

\* Left without the test for the start of the text.
Mutant_Moves(k, e, l) == k = "left" \/ (k = "right" /\ l > 0)

\* Left and right move the cursor, up to the ends of the text.
Moves(k, e, l) == (k = "left" /\ l < e) \/ (k = "right" /\ l > 0)

\* locationFromEnd after a key that moves the cursor.
MovedCursor(k, l) == IF k = "left" THEN l + 1 ELSE l - 1

TooLong(text) == maxLength # 0 /\ Len(text) > maxLength

-----------------------------------------------------------------------------
(* The editing mode                                                        *)

\* requestForEditingMode of an input that is not in the editing mode.
RequestForEditingMode(t) == entering' = [entering EXCEPT ![t] = "enter"]

\* The text is cleared with privateVarProtectorMutex held.
Clearing == \E t \in Caller : entering[t] \in {"loc", "end"}

Enter(t) ==
  /\ ~crashed /\ entering[t] = "enter"
  /\ editing' = TRUE
  /\ entering' = [entering EXCEPT ![t] = IF clearTextOnFocus THEN "text" ELSE "no"]
  /\ UNCHANGED <<props, inFocus, textVars, queueVars, threadVars, handler, events, inputVars,
                 history, commands, crashed>>

ClearText(t) ==
  /\ ~crashed /\ entering[t] = "text" /\ ~Clearing
  /\ display' = <<>>
  /\ entering' = [entering EXCEPT ![t] = IF display = <<>> THEN "no" ELSE "loc"]
  /\ raced' = (raced \/ (display # <<>> /\ handler.pc \in {"edit", "end"}))
  /\ UNCHANGED <<props, editing, inFocus, end, loc, queueVars, threadVars, handler, events,
                 inputVars, overruled, commands, crashed>>

ClearLoc(t) ==
  /\ ~crashed /\ entering[t] = "loc"
  /\ loc' = 0
  /\ entering' = [entering EXCEPT ![t] = "end"]
  /\ UNCHANGED <<props, editing, inFocus, display, end, queueVars, threadVars, handler, events,
                 inputVars, history, commands, crashed>>

ClearEnd(t) ==
  /\ ~crashed /\ entering[t] = "end"
  /\ end' = 0
  /\ entering' = [entering EXCEPT ![t] = "no"]
  /\ UNCHANGED <<props, editing, inFocus, display, loc, queueVars, threadVars, handler, events,
                 inputVars, history, commands, crashed>>

\* resignFromEditingMode
ResignFromEditingMode ==
  /\ editing' = FALSE /\ inFocus' = FALSE
  /\ inputQueue' = IF inFocus THEN <<>> ELSE inputQueue

Command == ~crashed /\ commands < MaxCommands /\ commands' = commands + 1

\* The main thread, or the thread of the keys, is not at work in the input.
Free(t) == entering[t] = "no" /\ (t = "keys" => handler = NoEdit)

\* The command "focus", or the focus of the spatial navigation, which comes on
\* either thread.
Focus(t) ==
  /\ Command /\ Free(t) /\ ~editing
  /\ RequestForEditingMode(t)
  /\ UNCHANGED <<props, editing, inFocus, textVars, queueVars, threadVars, handler, events,
                 inputVars, history, crashed>>

\* The command "blur", or the blur of the spatial navigation.
Blur ==
  /\ Command /\ editing /\ \E t \in Caller : Free(t)
  /\ ResignFromEditingMode
  /\ UNCHANGED <<props, entering, textVars, repeatOn, repeatStart, threadVars, handler, events,
                 inputVars, history, crashed>>

Post == permits' = IF inFocus THEN permits + 1 ELSE permits

\* The command "setTextAndSelection".
SetTextAndSelection(text) ==
  /\ Command /\ Free("main") /\ ~Clearing
  /\ display' = text /\ end' = Len(text)
  /\ Post
  /\ overruled' = TRUE
  /\ UNCHANGED <<props, editing, entering, inFocus, loc, queueVars, threads, started, processed,
                 handler, events, inputVars, raced, crashed>>

\* updateComponentProps with a new text.
UpdateComponentProps(text) ==
  IF text # display
  THEN ~Clearing /\ display' = text /\ end' = Len(text) /\ Post
  ELSE UNCHANGED <<display, end, permits>>

\* The script answers the events it has seen with one commit.
Answer ==
  /\ ~crashed /\ Free("main")
  /\ \E n \in 1..Len(events) :
       events' = SubSeq(events, n + 1, Len(events)) /\ UpdateComponentProps(events[n])
  /\ UNCHANGED <<props, editing, entering, inFocus, loc, queueVars, threads, started, processed,
                 handler, inputVars, history, commands, crashed>>

\* The script keeps the text it has set before.
Refuse ==
  /\ Command /\ Free("main") /\ events # <<>>
  /\ events' = Tail(events)
  /\ UpdateComponentProps(display)
  /\ overruled' = TRUE
  /\ UNCHANGED <<props, editing, entering, inFocus, loc, queueVars, threads, started, processed,
                 handler, inputVars, raced, crashed>>

-----------------------------------------------------------------------------
(* onHandleKey                                                             *)

\* A press, as the event manager passes it on: repeat stays set until the
\* key is released.
Press(k) ==
  /\ ~crashed /\ Free("keys") /\ keys < MaxKeys
  /\ keys' = keys + 1
  /\ lastKey' = k /\ repeat' = (repeat \/ k = lastKey)

Release ==
  /\ ~crashed /\ repeat
  /\ repeat' = FALSE
  /\ UNCHANGED <<props, editing, entering, inFocus, textVars, queueVars, threadVars, handler,
                 events, lastKey, keys, history, commands, crashed>>

PressNotEditing(k) ==
  /\ ~editing /\ Press(k)
  /\ IF k = "select" THEN RequestForEditingMode("keys") ELSE UNCHANGED entering
  /\ UNCHANGED <<props, editing, inFocus, textVars, queueVars, threadVars, handler, events, history,
                 commands, crashed>>

\* The thread that the first key of a controlled input starts.
StartThread ==
  IF inFocus THEN UNCHANGED <<threads, started>>
  ELSE /\ started < MaxThreads
       /\ started' = started + 1
       /\ threads' = [threads EXCEPT ![started + 1].pc = "loop"]

\* The state of the repetition as the press finds it; a new thread resets it.
Repeating == inFocus /\ repeatOn
Start(rep) == IF rep /\ ~Repeating THEN Len(inputQueue) ELSE IF inFocus THEN repeatStart ELSE 0

\* The end of a repetition drops the repeated keys, and the key that ends it.
PressEndsRepeat(k) ==
  /\ editing /\ controlled /\ Repeating
  /\ Press(k) /\ ~repeat'
  /\ inputQueue' = SubSeq(inputQueue, 1, repeatStart)
  /\ repeatOn' = FALSE /\ repeatStart' = 0
  /\ UNCHANGED <<props, editing, entering, inFocus, textVars, threadVars, handler, events, history,
                 commands, crashed>>

PressQueued(k) ==
  /\ editing /\ controlled /\ k # "select"
  /\ Press(k)
  /\ Repeating => repeat'
  /\ StartThread
  /\ inFocus' = TRUE
  /\ repeatOn' = repeat' /\ repeatStart' = Start(repeat')
  /\ inputQueue' = Append(inputQueue, k)
  /\ UNCHANGED <<props, editing, entering, textVars, permits, processed, handler, events, history,
                 commands, crashed>>

PressSelect ==
  /\ editing /\ controlled
  /\ Press("select")
  /\ Repeating => repeat'
  /\ StartThread
  /\ repeatOn' = repeat' /\ repeatStart' = Start(repeat')
  /\ editing' = FALSE /\ inFocus' = FALSE /\ inputQueue' = <<>>
  /\ UNCHANGED <<props, entering, textVars, permits, processed, handler, events, history, commands,
                 crashed>>

\* Not controlled: processEventKey reads the text.
PressEdit(k) ==
  /\ editing /\ ~controlled /\ k \in Char \cup {"delete", "left", "right"}
  /\ Press(k)
  /\ handler' = Handling("test", k, display, Len(display), 0, 0)
  /\ UNCHANGED <<props, editing, entering, inFocus, textVars, queueVars, threadVars, events,
                 history, commands, crashed>>

\* It tests the cursor: a key at the end of the text may have nothing to do.
Test ==
  /\ ~crashed /\ handler.pc = "test"
  /\ handler' = IF Edits(handler.key, handler.text, end, loc) \/ Moves(handler.key, end, loc)
                  THEN Handling("edit", handler.key, handler.text, handler.before, end, loc)
                ELSE IF handler.key = "delete"
                  THEN Handling("store", NoKey, handler.text, handler.before, 0, 0)
                ELSE NoEdit
  /\ raced' = (raced \/ (Clearing /\ handler'.pc = "edit"))
  /\ UNCHANGED <<props, editing, entering, inFocus, textVars, queueVars, threadVars, events,
                 inputVars, overruled, commands, crashed>>

\* It edits its copy of the text at the cursor.  Of the cursor it has two reads,
\* the test's and this one's, and the build may use either.
EditText ==
  /\ ~crashed /\ handler.pc = "edit" /\ handler.key \in Char \cup {"delete"}
  /\ \E e \in {handler.end, end}, l \in {handler.loc, loc} :
       LET new == Edited(handler.key, handler.text, handler.loc, e, l) IN
       IF InText(handler.key, handler.text, handler.loc, e, l)
       THEN /\ handler' = Handling("store", NoKey, new, handler.before, 0, 0)
            /\ end' = Len(new)
            /\ UNCHANGED crashed
       ELSE crashed' = TRUE /\ UNCHANGED <<handler, end>>
  /\ UNCHANGED <<props, editing, entering, inFocus, display, loc, queueVars, threadVars, events,
                 inputVars, history, commands>>

MoveCursor ==
  /\ ~crashed /\ handler.pc = "edit" /\ handler.key \in {"left", "right"}
  /\ \E l \in {handler.loc, loc} : loc' = MovedCursor(handler.key, l)
  /\ handler' = NoEdit
  /\ UNCHANGED <<props, editing, entering, inFocus, display, end, queueVars, threadVars, events,
                 inputVars, history, commands, crashed>>

\* It stores a text that is not too long; of another one it copies as many
\* characters as the text had before.
StoreText ==
  LET cut    == SubSeq(handler.text, 1, handler.before)
      isLong == TooLong(handler.text) /\ Len(handler.text) > handler.before
                /\ display # handler.text
  IN
  /\ ~crashed /\ handler.pc = "store"
  /\ handler' = Handling("end", NoKey, <<>>, 0, 0, 0)
  /\ crashed' = (isLong /\ Len(display) < handler.before)
  /\ display' = IF crashed' THEN display
                ELSE IF isLong THEN cut \o SubSeq(display, handler.before + 1, Len(display))
                ELSE handler.text
  /\ raced' = (raced \/ Clearing)
  /\ UNCHANGED <<props, editing, entering, inFocus, end, loc, queueVars, threadVars, events,
                 inputVars, overruled, commands>>

StoreEnd ==
  /\ ~crashed /\ handler.pc = "end"
  /\ handler' = NoEdit /\ end' = Len(display)
  /\ UNCHANGED <<props, editing, entering, inFocus, display, loc, queueVars, threadVars, events,
                 inputVars, history, commands, crashed>>

\* Select ends the editing; up and down do nothing.
PressOther(k) ==
  /\ editing /\ ~controlled /\ k \in {"select", "up"}
  /\ Press(k)
  /\ IF k = "select" THEN ResignFromEditingMode ELSE UNCHANGED <<editing, inFocus, inputQueue>>
  /\ UNCHANGED <<props, entering, textVars, repeatOn, repeatStart, threadVars, handler, events,
                 history, commands, crashed>>

-----------------------------------------------------------------------------
(* keyEventProcessingThread                                                *)

\* The test of the loop and of the queue, without the lock.
ThreadLoop(i) ==
  /\ ~crashed /\ threads[i].pc = "loop" /\ (inFocus => inputQueue # <<>>)
  /\ threads' = [threads EXCEPT ![i].pc = IF inFocus THEN "pop" ELSE "ended"]
  /\ UNCHANGED <<props, editing, entering, inFocus, textVars, queueVars, started, permits,
                 processed, handler, events, inputVars, history, commands, crashed>>

\* The thread that does not count the keys before the repetition down.
Mutant_PoppedStart == repeatStart

\* keyRepeateStartIndex after a key was taken.
PoppedStart == IF repeatStart > 0 THEN repeatStart - 1 ELSE 0

\* The thread goes on to the next key at once.
Mutant_AfterKey(waits) == [pc |-> "loop", waits |-> waits]

\* waitForupdateProps is set for the thread once; a key that needs no answer
\* clears it and no key sets it again.
AfterKey(waits) == [pc |-> IF waits THEN "wait" ELSE "loop", waits |-> waits]

\* A text that is too long is not reported.
Reported(text) == IF TooLong(text) THEN events ELSE Append(events, text)

\* A key is taken and processed, up to the report to the script.
ThreadKey(i) ==
  LET k     == Head(inputQueue)
      edits == Edits(k, display, end, loc)
      new   == Edited(k, display, loc, end, loc)
  IN
  /\ ~crashed /\ threads[i].pc = "pop" /\ inputQueue # <<>>
  /\ inputQueue' = Tail(inputQueue) /\ repeatStart' = PoppedStart
  /\ processed' = Append(processed, k)
  /\ threads' = [threads EXCEPT ![i] = AfterKey(threads[i].waits /\ edits)]
  /\ crashed' = (edits /\ ~InText(k, display, loc, end, loc))
  /\ end' = IF edits /\ ~crashed' THEN Len(new) ELSE end
  /\ loc' = IF Moves(k, end, loc) THEN MovedCursor(k, loc) ELSE loc
  /\ events' = IF k \notin Char \cup {"delete"} \/ crashed' THEN events
               ELSE Reported(IF edits THEN new ELSE display)
  /\ UNCHANGED <<props, editing, entering, inFocus, display, repeatOn, started, permits, handler,
                 inputVars, history, commands>>

\* The queue was emptied after the test of the loop.
ThreadNoKey(i) ==
  /\ ~crashed /\ threads[i].pc = "pop" /\ inputQueue = <<>>
  /\ crashed' = TRUE
  /\ UNCHANGED <<props, editing, entering, inFocus, textVars, queueVars, threadVars, handler,
                 events, inputVars, history, commands>>

ThreadWait(i) ==
  /\ ~crashed /\ threads[i].pc = "wait" /\ permits > 0
  /\ permits' = permits - 1
  /\ threads' = [threads EXCEPT ![i].pc = "loop"]
  /\ UNCHANGED <<props, editing, entering, inFocus, textVars, queueVars, started, processed,
                 handler, events, inputVars, history, commands, crashed>>

-----------------------------------------------------------------------------
Next ==
  \/ Blur \/ Answer \/ Refuse \/ Release \/ PressSelect
  \/ Test \/ EditText \/ MoveCursor \/ StoreText \/ StoreEnd
  \/ \E t \in Caller : Focus(t) \/ Enter(t) \/ ClearText(t) \/ ClearLoc(t) \/ ClearEnd(t)
  \/ \E text \in ScriptText : SetTextAndSelection(text)
  \/ \E k \in Key : \/ PressNotEditing(k) \/ PressEndsRepeat(k) \/ PressEdit(k)
                    \/ PressQueued(k) \/ PressOther(k)
  \/ \E i \in 1..MaxThreads : ThreadLoop(i) \/ ThreadKey(i) \/ ThreadNoKey(i) \/ ThreadWait(i)

Spec == Init /\ [][Next]_vars

\* Characters are only compared with each other.
Symmetry == Permutations(Char)

-----------------------------------------------------------------------------
(* Properties                                                              *)

\* The index of the first repeated key stays within the queue, so that the end
\* of a repetition can drop the keys after it; the rest are the types.
TypeOK ==
  /\ {controlled, clearTextOnFocus, editing, inFocus, repeatOn, repeat, overruled, raced, crashed}
       \subseteq BOOLEAN
  /\ display \in Text /\ end \in Nat /\ loc \in Int
  /\ inputQueue \in Seq(Key) /\ processed \in Seq(Key) /\ events \in Seq(Text)
  /\ repeatStart \in Nat /\ (inFocus => repeatStart <= Len(inputQueue))
  /\ permits \in Nat /\ started \in 0..MaxThreads
  /\ \A i \in 1..MaxThreads : threads[i].pc \in {"none", "loop", "pop", "wait", "ended"}

\* What a key means at the end of a text: a character is added, delete takes the
\* last one away; nothing changes if the result is longer than allowed.
Typed(text, k) ==
  LET new == IF k = "delete" THEN SubSeq(text, 1, Len(text) - 1) ELSE Append(text, k)
  IN  IF TooLong(new) THEN text ELSE new

\* The text after all of the keys.
TypedAll(text, ks) ==
  LET after[n \in 0..Len(ks)] == IF n = 0 THEN text ELSE Typed(after[n - 1], ks[n])
  IN  after[Len(ks)]

\* No key is lost or applied to an old text on its way from the queue over the
\* script and back: once the script has answered, a controlled input shows the
\* keys taken so far, in their order.  This is what the wait for the script is
\* for, and it holds for as long as the one thread waits (waitForupdateProps)
\* and the script sets no text on its own.
KeysKept ==
  (controlled /\ started = 1 /\ threads[1].waits /\ ~overruled /\ events = <<>> /\ ~crashed
     /\ ~clearTextOnFocus /\ processed # <<>>) =>
    \E text \in ScriptText : display = TypedAll(text, processed)

\* An input that only its keys and the focus change has its cursor inside of
\* the text, and no key edits outside of it, although a key reads the text and
\* the cursor without the mutex and a focus may clear both at any step of it.
\* Exceptions are a clear that meets the key between its test of the cursor and
\* the edit, or between its storing of the text and of the length (raced), and a
\* clear while a key that is too much for the text is stored.
CursorInText ==
  (~controlled /\ ~overruled /\ ~raced /\ (maxLength = 0 \/ ~clearTextOnFocus)) =>
    /\ ~crashed
    /\ (handler = NoEdit /\ ~Clearing) => (end = Len(display) /\ loc \in 0..end)

\* The same for every clear.  It is violated: delete finds the cursor behind a
\* character, the focus clears the text and the cursor, and the key erases what
\* lies before the first character (processEventKey, from :340 to :341).
CursorAlwaysInText ==
  (~controlled /\ ~overruled /\ (maxLength = 0 \/ ~clearTextOnFocus)) =>
    /\ ~crashed
    /\ (handler = NoEdit /\ ~Clearing) => (end = Len(display) /\ loc \in 0..end)

=============================================================================

---------------------------- MODULE PromptProofs ----------------------------
(***************************************************************************)
(* Proofs about the line input and the command loop, for every range of    *)
(* the key counter, every size of command and every order of key presses   *)
(* and steps of the reader.  PromptInv is the inductive invariant: what    *)
(* the request flag says of the reader, where the newline is that getstr   *)
(* looks for, and how far the page of the keyboard and the caller's buffer *)
(* agree with the line as it was edited.                                   *)
(***************************************************************************)
EXTENDS Prompt, TLAPS

USE CounterModAssumption, PromptAssumption

Codes == {"a", "0", NL, NUL}

(* The reader has asked and not yet returned, with the line complete. *)
Reading == reader \in {"copy", "struck"} \/ (reader = "wait" /\ flag = 2)

(* A request that finds no key counted, and the keys of which fit. *)
Regular == ahead = 0 /\ ~wrapped

InputType ==
    /\ counter \in Cell /\ cells \in [Cell -> Codes]
    /\ i \in Nat
    /\ buf \in [0 .. CounterMod -> Codes \union {Space, Junk}]
    /\ typed \in Seq(Codes)
    /\ wrapped \in BOOLEAN /\ struck \in BOOLEAN

(* The handshake on the request flag. *)
Handshake ==
    /\ reader \in {"out", "wait", "copy", "struck", "lost"}
    /\ reader = "out" => flag \in {0, 2}
    /\ reader = "wait" => flag \in {1, 2}
    /\ reader \in {"copy", "struck", "lost"} => flag = 2
    /\ call \in {"none", "getch", "getstr"}
    /\ call = "none" => reader = "out"
    /\ reader = "copy" => call = "getstr"
    /\ reader = "wait" => i = 0 /\ ~struck
    /\ Reading => i \in Cell

(* The keyboard's page holds the line edited since the request. *)
PageIsTyped ==
    Regular =>
      /\ flag = 1 => Len(typed) = counter
      /\ Reading => /\ Len(typed) \in 1 .. CounterMod
                    /\ typed[Len(typed)] = NL
      /\ (flag = 1 \/ Reading) => \A c \in 1 .. Len(typed) : cells[c - 1] = typed[c]

(* What getstr has copied is the line, up to its first newline. *)
CopyIsTyped ==
    Regular /\ ~struck /\ call = "getstr" =>
      /\ reader \in {"copy", "struck", "out"} =>
           \A c \in 1 .. i : typed[c] # NL /\ buf[c - 1] = typed[c]
      /\ reader = "out" => i < Len(typed) /\ typed[i + 1] = NL

CharIsTyped ==
    Regular /\ ~struck /\ call = "getch" /\ reader = "out" => buf[0] = typed[1]

(* The rest of the command buffer is as kmemset left it. *)
RestCleared ==
    /\ call = "getstr" <=> stage # "kernel"
    /\ stage = "command" /\ cleared => \A c \in i .. CommandSize - 1 : buf[c] = NUL

PromptInv ==
    /\ InputType /\ Handshake /\ NewlineAhead
    /\ PageIsTyped /\ CopyIsTyped /\ CharIsTyped /\ RestCleared

-----------------------------------------------------------------------------
(* A key that comes while no line is asked for, and what the interrupt may *)
(* do to the reader.                                                       *)
LEMMA IdleKeyStep ==
  ASSUME PromptInv, keyboard, flag # 1, UNCHANGED <<stage, cleared>>
  PROVE  PromptInv'
<1>1. /\ UNCHANGED <<cells, typed, wrapped, call, i, buf, ahead, struck, stage, cleared>>
      /\ counter' \in Cell /\ flag' \in {flag, 2}
  <2>1. UNCHANGED <<call, i, buf, ahead, struck, stage, cleared>>
    BY DEF keyboard, request
  <2>2. CASE keyboardBackspace
    BY <2>1, <2>2 DEF keyboardBackspace, PromptInv, InputType, Cell
  <2>3. ASSUME NEW key \in Keys, keyboardKey(key)
        PROVE  UNCHANGED <<cells, typed, wrapped>> /\ counter' \in Cell /\ flag' \in {flag, 2}
    <3>1. counter \in Cell /\ wrapped \in BOOLEAN
      BY DEF PromptInv, InputType
    <3>2. UNCHANGED <<cells, typed>> /\ flag' \in {flag, 2} /\ wrapped' = (wrapped \/ FALSE)
      BY <2>3 DEF keyboardKey
    <3>3. counter' \in Cell
      BY <2>3, <3>1 DEF keyboardKey, Cell
    <3>4. wrapped' = wrapped
      BY <3>1, <3>2
    <3>5. QED
      BY <3>2, <3>3, <3>4
  <2>4. QED
    BY <2>1, <2>2, <2>3 DEF keyboard
<1>2. \/ reader' = reader
      \/ reader' = "struck" /\ (reader = "copy" \/ (reader = "wait" /\ flag = 2 /\ call = "getch"))
  BY DEF keyboard, InAl
<1>3. InputType'
  BY <1>1 DEF PromptInv, InputType
<1>4. Handshake'
  BY <1>1, <1>2 DEF PromptInv, Handshake, Reading
<1>5. Reading' => Reading
  BY <1>1, <1>2 DEF PromptInv, Handshake, Reading
<1>6. NewlineAhead'
  BY <1>1, <1>2 DEF PromptInv, NewlineAhead, Handshake
<1>7. PageIsTyped'
  BY <1>1, <1>5 DEF PromptInv, PageIsTyped, Regular
<1>8. CopyIsTyped' /\ CharIsTyped'
  BY <1>1, <1>2 DEF PromptInv, CopyIsTyped, CharIsTyped, Regular, Handshake
<1>9. RestCleared'
  BY <1>1 DEF PromptInv, RestCleared
<1>10. QED
  BY <1>3, <1>4, <1>6, <1>7, <1>8, <1>9 DEF PromptInv

(* A reader that waits for its line, and the rest of the state that a key  *)
(* leaves alone.                                                           *)
LEMMA WaitingFacts ==
  ASSUME PromptInv, keyboard, flag = 1
  PROVE  /\ reader = "wait" /\ reader' = "wait" /\ call \in {"getch", "getstr"}
         /\ i = 0 /\ ~struck
         /\ UNCHANGED <<call, i, buf, ahead, struck>>
<1>1. reader = "wait" /\ call \in {"getch", "getstr"} /\ i = 0 /\ ~struck
  BY DEF PromptInv, Handshake
<1>2. ~InAl
  BY <1>1 DEF InAl
<1>3. QED
  BY <1>1, <1>2 DEF keyboard, request

(* What the reader's side of the invariant needs while it waits. *)
LEMMA WaitingShows ==
  ASSUME PromptInv, keyboard, flag = 1, UNCHANGED <<stage, cleared>>,
         InputType', PageIsTyped', flag' \in {1, 2},
         flag' = 2 => \E c \in Cell : cells'[c] = NL
  PROVE  PromptInv'
<1>1. /\ reader = "wait" /\ reader' = "wait" /\ call \in {"getch", "getstr"}
      /\ i = 0 /\ ~struck
      /\ UNCHANGED <<call, i, buf, ahead, struck>>
  BY WaitingFacts
<1>2. Handshake'
  BY <1>1 DEF Handshake, Reading, Cell
<1>3. NewlineAhead' /\ CopyIsTyped' /\ CharIsTyped'
  BY <1>1 DEF NewlineAhead, CopyIsTyped, CharIsTyped
<1>4. RestCleared'
  BY <1>1 DEF PromptInv, RestCleared
<1>5. QED
  BY <1>2, <1>3, <1>4 DEF PromptInv

(* Backspace takes the last character out of the line. *)
LEMMA BackspaceStep ==
  ASSUME PromptInv, keyboard, flag = 1, UNCHANGED <<stage, cleared>>, keyboardBackspace
  PROVE  PromptInv'
<1>1. /\ counter # 0 /\ counter' = counter - 1
      /\ typed' = IF typed # <<>> THEN Front(typed) ELSE typed
      /\ UNCHANGED <<flag, cells, wrapped>>
  BY DEF keyboardBackspace
<1>2. reader' = "wait" /\ UNCHANGED <<i, buf, ahead, struck>>
  BY WaitingFacts
<1>3. counter \in Cell /\ typed \in Seq(Codes)
  BY DEF PromptInv, InputType
<1>4. typed # <<>> =>
        /\ typed' \in Seq(Codes) /\ Len(typed') = Len(typed) - 1
        /\ \A c \in 1 .. Len(typed') : typed'[c] = typed[c]
  <2> SUFFICES ASSUME typed # <<>>
               PROVE  /\ typed' \in Seq(Codes) /\ Len(typed') = Len(typed) - 1
                      /\ \A c \in 1 .. Len(typed') : typed'[c] = typed[c]
    OBVIOUS
  <2>1. Len(typed) \in Nat \ {0} /\ \A c \in 1 .. Len(typed) : typed[c] \in Codes
    BY <1>3
  <2>2. typed' = SubSeq(typed, 1, Len(typed) - 1)
    BY <1>1 DEF Front
  <2>3. typed' = [c \in 1 .. Len(typed) - 1 |-> typed[c]]
    BY <1>3, <2>1, <2>2
  <2>4. QED
    BY <2>1, <2>3
<1>5. InputType'
  <2>1. counter' \in Cell
    BY <1>1, <1>3 DEF Cell
  <2>2. typed' \in Seq(Codes)
    BY <1>1, <1>3, <1>4
  <2>3. QED
    BY <1>1, <1>2, <2>1, <2>2 DEF PromptInv, InputType
<1>6. PageIsTyped'
  <2> SUFFICES ASSUME Regular'
               PROVE  /\ Len(typed') = counter'
                      /\ \A c \in 1 .. Len(typed') : cells'[c - 1] = typed'[c]
    BY <1>1, <1>2 DEF PageIsTyped, Reading
  <2>1. Len(typed) = counter /\ \A c \in 1 .. Len(typed) : cells[c - 1] = typed[c]
    BY <1>1, <1>2 DEF PromptInv, PageIsTyped, Regular
  <2>2. typed # <<>>
    BY <1>1, <2>1
  <2>3. Len(typed') = counter'
    BY <1>1, <1>4, <2>1, <2>2
  <2>4. \A c \in 1 .. Len(typed') : c \in 1 .. Len(typed)
    BY <1>1, <1>3, <2>1, <2>3 DEF Cell
  <2>5. QED
    BY <1>1, <1>4, <2>1, <2>2, <2>3, <2>4
<1>7. QED
  BY <1>1, <1>5, <1>6, WaitingShows

(* Any other key is appended to the line; Enter ends it. *)
LEMMA LineKeyStep ==
  ASSUME PromptInv, keyboard, flag = 1, UNCHANGED <<stage, cleared>>,
         NEW key \in Keys, keyboardKey(key)
  PROVE  PromptInv'
<1>1. PICK code \in scancodes[key] :
        /\ cells' = [cells EXCEPT ![counter] = code]
        /\ typed' = IF ~wrapped THEN Append(typed, code) ELSE typed
  BY DEF keyboardKey
<1>2. code \in Codes /\ (key = "enter" => code = NL)
  BY <1>1 DEF scancodes, Keys, Codes
<1>3. /\ counter' = IF key = "enter" THEN 0 ELSE (counter + 1) % CounterMod
      /\ flag' = IF key = "enter" THEN 2 ELSE flag
      /\ wrapped' = (wrapped \/ (key # "enter" /\ counter + 1 = CounterMod))
  BY DEF keyboardKey
<1>4. reader' = "wait" /\ UNCHANGED <<i, buf, ahead, struck>>
  BY WaitingFacts
<1>5. counter \in Cell /\ typed \in Seq(Codes) /\ cells \in [Cell -> Codes] /\ wrapped \in BOOLEAN
  BY DEF PromptInv, InputType
<1>6. /\ Append(typed, code) \in Seq(Codes) /\ Len(Append(typed, code)) = Len(typed) + 1
      /\ Append(typed, code)[Len(typed) + 1] = code
      /\ \A c \in 1 .. Len(typed) : Append(typed, code)[c] = typed[c]
  BY <1>2, <1>5
<1>7. cells' \in [Cell -> Codes] /\ cells'[counter] = code
  BY <1>1, <1>2, <1>5
<1>8. InputType'
  <2>1. counter' \in Cell
    BY <1>3, <1>5 DEF Cell
  <2>2. typed' \in Seq(Codes) /\ wrapped' \in BOOLEAN
    BY <1>1, <1>3, <1>5, <1>6
  <2>3. QED
    BY <1>4, <1>7, <2>1, <2>2 DEF PromptInv, InputType
<1>9. PageIsTyped'
  <2> SUFFICES ASSUME Regular'
               PROVE  /\ flag' = 1 => Len(typed') = counter'
                      /\ flag' = 2 => Len(typed') \in 1 .. CounterMod /\ typed'[Len(typed')] = NL
                      /\ \A c \in 1 .. Len(typed') : cells'[c - 1] = typed'[c]
    BY <1>3, <1>4 DEF PageIsTyped, Reading
  <2>1. ~wrapped /\ (key # "enter" => counter + 1 # CounterMod)
    BY <1>3, <1>4 DEF Regular
  <2>2. Len(typed) = counter /\ \A c \in 1 .. Len(typed) : cells[c - 1] = typed[c]
    BY <1>4, <2>1 DEF PromptInv, PageIsTyped, Regular
  <2>3. typed' = Append(typed, code)
    BY <1>1, <2>1
  <2>4. Len(typed') = counter + 1 /\ typed'[counter + 1] = code
    BY <1>6, <2>2, <2>3
  <2>5. flag' = 1 => Len(typed') = counter'
    <3>1. SUFFICES ASSUME key # "enter" PROVE counter + 1 = counter'
      BY <1>3, <2>4
    <3>2. counter + 1 \in 0 .. CounterMod - 1
      BY <1>5, <2>1, <3>1 DEF Cell
    <3>3. QED
      BY <1>3, <3>1, <3>2
  <2>6. flag' = 2 => Len(typed') \in 1 .. CounterMod /\ typed'[Len(typed')] = NL
    BY <1>2, <1>3, <1>5, <2>4 DEF Cell
  <2>7. ASSUME NEW c \in 1 .. Len(typed') PROVE cells'[c - 1] = typed'[c]
    <3>1. CASE c = counter + 1
      BY <1>5, <1>7, <2>4, <3>1 DEF Cell
    <3>2. CASE c # counter + 1
      <4>1. c \in 1 .. Len(typed) /\ c - 1 \in Cell /\ c - 1 # counter
        BY <1>5, <2>2, <2>4, <3>2 DEF Cell
      <4>2. cells'[c - 1] = cells[c - 1]
        BY <1>1, <1>5, <4>1
      <4>3. QED
        BY <1>6, <2>2, <2>3, <4>1, <4>2
    <3>3. QED
      BY <3>1, <3>2
  <2>8. QED
    BY <2>5, <2>6, <2>7
<1>10. flag' \in {1, 2} /\ (flag' = 2 => \E c \in Cell : cells'[c] = NL)
  BY <1>2, <1>3, <1>5, <1>7
<1>11. QED
  BY <1>8, <1>9, <1>10, WaitingShows

LEMMA KeyStep ==
  ASSUME PromptInv, keyboard, UNCHANGED <<stage, cleared>>
  PROVE  PromptInv'
<1>1. CASE flag # 1
  BY <1>1, IdleKeyStep
<1>2. CASE flag = 1
  BY <1>2, BackspaceStep, LineKeyStep DEF keyboard
<1>3. QED
  BY <1>1, <1>2

(* A request starts with an empty line; the buffer is the caller's. *)
LEMMA AskStep ==
  ASSUME PromptInv, NEW function \in {"getch", "getstr"},
         NEW buffer \in [0 .. CounterMod -> Codes \union {Space, Junk}],
         askForLine(function, buffer),
         function = "getstr" <=> stage' # "kernel",
         stage' = "command" /\ cleared' => \A c \in 0 .. CommandSize - 1 : buffer[c] = NUL
  PROVE  PromptInv'
<1>1. /\ reader' = "wait" /\ call' = function /\ flag' = 1 /\ i' = 0 /\ buf' = buffer
      /\ ahead' = counter /\ typed' = <<>> /\ wrapped' = FALSE /\ struck' = FALSE
      /\ UNCHANGED <<counter, cells>>
  BY DEF askForLine
<1>2. InputType'
  <2>1. counter' \in Cell /\ cells' \in [Cell -> Codes]
    BY <1>1 DEF PromptInv, InputType
  <2>2. buf' \in [0 .. CounterMod -> Codes \union {Space, Junk}]
    BY <1>1
  <2>3. typed' \in Seq(Codes)
    BY <1>1
  <2>4. i' \in Nat /\ wrapped' \in BOOLEAN /\ struck' \in BOOLEAN
    BY <1>1
  <2>5. QED
    BY <2>1, <2>2, <2>3, <2>4 DEF InputType
<1>3. Handshake' /\ NewlineAhead'
  BY <1>1 DEF Handshake, NewlineAhead, Reading
<1>4. PageIsTyped'
  BY <1>1 DEF PageIsTyped, Regular, Reading
<1>5. CopyIsTyped' /\ CharIsTyped' /\ RestCleared'
  BY <1>1 DEF CopyIsTyped, CharIsTyped, RestCleared
<1>6. QED
  BY <1>2, <1>3, <1>4, <1>5 DEF PromptInv

LEMMA GetchReturnStep ==
  ASSUME PromptInv, getchReturn, UNCHANGED <<stage, cleared>>
  PROVE  PromptInv'
<1>1. /\ call = "getch" /\ reader' = "out"
      /\ UNCHANGED <<counter, flag, cells, call, i, ahead, typed, wrapped, stage, cleared>>
  BY DEF getchReturn, driver
<1>2. \/ reader = "wait" /\ flag = 2 /\ buf' = [buf EXCEPT ![0] = cells[0]] /\ struck' = struck
      \/ reader = "struck" /\ buf' = [buf EXCEPT ![0] = Space] /\ struck' = TRUE
  BY DEF getchReturn
<1>3. cells \in [Cell -> Codes] /\ 0 \in Cell
      /\ buf \in [0 .. CounterMod -> Codes \union {Space, Junk}] /\ 0 \in 0 .. CounterMod
  BY DEF PromptInv, InputType, Cell
<1>4. InputType'
  <2>1. buf' \in [0 .. CounterMod -> Codes \union {Space, Junk}] /\ struck' \in BOOLEAN
    BY <1>2, <1>3 DEF PromptInv, InputType
  <2>2. QED
    BY <1>1, <2>1 DEF PromptInv, InputType
<1>5. Handshake' /\ NewlineAhead'
  BY <1>1, <1>2 DEF PromptInv, Handshake, NewlineAhead, Reading
<1>6. PageIsTyped' /\ CopyIsTyped'
  <2>1. flag = 2
    BY <1>2 DEF PromptInv, Handshake
  <2>2. QED
    BY <1>1, <2>1 DEF PageIsTyped, CopyIsTyped, Reading
<1>7. CharIsTyped'
  <2> SUFFICES ASSUME Regular', ~struck' PROVE buf'[0] = typed'[1]
    BY DEF CharIsTyped
  <2>1. reader = "wait" /\ flag = 2 /\ buf'[0] = cells[0]
    BY <1>2, <1>3
  <2>2. Len(typed) \in 1 .. CounterMod /\ \A c \in 1 .. Len(typed) : cells[c - 1] = typed[c]
    BY <1>1, <2>1 DEF PromptInv, PageIsTyped, Regular, Reading
  <2>3. cells[1 - 1] = typed[1]
    BY <2>2
  <2>4. QED
    BY <1>1, <2>1, <2>3
<1>8. RestCleared'
  BY <1>1 DEF PromptInv, RestCleared
<1>9. QED
  BY <1>4, <1>5, <1>6, <1>7, <1>8 DEF PromptInv

LEMMA GetstrWokenStep ==
  ASSUME PromptInv, getstrWoken, UNCHANGED <<stage, cleared>>
  PROVE  PromptInv'
<1>1. /\ reader = "wait" /\ call = "getstr" /\ flag = 2 /\ reader' = "copy" /\ i = 0
      /\ UNCHANGED <<counter, flag, cells, call, i, buf, ahead, struck, typed, wrapped, stage, cleared>>
  BY DEF getstrWoken, driver, request, PromptInv, Handshake
<1>2. InputType'
  BY <1>1 DEF PromptInv, InputType
<1>3. Handshake'
  BY <1>1 DEF PromptInv, Handshake, Reading
<1>4. NewlineAhead'
  BY <1>1 DEF PromptInv, NewlineAhead, Cell
<1>5. PageIsTyped'
  BY <1>1 DEF PromptInv, PageIsTyped, Regular, Reading
<1>6. CopyIsTyped' /\ CharIsTyped' /\ RestCleared'
  BY <1>1 DEF PromptInv, CopyIsTyped, CharIsTyped, RestCleared
<1>7. QED
  BY <1>2, <1>3, <1>4, <1>5, <1>6 DEF PromptInv

(* One character: unless a key struck, it is not the newline, so the       *)
(* newline lies further on.                                                *)
LEMMA GetstrCopyStep ==
  ASSUME PromptInv, getstrCopy, UNCHANGED <<stage, cleared>>
  PROVE  PromptInv'
<1>1. PICK code :
        /\ code \in {cells[i], Space} /\ Copy(code)
        /\ \/ reader = "copy" /\ cells[i] # NL /\ code = cells[i] /\ struck' = struck
           \/ reader = "struck" /\ struck' = TRUE
  BY DEF getstrCopy
<1>2. /\ reader \in {"copy", "struck"} /\ call = "getstr" /\ flag = 2 /\ i \in Cell
      /\ cells \in [Cell -> Codes]
  BY <1>1 DEF getstrCopy, PromptInv, Handshake, Reading, InputType
<1>3. /\ buf' = [buf EXCEPT ![i] = code] /\ i' = i + 1
      /\ reader' = IF i + 1 \in Cell THEN "copy" ELSE "lost"
      /\ UNCHANGED <<counter, flag, cells, call, ahead, typed, wrapped, stage, cleared>>
  BY <1>1 DEF Copy, driver
<1>4. code \in Codes \union {Space} /\ i \in 0 .. CounterMod /\ i \in Nat
      /\ buf \in [0 .. CounterMod -> Codes \union {Space, Junk}]
  BY <1>1, <1>2 DEF Cell, PromptInv, InputType
<1>5. /\ buf' \in [0 .. CounterMod -> Codes \union {Space, Junk}] /\ buf'[i] = code
      /\ \A c \in 0 .. CounterMod : c # i => buf'[c] = buf[c]
  BY <1>3, <1>4
<1>6. InputType'
  <2>1. struck' \in BOOLEAN
    BY <1>1 DEF PromptInv, InputType
  <2>2. i' \in Nat
    BY <1>3, <1>4
  <2>3. QED
    BY <1>3, <1>5, <2>1, <2>2 DEF PromptInv, InputType
<1>7. ASSUME ~struck'
      PROVE  /\ reader = "copy" /\ ~struck /\ cells[i] # NL /\ code = cells[i]
             /\ \E c \in i + 1 .. CounterMod - 1 : cells[c] = NL
             /\ reader' = "copy"
  <2>1. reader = "copy" /\ ~struck /\ cells[i] # NL /\ code = cells[i]
    BY <1>1, <1>7
  <2>2. PICK c \in i .. CounterMod - 1 : cells[c] = NL
    BY <1>2, <2>1 DEF PromptInv, NewlineAhead
  <2>3. c \in i + 1 .. CounterMod - 1 /\ i + 1 \in Cell
    BY <1>4, <2>1, <2>2 DEF Cell
  <2>4. QED
    BY <1>3, <2>1, <2>2, <2>3
<1>8. Handshake'
  BY <1>2, <1>3 DEF Handshake, Reading
<1>9. NewlineAhead'
  <2>1. reader' = "lost" => struck'
    BY <1>7
  <2>2. QED
    BY <1>3, <1>7, <2>1 DEF NewlineAhead
<1>10. PageIsTyped'
  BY <1>2, <1>3 DEF PromptInv, PageIsTyped, Regular, Reading
<1>11. CopyIsTyped' /\ CharIsTyped'
  <2> SUFFICES ASSUME Regular', ~struck', NEW c \in 1 .. i'
               PROVE  typed'[c] # NL /\ buf'[c - 1] = typed'[c]
    BY <1>2, <1>3 DEF CopyIsTyped, CharIsTyped
  <2>1. /\ Len(typed) \in 1 .. CounterMod /\ typed[Len(typed)] = NL
        /\ \A k \in 1 .. Len(typed) : cells[k - 1] = typed[k]
        /\ \A k \in 1 .. i : typed[k] # NL /\ buf[k - 1] = typed[k]
    BY <1>2, <1>3, <1>7 DEF PromptInv, PageIsTyped, CopyIsTyped, Regular, Reading
  <2>2. CASE c = i + 1
    <3>1. c \in 1 .. Len(typed) /\ c - 1 = i
      BY <1>4, <2>1, <2>2
    <3>2. cells[i] = typed[c]
      BY <2>1, <3>1
    <3>3. QED
      BY <1>3, <1>5, <1>7, <3>1, <3>2
  <2>3. CASE c # i + 1
    <3>1. c \in 1 .. i /\ c - 1 \in 0 .. CounterMod /\ c - 1 # i
      BY <1>3, <1>4, <2>3
    <3>2. QED
      BY <1>3, <1>5, <2>1, <3>1
  <2>4. QED
    BY <2>2, <2>3
<1>12. RestCleared'
  <2>1. ASSUME stage = "command", cleared, NEW c \in i + 1 .. CommandSize - 1
        PROVE  buf'[c] = NUL
    <3>1. c \in i .. CommandSize - 1 /\ c # i /\ c \in 0 .. CounterMod
      BY <1>4, <2>1
    <3>2. QED
      BY <1>5, <2>1, <3>1 DEF PromptInv, RestCleared
  <2>2. QED
    BY <1>3, <2>1 DEF PromptInv, RestCleared
<1>13. QED
  BY <1>6, <1>8, <1>9, <1>10, <1>11, <1>12 DEF PromptInv

LEMMA GetstrReturnStep ==
  ASSUME PromptInv, getstrReturn, UNCHANGED <<stage, cleared>>
  PROVE  PromptInv'
<1>1. /\ reader = "copy" /\ cells[i] = NL /\ cells' = [cells EXCEPT ![i] = NUL] /\ reader' = "out"
      /\ UNCHANGED <<counter, flag, call, i, buf, ahead, struck, typed, wrapped, stage, cleared>>
  BY DEF getstrReturn, request
<1>2. call = "getstr" /\ flag = 2 /\ i \in Cell
  BY <1>1 DEF PromptInv, Handshake, Reading
<1>3. InputType'
  <2>1. cells' \in [Cell -> Codes]
    BY <1>1 DEF PromptInv, InputType, Codes
  <2>2. QED
    BY <1>1, <2>1 DEF PromptInv, InputType
<1>4. Handshake' /\ NewlineAhead' /\ PageIsTyped'
  BY <1>1, <1>2 DEF Handshake, NewlineAhead, PageIsTyped, Reading
<1>5. CopyIsTyped' /\ CharIsTyped'
  <2> SUFFICES ASSUME Regular, ~struck
               PROVE  /\ \A c \in 1 .. i : typed[c] # NL /\ buf[c - 1] = typed[c]
                      /\ i < Len(typed) /\ typed[i + 1] = NL
    BY <1>1, <1>2 DEF CopyIsTyped, CharIsTyped, Regular
  <2>1. /\ Len(typed) \in 1 .. CounterMod /\ typed[Len(typed)] = NL
        /\ \A k \in 1 .. Len(typed) : cells[k - 1] = typed[k]
        /\ \A k \in 1 .. i : typed[k] # NL /\ buf[k - 1] = typed[k]
    BY <1>1, <1>2 DEF PromptInv, PageIsTyped, CopyIsTyped, Regular, Reading
  <2>2. i < Len(typed)
    BY <1>2, <2>1 DEF Cell
  <2>3. i + 1 \in 1 .. Len(typed) /\ (i + 1) - 1 = i
    BY <1>2, <2>2 DEF Cell
  <2>4. QED
    BY <1>1, <2>1, <2>2, <2>3
<1>6. RestCleared'
  BY <1>1 DEF PromptInv, RestCleared
<1>7. QED
  BY <1>3, <1>4, <1>5, <1>6 DEF PromptInv

LEMMA InitInv == Init => PromptInv
<1> SUFFICES ASSUME Init PROVE PromptInv
  OBVIOUS
<1>1. /\ counter = 0 /\ flag = 0 /\ cells = [c \in Cell |-> NUL]
      /\ reader = "out" /\ call = "none" /\ i = 0 /\ buf = [c \in 0 .. CounterMod |-> Junk]
      /\ typed = <<>> /\ wrapped = FALSE /\ struck = FALSE /\ stage = "kernel"
  BY DEF Init, InputInit
<1>2. InputType
  BY <1>1 DEF InputType, Cell, Codes
<1>3. Handshake /\ NewlineAhead /\ PageIsTyped
  BY <1>1 DEF Handshake, NewlineAhead, PageIsTyped, Reading
<1>4. CopyIsTyped /\ CharIsTyped /\ RestCleared
  BY <1>1 DEF CopyIsTyped, CharIsTyped, RestCleared
<1>5. QED
  BY <1>2, <1>3, <1>4 DEF PromptInv

LEMMA NextInv == PromptInv /\ [Next]_vars => PromptInv'
<1> SUFFICES ASSUME PromptInv, [Next]_vars PROVE PromptInv'
  OBVIOUS
<1> DEFINE Zeroed == [c \in 0 .. CounterMod |-> IF c < CommandSize THEN NUL ELSE Junk]
<1>1. /\ Filled(Junk) \in [0 .. CounterMod -> Codes \union {Space, Junk}]
      /\ Zeroed \in [0 .. CounterMod -> Codes \union {Space, Junk}]
      /\ \A c \in 0 .. CommandSize - 1 : Zeroed[c] = NUL
  BY DEF Filled, Codes
<1>2. CASE UNCHANGED vars
  <2>1. UNCHANGED <<counter, flag, cells, reader, call, i, buf, ahead, struck, typed, wrapped,
                    stage, cleared>>
    BY <1>2 DEF vars, inputVars, driver, request
  <2>2. QED
    BY <2>1 DEF PromptInv, InputType, Handshake, NewlineAhead, PageIsTyped, CopyIsTyped,
                CharIsTyped, RestCleared, Regular, Reading
<1>3. CASE keyboard /\ UNCHANGED <<stage, cleared>>
  BY <1>3, KeyStep
<1>4. CASE readerStep /\ UNCHANGED <<stage, cleared>>
  BY <1>4, GetchReturnStep, GetstrWokenStep, GetstrCopyStep, GetstrReturnStep DEF readerStep
<1>5. CASE callGetch
  BY <1>1, <1>5, AskStep DEF callGetch
<1>6. CASE prompt
  BY <1>1, <1>6, AskStep DEF prompt
<1>7. CASE nextRound
  <2>1. askForLine("getstr", Zeroed) /\ stage' = "command"
    BY <1>7 DEF nextRound
  <2> HIDE DEF Zeroed
  <2>2. QED
    BY <1>1, <2>1, AskStep
<1>8. ASSUME NEW next \in {"first", "second"}, getint(next)
      PROVE  PromptInv'
  BY <1>1, <1>8, AskStep DEF getint
<1>9. CASE commandFaults
  <2>1. /\ UNCHANGED <<counter, flag, cells, reader, call, i, buf, ahead, struck, typed, wrapped>>
        /\ stage = "second" /\ stage' = "halted"
    BY <1>9 DEF commandFaults, inputVars, driver, request
  <2>2. RestCleared'
    BY <2>1 DEF PromptInv, RestCleared
  <2>3. QED
    BY <2>1, <2>2 DEF PromptInv, InputType, Handshake, NewlineAhead, PageIsTyped, CopyIsTyped,
                      CharIsTyped, Regular, Reading
<1>10. QED
  BY <1>2, <1>3, <1>4, <1>5, <1>6, <1>7, <1>8, <1>9
     DEF Next, Dispatch, secondNumber, commandDone

-----------------------------------------------------------------------------
(* The inductive invariant of the keyboard handler, the readers and the    *)
(* command loop.                                                           *)
THEOREM PromptInvariant == Spec => []PromptInv
<1>1. Init => PromptInv
  BY InitInv
<1>2. PromptInv /\ [Next]_vars => PromptInv'
  BY NextInv
<1>3. QED
  BY <1>1, <1>2, PTL DEF Spec

(* NewlineAhead: getstr's loop, which nothing bounds, stops at a newline   *)
(* inside the characters, whatever keys arrive while it runs, unless one   *)
(* of them came between its load of a character and the use.               *)
THEOREM LoopStops == Spec => []NewlineAhead
<1>1. PromptInv => NewlineAhead
  BY DEF PromptInv
<1>2. QED
  BY <1>1, PromptInvariant, PTL

(* The choice in FirstLine is unique. *)
LEMMA FirstLineIs ==
  ASSUME NEW s \in Seq(Codes), NEW n \in Nat, n < Len(s), s[n + 1] = NL,
         \A j \in 1 .. n : s[j] # NL
  PROVE  /\ FirstLine(s) \in Seq(Codes) /\ Len(FirstLine(s)) = n
         /\ \A j \in 1 .. n : FirstLine(s)[j] = s[j]
<1> DEFINE Ends(k) == /\ \A j \in 1 .. k : s[j] # NL
                      /\ k < Len(s) => s[k + 1] = NL
           m == CHOOSE k \in 0 .. Len(s) : Ends(k)
<1>1. n \in 0 .. Len(s) /\ Ends(n)
  OBVIOUS
<1>2. m \in 0 .. Len(s) /\ Ends(m)
  BY <1>1
<1>3. FirstLine(s) = SubSeq(s, 1, m)
  BY DEF FirstLine
<1> HIDE DEF m
<1>4. m = n
  <2>1. ~(m < n)
    <3>1. SUFFICES ASSUME m < n PROVE FALSE
      OBVIOUS
    <3>2. m + 1 \in 1 .. n /\ m < Len(s)
      BY <1>1, <1>2, <3>1
    <3>3. QED
      BY <1>2, <3>2
  <2>2. ~(n < m)
    <3>1. SUFFICES ASSUME n < m PROVE FALSE
      OBVIOUS
    <3>2. n + 1 \in 1 .. m
      BY <1>2, <3>1
    <3>3. QED
      BY <1>2, <3>2
  <2>3. QED
    BY <1>2, <2>1, <2>2
<1>5. \A j \in 1 .. n : s[j] \in Codes
  <2>1. \A j \in 1 .. n : j \in 1 .. Len(s)
    OBVIOUS
  <2>2. QED
    BY <2>1
<1>6. FirstLine(s) = [j \in 1 .. n |-> s[j]]
  BY <1>3, <1>4
<1>7. QED
  BY <1>5, <1>6

(* What getstr has returned, in terms of the line. *)
LEMMA ReturnedLine ==
  ASSUME PromptInv, Returned("getstr"), Regular, ~struck
  PROVE  /\ i \in Nat /\ FirstLine(typed) \in Seq(Codes) /\ Len(FirstLine(typed)) = i
         /\ \A c \in 1 .. i : FirstLine(typed)[c] = typed[c] /\ buf[c - 1] = typed[c]
<1>1. i \in Nat /\ typed \in Seq(Codes)
  BY DEF PromptInv, InputType
<1>2. /\ \A c \in 1 .. i : typed[c] # NL /\ buf[c - 1] = typed[c]
      /\ i < Len(typed) /\ typed[i + 1] = NL
  BY DEF PromptInv, CopyIsTyped, Returned
<1>3. QED
  BY <1>1, <1>2, FirstLineIs

(* LineAsTyped: a line asked for when no key was counted, and of fewer     *)
(* keys than the counter can count, is returned as it was edited.          *)
THEOREM LineReturned == Spec => []LineAsTyped
<1>1. PromptInv => LineAsTyped
  <2> SUFFICES ASSUME PromptInv, ahead = 0, ~wrapped, ~struck
               PROVE  /\ Returned("getstr") =>
                           /\ i = Len(FirstLine(typed))
                           /\ \A c \in 1 .. i : buf[c - 1] = typed[c]
                      /\ Returned("getch") => buf[0] = typed[1]
    BY DEF LineAsTyped
  <2>1. Regular
    BY DEF Regular
  <2>2. Returned("getch") => buf[0] = typed[1]
    BY <2>1 DEF PromptInv, CharIsTyped, Returned
  <2>3. QED
    BY <2>1, <2>2, ReturnedLine
<1>2. QED
  BY <1>1, PromptInvariant, PTL

(* The name with its terminator. *)
LEMMA Appended ==
  ASSUME NEW S, NEW s \in Seq(S), NEW e \in S
  PROVE  Append(s, e) \in Seq(S) /\ Len(Append(s, e)) = Len(s) + 1
  OBVIOUS

LEMMA AppendedAt ==
  ASSUME NEW S, NEW s \in Seq(S), NEW e \in S
  PROVE  /\ \A j \in 1 .. Len(s) : Append(s, e)[j] = s[j]
         /\ Append(s, e)[Len(s) + 1] = e
  OBVIOUS

LEMMA AddName ==
  /\ Append(add, NUL) \in Seq(Codes) /\ Len(Append(add, NUL)) = 2
  /\ Append(add, NUL)[1] = "a" /\ Append(add, NUL)[2] = NUL
<1>1. add \in Seq(Codes) /\ Len(add) = 1 /\ add[1] = "a"
  BY DEF add, Codes
<1>2. NUL \in Codes
  BY DEF Codes
<1>3. Append(add, NUL) \in Seq(Codes) /\ Len(Append(add, NUL)) = Len(add) + 1
  BY <1>1, <1>2, Appended, Zenon
<1>4. /\ \A j \in 1 .. Len(add) : Append(add, NUL)[j] = add[j]
      /\ Append(add, NUL)[Len(add) + 1] = NUL
  BY <1>1, <1>2, AppendedAt, Zenon
<1>5. QED
  BY <1>1, <1>3, <1>4

LEMMA AddPrefix ==
  ASSUME NEW s \in Seq(Codes)
  PROVE  IsPrefix(Append(add, NUL), s) <=> Len(s) >= 2 /\ s[1] = "a" /\ s[2] = NUL
<1> DEFINE name == Append(add, NUL)
<1>1. name \in Seq(Codes) /\ Len(name) = 2 /\ name[1] = "a" /\ name[2] = NUL
  BY AddName
<1>2. IsPrefix(name, s) <=> 2 <= Len(s) /\ SubSeq(name, 1, 2) = SubSeq(s, 1, 2)
  BY <1>1 DEF IsPrefix
<1> HIDE DEF name
<1>3. SubSeq(name, 1, 2) = [j \in 1 .. 2 |-> name[j]]
  BY <1>1
<1>4. SubSeq(s, 1, 2) = [j \in 1 .. 2 |-> s[j]]
  OBVIOUS
<1>5. SubSeq(name, 1, 2) = SubSeq(s, 1, 2) <=> \A j \in 1 .. 2 : name[j] = s[j]
  BY <1>3, <1>4
<1>6. (\A j \in 1 .. 2 : name[j] = s[j]) <=> name[1] = s[1] /\ name[2] = s[2]
  OBVIOUS
<1>7. Len(s) \in Nat
  OBVIOUS
<1>8. IsPrefix(name, s) <=> Len(s) >= 2 /\ s[1] = "a" /\ s[2] = NUL
  BY <1>1, <1>2, <1>5, <1>6, <1>7
<1>9. QED
  BY <1>8 DEF name

(* CommandAsTyped: from the second command on, strcmp compares the line as *)
(* it was typed, with nothing of an earlier command behind it.             *)
THEOREM CommandCompared == Spec => []CommandAsTyped
<1>1. PromptInv => CommandAsTyped
  <2> DEFINE line == FirstLine(typed)
  <2> SUFFICES ASSUME PromptInv, stage = "command", Returned("getstr"), cleared, i < CommandSize,
                      ahead = 0, ~wrapped, ~struck
               PROVE  /\ buf[i] = NUL
                      /\ IF line = add \/ IsPrefix(Append(add, NUL), line)
                           THEN ~IsNot(add) ELSE ~IsCommand(add)
    BY DEF CommandAsTyped
  <2>1. /\ i \in Nat /\ line \in Seq(Codes) /\ Len(line) = i
        /\ \A c \in 1 .. i : buf[c - 1] = line[c]
    BY ReturnedLine DEF Regular
  <2>2. buf[i] = NUL
    BY <2>1 DEF PromptInv, RestCleared
  <2> HIDE DEF line
  <2>3. \A c \in 1 .. i : line[c] \in Codes /\ line[c] # Junk
    <3>1. \A c \in 1 .. i : line[c] \in Codes
      BY <2>1
    <3>2. QED
      BY <3>1 DEF Codes, Junk, NL, NUL
  <2>4. IsNot(add) <=> (buf[0] = Junk \/ buf[0] # "a" \/ buf[1] = Junk \/ buf[1] # NUL)
    <3>1. Len(add) = 1 /\ add[1] = "a"
      BY DEF add
    <3>2. QED
      BY <3>1 DEF IsNot
  <2>5. IsCommand(add) <=> (buf[0] \in {"a", Junk} /\ buf[1] \in {NUL, Junk})
    <3>1. Len(add) = 1 /\ DOMAIN add = {1} /\ add[1] = "a"
      BY DEF add
    <3>2. QED
      BY <3>1 DEF IsCommand
  <2>6. CASE i = 0
    <3>1. buf[0] = NUL /\ Len(line) = 0
      BY <2>1, <2>2, <2>6
    <3>2. line # add
      <4>1. Len(add) = 1
        BY DEF add
      <4>2. QED
        BY <3>1, <4>1
    <3>3. ~IsPrefix(Append(add, NUL), line)
      <4>1. ~(Len(line) >= 2)
        BY <3>1
      <4>2. QED
        BY <2>1, <4>1, AddPrefix, Zenon
    <3>4. QED
      BY <2>2, <2>5, <3>1, <3>2, <3>3 DEF NUL, Junk
  <2>7. CASE i = 1
    <3>1. buf[0] = line[1] /\ line[1] # Junk /\ buf[1] = NUL /\ Len(line) = 1
      BY <2>1, <2>2, <2>3, <2>7
    <3>2. ~IsPrefix(Append(add, NUL), line)
      BY <2>1, <3>1, AddPrefix
    <3>3. line = add <=> line[1] = "a"
      <4>1. line = <<line[1]>>
        BY <2>1, <3>1
      <4>2. QED
        BY <4>1 DEF add
    <3>4. QED
      BY <2>2, <2>4, <2>5, <3>1, <3>2, <3>3 DEF NUL, Junk
  <2>8. CASE i >= 2
    <3>1. 1 \in 1 .. i /\ 2 \in 1 .. i
      BY <2>1, <2>8
    <3>2. buf[1 - 1] = line[1] /\ buf[2 - 1] = line[2] /\ line[1] # Junk /\ line[2] # Junk
      BY <2>1, <2>3, <3>1
    <3>3. buf[0] = line[1] /\ buf[1] = line[2]
      BY <3>2
    <3>4. IsPrefix(Append(add, NUL), line) <=> line[1] = "a" /\ line[2] = NUL
      BY <2>1, <2>8, AddPrefix
    <3>5. line # add
      BY <2>1, <2>8 DEF add
    <3>6. QED
      BY <2>2, <2>4, <2>5, <3>2, <3>3, <3>4, <3>5 DEF NUL, Junk
  <2>9. QED
    BY <2>1, <2>6, <2>7, <2>8
<1>2. QED
  BY <1>1, PromptInvariant, PTL

=============================================================================

--------------------------- MODULE TerminalPanel ---------------------------
(***************************************************************************)
(* The terminal panel (extension/terminal-panel.ts): program output goes   *)
(* through a filter of ANSI escape sequences into a bounded buffer, and in *)
(* batches, on a timer, to a webview that may be opened and closed at any  *)
(* moment.  The adapter sends one character at a time                      *)
(* (debug/session/platform-host.ts:118), so a sequence is always split.    *)
(*                                                                         *)
(* Characters are kinds: ESC, "[", the letter J that ends a clear-screen   *)
(* sequence, another letter, and a digit.                                  *)
(***************************************************************************)
EXTENDS Naturals, Sequences, SequencesExt

CONSTANTS MaxBuffer,   \* TERMINAL_BUFFER_MAX
          MaxEscape,   \* length after which an unfinished sequence is text
          MaxSent      \* bound: characters of output between two resets

VARIABLES panel,       \* the webview exists
          buffer,      \* terminalBuffer
          carry,       \* terminalAnsiCarry: an unfinished sequence
          unsent,      \* terminalPendingOutput
          flushTimer,  \* terminalFlushTimer is armed
          refresh,     \* terminalNeedsFullRefresh
          display,     \* what the webview shows
          stream       \* history: the output since the last reset

terminalVars == <<panel, buffer, carry, unsent, flushTimer, refresh, display, stream>>

Char == {"ESC", "[", "J", "letter", "digit"}
Final == {"J", "letter"}

TerminalInit ==
  /\ panel = FALSE /\ buffer = <<>> /\ carry = <<>> /\ unsent = <<>>
  /\ flushTimer = FALSE /\ refresh = FALSE /\ display = <<>> /\ stream = <<>>

(* One character through stripAndDetectClear, after the unfinished         *)
(* sequence esc: what remains as text, whether the screen is cleared, and  *)
(* the sequence still unfinished.                                          *)
Text(t) == [text |-> t, clear |-> FALSE, esc |-> <<>>]
Unfinished(e) == [text |-> <<>>, clear |-> FALSE, esc |-> e]

StripAndDetectClear(esc, c) ==
  LET seen == Append(esc, c) IN
    CASE esc = <<>> /\ c = "ESC"                  -> Unfinished(seen)
      [] esc = <<>> /\ c # "ESC"                  -> Text(seen)
      [] Len(seen) = 2 /\ c # "["                 -> Text(seen)
      [] Len(seen) = 2 /\ c = "["                 -> Unfinished(seen)
      [] Len(seen) > 2 /\ c \in Final             -> [text |-> <<>>, clear |-> c = "J", esc |-> <<>>]
      [] Len(seen) > 2 /\ c \notin Final          -> IF Len(seen) > MaxEscape THEN Text(seen)
                                                                              ELSE Unfinished(seen)

CarriedNever(esc) == <<>>

Carried(esc) == esc

LastOf(n, s) == IF Len(s) > n THEN SubSeq(s, Len(s) - n + 1, Len(s)) ELSE s

(* clear(): everything reset, the timer cancelled, the webview emptied.    *)
Clear ==
  /\ buffer' = <<>> /\ carry' = <<>> /\ unsent' = <<>> /\ refresh' = FALSE
  /\ flushTimer' = FALSE
  /\ display' = <<>>
  /\ stream' = <<>>
  /\ UNCHANGED panel

Overflows(text) == Len(text) > MaxBuffer

(* A character of output.  The handler opens the panel first when there is *)
(* none (debug-session-events.ts:229-233): the page is then built from the *)
(* buffer and nothing is unsent.                                           *)
AppendOutput(c) ==
  LET r == StripAndDetectClear(carry, c)
      kept == buffer \o r.text
      over == Overflows(kept)
      full == over \/ (refresh /\ panel)
      queued == IF panel THEN unsent ELSE <<>>
      opened == IF panel THEN display ELSE buffer
  IN
  /\ Len(stream) < MaxSent
  /\ stream' = Append(stream, c)
  /\ carry' = Carried(r.esc)
  /\ panel' = TRUE
  /\ \/ /\ r.clear
        /\ buffer' = <<>> /\ unsent' = <<>> /\ refresh' = FALSE
        /\ flushTimer' = FALSE /\ display' = <<>>
     \/ /\ ~r.clear /\ r.text = <<>>
        /\ unsent' = queued /\ refresh' = (refresh /\ panel) /\ display' = opened
        /\ UNCHANGED <<buffer, flushTimer>>
     \/ /\ ~r.clear /\ r.text # <<>>
        /\ buffer' = LastOf(MaxBuffer, kept)
        /\ refresh' = full
        /\ unsent' = IF full THEN <<>> ELSE queued \o r.text
        /\ flushTimer' = TRUE
        /\ display' = opened

FlushText == IF refresh THEN buffer ELSE display \o unsent

FlushTimerFires ==
  /\ flushTimer
  /\ flushTimer' = FALSE
  /\ IF panel
       THEN /\ display' = FlushText
            /\ refresh' = FALSE /\ unsent' = <<>>
       ELSE UNCHANGED <<display, refresh, unsent>>
  /\ UNCHANGED <<panel, buffer, carry, stream>>

(* Opened by the user or for a session: the page is built from the buffer, *)
(* whether or not it was open.                                             *)
Open ==
  /\ panel' = TRUE
  /\ display' = buffer
  /\ unsent' = <<>> /\ refresh' = FALSE
  /\ UNCHANGED <<buffer, carry, flushTimer, stream>>

Dispose ==
  /\ panel
  /\ panel' = FALSE /\ flushTimer' = FALSE
  /\ buffer' = <<>> /\ carry' = <<>> /\ unsent' = <<>> /\ refresh' = FALSE
  /\ display' = <<>> /\ stream' = <<>>

TerminalNext == Open \/ Dispose \/ FlushTimerFires

-----------------------------------------------------------------------------

TerminalTypeOK ==
  /\ panel \in BOOLEAN /\ flushTimer \in BOOLEAN /\ refresh \in BOOLEAN
  /\ buffer \in Seq(Char) /\ Len(buffer) <= MaxBuffer
  /\ carry \in Seq(Char) /\ Len(carry) <= MaxEscape
  /\ unsent \in Seq(Char) /\ display \in Seq(Char) /\ stream \in Seq(Char)

(* Whenever no flush is due the open panel shows exactly the buffer:       *)
(* openings, overflows and clears between a batch and its timer neither    *)
(* lose nor repeat text (terminal-panel.ts:77-83, 95-113, 137-162).        *)
PanelShowsBuffer == panel /\ ~flushTimer => display = buffer

(* The reference for the filter looks ahead in the whole stream.  EndAt(s, i) *)
(* is where the control sequence that starts with ESC [ at i ends, if it   *)
(* ends in time; a clear-screen sequence drops the text before it.         *)
EndAt(s, i) == {j \in (i + 2)..Len(s) :
  /\ s[j] \in Final /\ j - i <= MaxEscape
  /\ \A k \in (i + 2)..(j - 1) : s[k] \notin Final}

WholeText(s) ==
  LET Shown(n, i, rest) ==      \* n characters from i are text
        [text |-> IF rest.cleared THEN rest.text ELSE SubSeq(s, i, i + n - 1) \o rest.text,
         cleared |-> rest.cleared]
      f[i \in 1..(Len(s) + MaxEscape + 1)] ==   \* what is left of the stream from i on
        IF i > Len(s) THEN [text |-> <<>>, cleared |-> FALSE]
        ELSE IF s[i] # "ESC" THEN Shown(1, i, f[i + 1])
        ELSE IF i < Len(s) /\ s[i + 1] # "[" THEN Shown(2, i, f[i + 2])
        ELSE IF EndAt(s, i) # {}
          THEN LET j == CHOOSE j \in EndAt(s, i) : TRUE
                   rest == f[j + 1]
               IN IF s[j] = "J" THEN [rest EXCEPT !.cleared = TRUE] ELSE rest
        ELSE IF Len(s) - i >= MaxEscape THEN Shown(MaxEscape + 1, i, f[i + MaxEscape + 1])
        ELSE [text |-> <<>>, cleared |-> FALSE]   \* unfinished: nothing shows yet
  IN f[1].text

(* Arriving a character at a time, the output leaves the same text as in   *)
(* one piece, but for what the limit cut off: no sequence split between    *)
(* two events shows on the screen, no cleared text comes back              *)
(* (terminal-panel.ts:165-218).                                            *)
BufferIsTheText == buffer = LastOf(MaxBuffer, WholeText(stream))
=============================================================================

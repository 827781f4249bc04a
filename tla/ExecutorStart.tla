---------------------------- MODULE ExecutorStart ----------------------------
(***************************************************************************)
(* The start of an executor program: where its mnemonic comes from, the    *)
(* prompt that collects the pin of an encrypted one, and the connection it *)
(* then opens.  The terminal hands the prompt chunks of keys: one key at a *)
(* time when somebody types, several when a pin is pasted or piped in.     *)
(***************************************************************************)
EXTENDS Naturals, Sequences, SequencesExt

CONSTANTS
  Chars,      \* characters of a pin
  RightPin,   \* the pin the mnemonic is encrypted with
  MaxKeys     \* bound of the keys one run of the program is given

ASSUME StartAssumption ==
  /\ RightPin \in Seq(Chars)
  /\ {"backspace", "enter", "ctrlc"} \cap Chars = {}
  /\ MaxKeys \in Nat

VARIABLES
  env,        \* what the .env file sets
  step,       \* the await start() is at, or the end of the process
  input,      \* this.input of the prompt
  typed,      \* the keys given so far (history)
  pasted,     \* whether a chunk held more than one key (history)
  mnemonic    \* "none", "right", or "garbage": a wrong pin that decrypted

startVars == <<env, step, input, typed, pasted, mnemonic>>

Keys == Chars \cup {"backspace", "enter", "ctrlc"}
Pins == {RightPin, <<>>}

\* ENCRYPTED_MNEMONIC, MNEMONIC, DOCKER, PIN, and a URL that can be parsed.
Environments ==
  [encrypted : BOOLEAN, plain : BOOLEAN, docker : BOOLEAN, pin : Pins, url : BOOLEAN]

StartInit ==
  /\ env \in Environments
  /\ step = "start"
  /\ input = <<>>
  /\ typed = <<>>
  /\ pasted = FALSE
  /\ mnemonic = "none"

\* Neither an environment without a mnemonic nor a pin that decrypts nothing
\* gets as far as a connection, on which the program would take requests it
\* cannot sign reports for.
StartTypeOK ==
  /\ env \in Environments
  /\ step \in {"start", "prompt", "evaluate", "connect", "retry", "running",
               "leaving", "exited", "hung"}
  /\ input \in Seq(Keys)
  /\ typed \in Seq(Keys)
  /\ pasted \in BOOLEAN
  /\ mnemonic \in {"none", "right", "garbage"}
  /\ step \in {"connect", "retry", "running"} => mnemonic # "none"

-----------------------------------------------------------------------------
\* Mutant: the backspace deletes the first character.
WithoutFirst(s) == IF s = <<>> THEN s ELSE Tail(s)

\* input.slice(0, input.length - 1)
backspace(s) == IF s = <<>> THEN s ELSE Front(s)

\* A throw in start() is logged and the program leaves after ten seconds.
Throw == step' = "leaving"

ReadEnvironment ==
  /\ step = "start"
  /\ CASE env.encrypted /\ ~env.docker -> step' = "prompt" /\ UNCHANGED <<input, mnemonic>>
       [] env.encrypted /\ env.docker ->
            step' = "evaluate" /\ input' = env.pin /\ UNCHANGED mnemonic
       [] ~env.encrypted /\ env.plain ->
            step' = "connect" /\ mnemonic' = "right" /\ UNCHANGED input
       [] OTHER -> Throw /\ UNCHANGED <<input, mnemonic>>
  /\ UNCHANGED <<env, typed, pasted>>

\* pn: a chunk counts as a control key only when it is that key and nothing
\* else, apart from a backspace, which swallows the rest of its chunk.
KeysArrive(chunk) ==
  /\ step = "prompt"
  /\ typed' = typed \o chunk
  /\ pasted' = (pasted \/ Len(chunk) > 1)
  /\ CASE chunk = <<"enter">> -> step' = "evaluate" /\ UNCHANGED input
       [] chunk = <<"ctrlc">> -> step' = "hung" /\ UNCHANGED input
       [] Head(chunk) = "backspace" -> input' = backspace(input) /\ UNCHANGED step
       [] OTHER -> input' = input \o chunk /\ UNCHANGED step
  /\ UNCHANGED <<env, mnemonic>>

\* Mutant: what decryptAES returned is not looked at.
EvaluateAny(plaintext) == step' = "connect" /\ mnemonic' = plaintext

\* evaluatePin: nothing decrypted is an invalid pin.
Evaluate(plaintext) ==
  IF plaintext = "none" THEN Throw /\ UNCHANGED mnemonic
  ELSE step' = "connect" /\ mnemonic' = plaintext

\* decryptAES: a wrong pin gives nothing, or rarely some text.
EvaluatePin ==
  /\ step = "evaluate"
  /\ \E plaintext \in IF input = RightPin THEN {"right"} ELSE {"none", "garbage"} :
       Evaluate(plaintext)
  /\ UNCHANGED <<env, input, typed, pasted>>

\* processRequestWrapper: connect, and when that throws once more in 5 s.
ConnectProgram ==
  /\ \/ step = "connect" /\ step' = (IF env.url THEN "running" ELSE "retry")
     \/ step = "retry" /\ step' = "connect"
  /\ UNCHANGED <<env, input, typed, pasted, mnemonic>>

\* process.exit(0), which restart: on-failure takes for a success.
Leave ==
  /\ step = "leaving"
  /\ step' = "exited"
  /\ UNCHANGED <<env, input, typed, pasted, mnemonic>>

ProgramStep == ReadEnvironment \/ EvaluatePin \/ ConnectProgram \/ Leave

KeyChunks == {<<k>> : k \in Keys} \cup {<<k, l>> : k, l \in Keys}

StartNext ==
  \/ ProgramStep
  \/ \E chunk \in KeyChunks : Len(typed) + Len(chunk) <= MaxKeys /\ KeysArrive(chunk)

\* Whoever sits at the terminal may stop typing; the program does not.
StartSpec == StartInit /\ [][StartNext]_startVars /\ WF_startVars(ProgramStep)

-----------------------------------------------------------------------------
(* Properties *)

\* What a line editor makes of the keys.
Edited(keys) ==
  FoldLeft(LAMBDA line, k : IF k \in Chars THEN Append(line, k)
                            ELSE IF line = <<>> THEN line ELSE Front(line),
           <<>>, keys)

\* Somebody who types, corrects mistakes and ends with Enter gets an executor
\* that runs with the mnemonic of the pin that stands in the line.
TypedPinRuns ==
  /\ env.url
  /\ typed # <<>> /\ Last(typed) = "enter" /\ ~pasted
  /\ Edited(Front(typed)) = RightPin
  ~> step = "running" /\ mnemonic = "right"
=============================================================================

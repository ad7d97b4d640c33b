----------------------------- MODULE ChatPolicy -----------------------------
(***************************************************************************)
(* The chat plumbing both model back ends share (agent/policy.py): the     *)
(* messages of an episode, what of them the context window takes, and what *)
(* a reply is read as.  The model is outside the repository: it may reply  *)
(* anything, of which is kept what next_action looks for.  A message is    *)
(* its role, when it was added and its size in tokens.                     *)
(***************************************************************************)
EXTENDS Integers, Sequences, SequencesExt

CONSTANTS
  Budget,    \* context_tokens less max_new_tokens
  HeadSize,  \* tokens of the system prompt, and of the task
  ReplySize, \* tokens of a reply
  ResultSizes \* tokens a tool result may come to: _truncate cuts no message

ASSUME ChatAssumption ==
  /\ {Budget, HeadSize, ReplySize} \subseteq Nat
  /\ ResultSizes \subseteq Nat

VARIABLES
  messages,  \* of the episode
  prompt     \* the messages the last reply was generated from

chatVars == <<messages, prompt>>

Roles == {"system", "user", "assistant"}
Message(role, size, number) == [role |-> role, size |-> size, number |-> number]
Said(ms, role, size) == Append(ms, Message(role, size, Len(ms) + 1))

\* The system prompt and the task.
StartOfEpisode == Said(Said(<<>>, "system", HeadSize), "user", HeadSize)

Tokens(ms) == FoldSeq(LAMBDA message, n : message.size + n, 0, ms)

\* What is left of the messages without the oldest n after the head.
Without(ms, n) == SubSeq(ms, 1, 2) \o SubSeq(ms, 3 + n, Len(ms))

Fits(ms) == Tokens(ms) <= Budget

\* Mutant: drops the newest pair first.
TruncateNewest(ms) ==
  LET kept(pairs) == SubSeq(ms, 1, Len(ms) - 2 * pairs)
      pairs == (Len(ms) - 2) \div 2
  IN  kept(Min({d \in 0 .. pairs : d = pairs \/ Fits(kept(d))}))

\* _truncate: drops the oldest pairs of call and result until the rest fits, or
\* nothing but the head is left, whether that fits or not.
Truncate(ms) ==
  LET pairs == (Len(ms) - 2) \div 2
  IN  Without(ms, 2 * Min({d \in 0 .. pairs : d = pairs \/ Fits(Without(ms, 2 * d))}))

\* A reply: the arguments of the tool call it parses as ("none" if it is no
\* call) and whether it begins with ABSTAIN.
Replies == [call : {"none", "object", "absent", "text"}, abstains : BOOLEAN]

\* next_action reads for a call first; dict() raises on arguments that are text.
\* What is neither a call nor an abstention is an answer, after a FINAL mark or
\* as it is.
ReadAs(said) ==
  CASE said.call \in {"object", "absent"} -> "call"
    [] said.call = "text" -> "raised"
    [] said.call = "none" /\ said.abstains -> "abstained"
    [] said.call = "none" /\ ~said.abstains -> "answered"

\* One call of next_action, with the size of the observation if there is one.
Generate(observed, said) ==
  LET heard == IF observed = {} THEN messages
               ELSE Said(messages, "user", CHOOSE size \in observed : TRUE)
  IN  /\ prompt' = Truncate(heard)
      /\ messages' = Said(heard, "assistant", ReplySize)

ChatInit == messages = StartOfEpisode /\ prompt = <<>>

MessageType == [role : Roles, size : Nat, number : Nat]
ChatTypeOK == messages \in Seq(MessageType) /\ prompt \in Seq(MessageType)

\* Truncation to the context window (policy.py:221-230): what the model is shown
\* is the head and the newest messages, in the order of the chat, user and
\* assistant in turn and the user last, so that the chat template renders it; it
\* is no larger than fits; it leaves nothing out that would have fitted; and the
\* newest observation is among it, unless it does not fit with its call alone.
PromptKeepsTheLatest ==
  prompt # <<>> =>
    LET heard == Front(messages)
        tail  == Len(prompt) - 2
    IN  /\ prompt = Without(heard, Len(heard) - 2 - tail)
        /\ \A i \in 3 .. Len(prompt) : prompt[i].role = IF i % 2 = 1 THEN "assistant" ELSE "user"
        /\ Last(prompt).role = "user"
        /\ tail > 0 => Fits(prompt)
        /\ Len(prompt) < Len(heard) => ~Fits(Without(heard, Len(heard) - 2 - tail - 2))
        /\ Len(heard) > 2 /\ Fits(Without(heard, Len(heard) - 4)) => Last(prompt) = Last(heard)

=============================================================================

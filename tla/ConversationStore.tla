-------------------------- MODULE ConversationStore --------------------------
(* The conversations and their messages, over the in-memory store and over
   Postgres (internal/repository). A store is
     titles   the conversations that exist, each with its title
     msgs     the messages of each conversation, oldest first
   Each operation is one critical section of the memory store's mutex, or one
   SQL statement.                                                            *)
EXTENDS Naturals, Sequences, FiniteSets, SequencesExt

CONSTANT Convs   \* conversation ids

EmptyStore == [titles |-> << >>, msgs |-> [c \in Convs |-> << >>]]

Message(id, role, text, mode) ==
  [id |-> id, role |-> role, text |-> text, mode |-> mode]

ConversationExists(store, conv) == conv \in DOMAIN store.titles

(* A replacement in memory, an upsert in Postgres: the title is the last one's. *)
SaveConversation(store, conv, title) ==
  [store EXCEPT !.titles =
     [c \in DOMAIN store.titles \cup {conv} |->
        IF c = conv THEN title ELSE store.titles[c]]]

(* The messages go with the conversation: four map deletes, or the cascade. *)
DeleteConversation(store, conv) ==
  [titles |-> [c \in DOMAIN store.titles \ {conv} |-> store.titles[c]],
   msgs   |-> [store.msgs EXCEPT ![conv] = << >>]]

(* Mutant: the conversation is not looked up. *)
MutSaveUnchecked(store, conv) == TRUE
(* ErrNotFound in memory, the foreign key in Postgres. *)
CanSaveMessage(store, conv) == ConversationExists(store, conv)

SaveMessageMemory(store, conv, message) ==
  [store EXCEPT !.msgs[conv] = Append(@, message)]

(* INSERT ... ON CONFLICT (id) DO UPDATE: a row with the id keeps its role and
   its place, and takes the new text and mode. *)
SaveMessagePostgres(store, conv, message) ==
  LET same == {i \in DOMAIN store.msgs[conv] :
                 store.msgs[conv][i].id = message.id}
  IN  IF same = {}
        THEN [store EXCEPT !.msgs[conv] = Append(@, message)]
        ELSE [store EXCEPT !.msgs[conv] =
                [i \in DOMAIN @ |->
                   IF i \in same
                     THEN [@[i] EXCEPT !.text = message.text, !.mode = message.mode]
                     ELSE @[i]]]

SaveMessage(backend, store, conv, message) ==
  IF backend = "memory" THEN SaveMessageMemory(store, conv, message)
                        ELSE SaveMessagePostgres(store, conv, message)

(* The last `limit` messages, oldest first. *)
GetMessagesMemory(store, conv, limit) ==
  LET all == store.msgs[conv]
      n   == IF limit = 0 \/ limit > Len(all) THEN Len(all) ELSE limit
  IN  SubSeq(all, Len(all) - n + 1, Len(all))

GetMessagesPostgres(store, conv, limit) ==
  LET all == store.msgs[conv]
  IN  IF limit >= Len(all) THEN all ELSE SubSeq(all, Len(all) - limit + 1, Len(all))

GetMessages(backend, store, conv, limit) ==
  IF backend = "memory" THEN GetMessagesMemory(store, conv, limit)
                        ELSE GetMessagesPostgres(store, conv, limit)

(* deriveLastRouteMode: the mode of the last message that has one. *)
LastModeOf(messages) ==
  LET moded == SelectSeq(messages, LAMBDA m : m.mode # "")
  IN  IF moded = << >> THEN "" ELSE moded[Len(moded)].mode

(* GetLastRouteMode looks at every message, ErrNotFound standing for "". *)
GetLastRouteMode(store, conv) == LastModeOf(store.msgs[conv])
=============================================================================

---------------------------- MODULE SemanticCache ----------------------------
(***************************************************************************)
(* The semantic cache of chat completions (experimental/semantic_cache and *)
(* semantic_cache_integration.py under src/vllm_router/): requests that    *)
(* are looked up and answered or forwarded, responses that are stored, and *)
(* the two files that the FAISS adapter keeps, across crashes.             *)
(*                                                                         *)
(* A conversation is a number, and its embedding is that number: two are   *)
(* similar when they are at most a tolerance apart, the default one or the *)
(* request's own.  A search or a store awaits nothing, so other requests   *)
(* see neither half done; a crash does.                                    *)
(***************************************************************************)
EXTENDS Integers, Sequences

CONSTANTS Chats,                \* request ids
          Conversations,        \* a set of numbers
          LLMs,                 \* model names
          Wordless,             \* the conversation without messages
          Tolerances,           \* the default and those that requests ask for
          MaxCrashes,           \* bound: crashes
          MaxWriteErrors        \* bound: file operations that fail

VARIABLES index, metadata,              \* of FAISSAdapter, in memory
          index_file, metadata_file,    \* what is on disk
          cacheProcess,                 \* down, loading (the save of __init__) or up
          saving,                       \* the step save_index is about to take
          chat,                         \* request id |-> its state
          crashes, writeErrors,
          interrupted                   \* history: a save wrote the index and not the metadata

semVars == <<index, metadata, index_file, metadata_file, cacheProcess, saving, chat, crashes,
             writeErrors, interrupted>>

\* A file is the set of the list it holds, empty when it is absent or unreadable.
Unreadable == {}

TheList(file) == CHOOSE list \in file : TRUE

Entries == [conversation : Conversations, model : LLMs, ok : BOOLEAN]

Quiet == [pc |-> "new"]

SemInit ==
  /\ index = <<>> /\ metadata = <<>>
  /\ index_file = Unreadable /\ metadata_file = Unreadable
  /\ cacheProcess = "down" /\ saving = "no"
  /\ chat = [c \in Chats |-> Quiet]
  /\ crashes = 0 /\ writeErrors = 0 /\ interrupted = FALSE

-----------------------------------------------------------------------------
(* FAISSAdapter *)

Distance(x, y) == IF x < y THEN y - x ELSE x - y

\* The positions IndexFlatIP.search may return first.
Nearest(x) ==
  {i \in DOMAIN index : \A j \in DOMAIN index : Distance(index[i], x) <= Distance(index[j], x)}

\* The entries search() can come to, before its filter on the model.
Found(x, t) == {i \in Nearest(x) : Distance(index[i], x) <= t}

Readable == index_file # Unreadable /\ metadata_file # Unreadable

\* __init__ and load_index: both files or neither; then save_index.  The save that
\* load_index makes of an empty index is repeated by __init__ and is one with it.
FAISSAdapter ==
  /\ cacheProcess = "down"
  /\ cacheProcess' = "loading" /\ saving' = "index"
  /\ index' = IF Readable THEN TheList(index_file) ELSE <<>>
  /\ metadata' = IF Readable THEN TheList(metadata_file) ELSE <<>>
  /\ UNCHANGED <<index_file, metadata_file, chat, crashes, writeErrors, interrupted>>

Saved == saving' = "no" /\ cacheProcess' = "up"

\* save_index: a write that fails leaves the old file or none that can be read,
\* and is logged; the metadata is then not written either.
WriteIndex ==
  /\ saving = "index"
  /\ \/ /\ index_file' = {index} /\ saving' = "metadata"
        /\ UNCHANGED <<cacheProcess, writeErrors>>
     \/ /\ writeErrors < MaxWriteErrors /\ writeErrors' = writeErrors + 1
        /\ index_file' \in {index_file, Unreadable}
        /\ Saved
  /\ UNCHANGED <<index, metadata, metadata_file, chat, crashes, interrupted>>

WriteMetadata ==
  /\ saving = "metadata"
  /\ \/ /\ metadata_file' = {metadata}
        /\ UNCHANGED <<writeErrors, interrupted>>
     \/ /\ writeErrors < MaxWriteErrors /\ writeErrors' = writeErrors + 1
        /\ metadata_file' \in {metadata_file, Unreadable}
        /\ interrupted' = TRUE
  /\ Saved
  /\ UNCHANGED <<index, metadata, index_file, chat, crashes>>

\* The process ends, perhaps in the middle of a write.
Crash ==
  /\ cacheProcess # "down" /\ crashes < MaxCrashes
  /\ crashes' = crashes + 1
  /\ cacheProcess' = "down" /\ saving' = "no"
  /\ index' = <<>> /\ metadata' = <<>>
  /\ index_file' \in {index_file} \cup (IF saving = "index" THEN {Unreadable} ELSE {})
  /\ metadata_file' \in {metadata_file} \cup (IF saving = "metadata" THEN {Unreadable} ELSE {})
  /\ interrupted' = (interrupted \/ saving = "metadata")
  /\ chat' = [c \in Chats |-> IF chat[c].pc = "forwarded" THEN Quiet ELSE chat[c]]
  /\ UNCHANGED writeErrors

-----------------------------------------------------------------------------
(* The handlers *)

\* FAISSAdapter.store: both lists grow, then save_index.
store(x, entry) ==
  /\ index' = Append(index, x) /\ metadata' = Append(metadata, entry)
  /\ saving' = "index"

\* A cache hit, a lookup that raises, or a miss.
LookupResults_any_model(x, m, t) ==
  {[pc |-> "hit", conversation |-> x, model |-> m, tolerance |-> t, entry |-> metadata[i]] :
     i \in Found(x, t) \cap DOMAIN metadata}
  \cup (IF Found(x, t) \ DOMAIN metadata # {} THEN {[pc |-> "raised"]} ELSE {})
  \cup (IF Found(x, t) = {} THEN {[pc |-> "miss"]} ELSE {})

LookupResults(x, m, t) ==
  {[pc |-> "hit", conversation |-> x, model |-> m, tolerance |-> t, entry |-> metadata[i]] :
     i \in {j \in Found(x, t) \cap DOMAIN metadata : metadata[j].model = m}}
  \cup (IF Found(x, t) \ DOMAIN metadata # {} THEN {[pc |-> "raised"]} ELSE {})
  \cup (IF Found(x, t) = {} \/ \E j \in Found(x, t) \cap DOMAIN metadata : metadata[j].model # m
        THEN {[pc |-> "miss"]} ELSE {})

\* route_chat_completion and check_semantic_cache; a miss or a request that skips
\* the cache goes to an engine.  Without messages there is no lookup, but what the
\* engine answers is stored.
CheckCache(c) ==
  /\ cacheProcess = "up" /\ saving = "no" /\ chat[c] = Quiet
  /\ \E x \in Conversations, m \in LLMs, t \in Tolerances, mode \in {"plain", "stream", "skip"} :
       \E found \in (IF mode = "skip" \/ x = Wordless THEN {[pc |-> "miss"]}
                    ELSE LookupResults(x, m, t)) :
         chat' = [chat EXCEPT ![c] =
                    IF found.pc = "miss"
                    THEN [pc |-> "forwarded", conversation |-> x, model |-> m, stores |-> mode = "plain"]
                    ELSE found]
  /\ UNCHANGED <<index, metadata, index_file, metadata_file, cacheProcess, saving, crashes, writeErrors,
                 interrupted>>

\* The response is complete, and JSON; its status is not looked at, so that an
\* engine's error (~ok) is stored as a response without messages.
store_in_semantic_cache(c, ok) ==
  /\ cacheProcess = "up" /\ saving = "no" /\ chat[c].pc = "forwarded" /\ chat[c].stores
  /\ store(chat[c].conversation,
           [conversation |-> chat[c].conversation, model |-> chat[c].model, ok |-> ok])
  /\ chat' = [chat EXCEPT ![c] = [pc |-> "answered"]]
  /\ UNCHANGED <<index_file, metadata_file, cacheProcess, crashes, writeErrors, interrupted>>

\* The response breaks off, is not JSON, streams, or the client asked to skip.
NotStored(c) ==
  /\ cacheProcess = "up" /\ saving = "no" /\ chat[c].pc = "forwarded"
  /\ chat' = [chat EXCEPT ![c] = [pc |-> "answered"]]
  /\ UNCHANGED <<index, metadata, index_file, metadata_file, cacheProcess, saving, crashes, writeErrors,
                 interrupted>>

SemDone ==
  /\ saving = "no" /\ cacheProcess = "up" /\ \A c \in Chats : chat[c].pc \notin {"new", "forwarded"}
  /\ UNCHANGED semVars

SemNext ==
  \/ FAISSAdapter \/ WriteIndex \/ WriteMetadata \/ Crash
  \/ \E c \in Chats : CheckCache(c) \/ NotStored(c)
  \/ \E c \in Chats, ok \in BOOLEAN : store_in_semantic_cache(c, ok)
  \/ SemDone

SemSpec == SemInit /\ [][SemNext]_semVars

-----------------------------------------------------------------------------
(* Properties *)

\* Unless some save has written the index and not the metadata, no lookup raises,
\* and a hit is the response to a conversation with the same model, as similar as
\* the request (or the default) wants it: other crashes and failing writes lose
\* entries but never mix them up.
HitsBelong ==
  interrupted \/
  \A c \in Chats :
    /\ chat[c].pc # "raised"
    /\ chat[c].pc = "hit" =>
         /\ Distance(chat[c].entry.conversation, chat[c].conversation) <= chat[c].tolerance
         /\ chat[c].entry.model = chat[c].model

\* Each response of an engine is stored at the position of its own embedding, and
\* a save leaves the files with what is in memory.
Aligned ==
  ~interrupted =>
    /\ Len(index) = Len(metadata) /\ \A i \in DOMAIN index : metadata[i].conversation = index[i]
    /\ cacheProcess = "up" /\ saving = "no" /\ writeErrors = 0 =>
         index_file = {index} /\ metadata_file = {metadata}

=============================================================================

--------------------------- MODULE CallbackHelper ---------------------------
(***************************************************************************)
(* CallbackHelper: the callbacks the application registers with a Channel. *)
(* A callback is a boost::variant over function signatures, and of these   *)
(* only the signature matters here: "id" takes the id of the connection,   *)
(* "idAndError" also the text of an error, "message" a message and a type, *)
(* "messageAlone" a message: a signature that no event is looked up with.  *)
(***************************************************************************)

CONSTANTS Unset     \* no callback is registered

VARIABLES callbacks

CallbackType == {"OnConnect", "OnDisconnect", "OnError", "OnMessage"}
Signature == {"id", "idAndError", "message", "messageAlone"}

TypeOK == callbacks \in [CallbackType -> Signature \cup {Unset}]

Init == callbacks = [type \in CallbackType |-> Unset]

\* set(type, cb, overwrite): a second callback only replaces the first if asked to.
Set(type, cb, overwrite) ==
    callbacks' = IF callbacks[type] = Unset \/ overwrite
                 THEN [callbacks EXCEPT ![type] = cb] ELSE callbacks

\* clear(type) and clear()
Clear(type) == callbacks' = [callbacks EXCEPT ![type] = Unset]
ClearAll == callbacks' = [type \in CallbackType |-> Unset]

\* boost::get<signature>(get(type)) and the call. get throws a runtime_error that
\* the Channel swallows; the bad_get of a wrong signature is not one.
Swallowed(type) == callbacks[type] = Unset
Called(type, signature) == callbacks[type] = signature
BadGet(type, signature) == callbacks[type] \notin {Unset, signature}
=============================================================================

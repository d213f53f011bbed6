---------------------------- MODULE KmsEnvelope -----------------------------
(***************************************************************************)
(* KmsEncryptionPlugin (src/plugin/kms_encryption.ts): process() asks the  *)
(* provider for a data key and writes a PXKM envelope, reverse() has the   *)
(* key of an envelope decrypted and opens it.  A call waits for the        *)
(* provider under a timer and the caller's signal; a provider that answers *)
(* late still hands over a plaintext key.                                  *)
(*                                                                         *)
(* An envelope is the record of what reverse() looks at: its format, its   *)
(* length, the two length fields, whether version and algorithm are known, *)
(* and whether the bytes are those that were authenticated.  Lengths are   *)
(* scaled down.                                                            *)
(***************************************************************************)
EXTENDS Integers, FiniteSets

CONSTANTS
    Calls,        \* call identifiers
    DataSizes,    \* bound: lengths of the data of process()
    KeySizes,     \* bound: lengths of the encrypted keys a provider returns
    Limits,       \* [maxInputBytes, maxOutputBytes, maxKmsEncryptedKeyBytes, maxKmsKeyIdBytes]
    KeyIdBytes,   \* length of the key identifier
    Timed,        \* calls with operationTimeoutMs > 0
    WithSignal,   \* calls with a caller's signal
    Supported,    \* Supported[c]: the operations its provider implements and does not disable
    AllowLegacy   \* allowLegacyDecrypt === true

ASSUME KmsAssumption ==
    /\ DataSizes \subseteq Nat /\ KeySizes \subseteq Nat /\ KeyIdBytes \in Nat
    /\ Limits \in [maxInputBytes : Nat, maxOutputBytes : Nat,
                   maxKmsEncryptedKeyBytes : Nat, maxKmsKeyIdBytes : Nat]  \* checked by setLimits
    /\ Timed \subseteq Calls /\ WithSignal \subseteq Calls
    /\ \A c \in Calls : "generateDataKey" \in Supported[c]   \* checked by the constructor
    /\ AllowLegacy \in BOOLEAN

VARIABLES
    pc,         \* "idle", "calling", "resolved", "rejected", "ok" or "failed"
    request,    \* what the call is about: [op, size] or [op, envelope]
    signal,     \* "live", "aborted" or "timeout": the reason of the first abort
    timer,      \* whether the provider timer is running
    promise,    \* the provider's promise: "none", "pending" or "settled"
    value,      \* what it was fulfilled with: [key, size]
    plaintext,  \* the plaintext key the process holds: "none", "live", "erased"
    answer,     \* why the call ended
    written     \* the envelopes process() has returned

vars == <<pc, request, signal, timer, promise, value, plaintext, answer, written>>

FIXED_HEADER_LENGTH == 3   \* 28 in the code
TAG_LENGTH          == 2   \* 16
LEGACY_LENGTH       == 4   \* 32: length field, IV and tag
MAGIC_LENGTH        == 2   \* 4

Done == {"ok", "failed"}

\* pluginInputLimit: a plugin also reads what the plugin before it wrote.
PluginInputLimit ==
    IF Limits.maxInputBytes > Limits.maxOutputBytes THEN Limits.maxInputBytes ELSE Limits.maxOutputBytes

Nothing == [key |-> "none", size |-> 0]

Init ==
    /\ pc        = [c \in Calls |-> "idle"]
    /\ request   = [c \in Calls |-> [op |-> "none"]]
    /\ signal    = [c \in Calls |-> "live"]
    /\ timer     = [c \in Calls |-> FALSE]
    /\ promise   = [c \in Calls |-> "none"]
    /\ value     = [c \in Calls |-> Nothing]
    /\ plaintext = [c \in Calls |-> "none"]
    /\ answer    = [c \in Calls |-> "none"]
    /\ written   = {}

(***************************************************************************)
(* Envelopes.                                                              *)
(***************************************************************************)

Envelope(size, keySize) ==
    [format |-> "framed", length |-> FIXED_HEADER_LENGTH + keySize + size + TAG_LENGTH,
     keyLen |-> keySize, textLen |-> size, known |-> TRUE, authentic |-> TRUE]

Legacy(size, keySize) ==
    [format |-> "legacy", length |-> LEGACY_LENGTH + keySize + size,
     keyLen |-> keySize, textLen |-> size, known |-> TRUE, authentic |-> TRUE]

\* Damage on the way: cut off, changed fields, other bytes.  Without its whole
\* magic an envelope is not framed; without any byte it is empty.
Damaged(e) ==
    {[d EXCEPT !.authentic = FALSE] : d \in
        {e, [e EXCEPT !.known = FALSE], [e EXCEPT !.keyLen = 0],
         [e EXCEPT !.textLen = @ + 1], [e EXCEPT !.keyLen = @ + 1, !.textLen = @ - 1]}
        \cup {[e EXCEPT !.length = n,
                        !.format = IF n = 0 THEN "empty" ELSE IF n < MAGIC_LENGTH THEN "partial" ELSE @] :
                n \in 0 .. e.length - 1}}

\* What reverse() can be given.
Packets ==
    written \cup UNION {Damaged(e) : e \in written}
    \cup {Legacy(n, k) : n \in DataSizes, k \in KeySizes}

\* The checks of process() before the provider is called.
MayEncrypt(size) ==
    /\ KeyIdBytes <= Limits.maxKmsKeyIdBytes
    /\ size <= PluginInputLimit
    /\ size <= Limits.maxOutputBytes - (FIXED_HEADER_LENGTH + 1 + TAG_LENGTH)

\* The checks of reverse() before the provider is called.  The text of a
\* legacy packet is what follows its fields.
MayDecrypt(e) ==
    /\ KeyIdBytes <= Limits.maxKmsKeyIdBytes
    /\ e.length <= PluginInputLimit
    /\ e.format \notin {"empty", "partial"}
    /\ e.keyLen \in 1 .. Limits.maxKmsEncryptedKeyBytes
    /\ \/ /\ e.format = "framed"
          /\ e.length >= FIXED_HEADER_LENGTH + 1 + TAG_LENGTH
          /\ e.known
          /\ e.length = FIXED_HEADER_LENGTH + e.keyLen + e.textLen + TAG_LENGTH
          /\ e.textLen <= Limits.maxOutputBytes
       \/ /\ e.format = "legacy"
          /\ AllowLegacy
          /\ e.length >= LEGACY_LENGTH + e.keyLen
          /\ e.length - LEGACY_LENGTH - e.keyLen <= Limits.maxOutputBytes

(***************************************************************************)
(* callProvider, up to its await.                                          *)
(***************************************************************************)

Answer(c, with) ==
    /\ answer' = [answer EXCEPT ![c] = with]
    /\ pc' = [pc EXCEPT ![c] = IF with = "ok" THEN "ok" ELSE "failed"]

\* assertKmsOperation, providerControl, then the call.  The method may throw,
\* and the signal may abort while it runs: then its promise is only watched
\* for a late key.
CallProvider(c, operation) ==
    \/ /\ operation \notin Supported[c]
       /\ Answer(c, "unsupported")
       /\ UNCHANGED <<signal, timer, promise>>
    \/ /\ operation \in Supported[c]
       /\ signal[c] # "live"
       /\ Answer(c, signal[c])
       /\ UNCHANGED <<signal, timer, promise>>
    \/ /\ operation \in Supported[c]
       /\ signal[c] = "live"
       /\ \/ Answer(c, "provider") /\ UNCHANGED <<signal, timer, promise>>
          \/ /\ promise' = [promise EXCEPT ![c] = "pending"]
             /\ \/ /\ pc' = [pc EXCEPT ![c] = "calling"]
                   /\ timer' = [timer EXCEPT ![c] = c \in Timed]
                   /\ UNCHANGED <<signal, answer>>
                \/ /\ c \in WithSignal
                   /\ signal' = [signal EXCEPT ![c] = "aborted"]
                   /\ Answer(c, "aborted")
                   /\ UNCHANGED timer

Process(c, size) ==
    /\ pc[c] = "idle"
    /\ request' = [request EXCEPT ![c] = [op |-> "process", size |-> size]]
    /\ IF MayEncrypt(size) THEN CallProvider(c, "generateDataKey")
       ELSE Answer(c, "limit") /\ UNCHANGED <<signal, timer, promise>>
    /\ UNCHANGED <<value, plaintext, written>>

Reverse(c, e) ==
    /\ pc[c] = "idle"
    /\ request' = [request EXCEPT ![c] = [op |-> "reverse", envelope |-> e]]
    /\ IF "decrypt" \notin Supported[c] \/ MayDecrypt(e) THEN CallProvider(c, "decrypt")
       ELSE Answer(c, "invalid") /\ UNCHANGED <<signal, timer, promise>>
    /\ UNCHANGED <<value, plaintext, written>>

(***************************************************************************)
(* The promise and the abort listener (abortable).                         *)
(***************************************************************************)

ProviderFulfilsKept(c, v) ==
    /\ promise[c] = "pending"
    /\ promise' = [promise EXCEPT ![c] = "settled"]
    /\ value' = [value EXCEPT ![c] = v]
    /\ plaintext' = [plaintext EXCEPT ![c] = IF v.key = "none" THEN @ ELSE "live"]
    /\ pc' = [pc EXCEPT ![c] = IF @ = "calling" THEN "resolved" ELSE @]
    /\ UNCHANGED <<request, signal, timer, answer, written>>

\* A key that comes after the abort is erased at once (disposeLate).
ProviderFulfils(c, v) ==
    /\ promise[c] = "pending"
    /\ promise' = [promise EXCEPT ![c] = "settled"]
    /\ value' = [value EXCEPT ![c] = v]
    /\ plaintext' = [plaintext EXCEPT ![c] =
                       IF v.key = "none" THEN @ ELSE IF pc[c] = "calling" THEN "live" ELSE "erased"]
    /\ pc' = [pc EXCEPT ![c] = IF @ = "calling" THEN "resolved" ELSE @]
    /\ UNCHANGED <<request, signal, timer, answer, written>>

ProviderRejects(c) ==
    /\ promise[c] = "pending"
    /\ promise' = [promise EXCEPT ![c] = "settled"]
    /\ pc' = [pc EXCEPT ![c] = IF @ = "calling" THEN "rejected" ELSE @]
    /\ UNCHANGED <<request, signal, timer, value, plaintext, answer, written>>

AbortedUnheard(c, reason) ==
    /\ signal' = [signal EXCEPT ![c] = IF @ = "live" THEN reason ELSE @]
    /\ UNCHANGED <<pc, request, promise, value, plaintext, answer, written>>

\* onAbort: the wait for the provider ends.
Aborted(c, reason) ==
    /\ signal' = [signal EXCEPT ![c] = IF @ = "live" THEN reason ELSE @]
    /\ pc' = [pc EXCEPT ![c] = IF @ = "calling" THEN "rejected" ELSE @]
    /\ UNCHANGED <<request, promise, value, plaintext, answer, written>>

Abort(c) ==
    /\ c \in WithSignal
    /\ signal[c] = "live"
    /\ pc[c] \notin Done
    /\ Aborted(c, "aborted")
    /\ UNCHANGED timer

TimerFires(c) ==
    /\ timer[c]
    /\ timer' = [timer EXCEPT ![c] = FALSE]
    /\ Aborted(c, "timeout")

\* The catch block and finally of callProvider: an aborted signal wins over
\* the provider's error, which is replaced by a sanitized one.
Catch(c) ==
    /\ pc[c] = "rejected"
    /\ Answer(c, IF signal[c] # "live" THEN signal[c] ELSE "provider")
    /\ timer' = [timer EXCEPT ![c] = FALSE]
    /\ UNCHANGED <<request, signal, promise, value, plaintext, written>>

(***************************************************************************)
(* The rest of process() and reverse(), with their finally blocks.         *)
(***************************************************************************)

Finally(c, with) ==
    /\ Answer(c, with)
    /\ timer' = [timer EXCEPT ![c] = FALSE]
    /\ plaintext' = [plaintext EXCEPT ![c] = IF @ = "live" THEN "erased" ELSE @]
    /\ UNCHANGED <<request, signal, promise, value>>

KeyFitsUnbounded(size, keySize) ==
    /\ keySize >= 1
    /\ size <= Limits.maxOutputBytes - (FIXED_HEADER_LENGTH + keySize + TAG_LENGTH)

\* The encrypted key and the whole envelope are within the limits.
KeyFits(size, keySize) ==
    /\ keySize \in 1 .. Limits.maxKmsEncryptedKeyBytes
    /\ size <= Limits.maxOutputBytes - (FIXED_HEADER_LENGTH + keySize + TAG_LENGTH)

Encrypt(c) ==
    /\ pc[c] = "resolved" /\ request[c].op = "process"
    /\ LET good == value[c].key = "right" /\ KeyFits(request[c].size, value[c].size)
       IN  /\ Finally(c, IF good THEN "ok" ELSE "invalid")
           /\ written' = IF good THEN written \cup {Envelope(request[c].size, value[c].size)} ELSE written

\* Only the right key opens an authentic envelope.
Decrypt(c) ==
    /\ pc[c] = "resolved" /\ request[c].op = "reverse"
    /\ Finally(c, CASE value[c].key \in {"none", "short"} -> "provider"
                    [] value[c].key = "right" /\ request[c].envelope.authentic -> "ok"
                    [] OTHER -> "auth")
    /\ UNCHANGED written

\* What a provider may return: no Buffer, one of the wrong length, a key; for
\* decrypt also the key of another envelope.
Values(op) ==
    IF op = "process" THEN {[key |-> k, size |-> n] : k \in {"none", "short", "right"}, n \in KeySizes}
    ELSE {[key |-> k, size |-> 0] : k \in {"none", "short", "wrong", "right"}}

Next ==
    \E c \in Calls :
        \/ \E n \in DataSizes : Process(c, n)
        \/ \E e \in Packets : Reverse(c, e)
        \/ \E v \in Values(request[c].op) : ProviderFulfils(c, v)
        \/ ProviderRejects(c)
        \/ Abort(c)
        \/ TimerFires(c)
        \/ Catch(c)
        \/ Encrypt(c)
        \/ Decrypt(c)

\* Timers fire and continuations run; the provider may never answer.
Fairness ==
    \A c \in Calls : WF_vars(TimerFires(c)) /\ WF_vars(Catch(c)) /\ WF_vars(Encrypt(c)) /\ WF_vars(Decrypt(c))

Spec == Init /\ [][Next]_vars /\ Fairness

(***************************************************************************)
(* Properties.                                                             *)
(***************************************************************************)

\* docs/enterprise.md:230-232, PipeX "stops waiting at the deadline and clears
\* any plaintext data key returned later": a call that was answered holds no
\* plaintext key and no timer, whenever its key arrives (abortable, finally).
AnsweredIsClean ==
    \A c \in Calls : pc[c] \in Done => plaintext[c] # "live" /\ ~timer[c]

\* What process() wrote is never refused by reverse() under the same limits:
\* such a call ends with the text, or for a reason of the provider, the key or
\* the caller (minimumOverhead and maxKmsEncryptedKeyBytes on both sides).
EnvelopeReadable ==
    \A c \in Calls :
        request[c].op = "reverse" /\ request[c].envelope \in written => answer[c] # "invalid"

\* A call is answered although the provider never answers, when it has a
\* timeout or its signal aborts (providerControl, abortable).
CallAnswered ==
    \A c \in Calls : (pc[c] = "calling" /\ (c \in Timed \/ signal[c] # "live")) ~> pc[c] \in Done
=============================================================================

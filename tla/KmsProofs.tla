----------------------------- MODULE KmsProofs ------------------------------
(***************************************************************************)
(* Proofs about KmsEnvelope, for any number of calls, any limits and any   *)
(* sizes of data and keys.                                                 *)
(***************************************************************************)
EXTENDS KmsEnvelope, TLAPS

Waiting == {"calling", "resolved", "rejected"}

\* The state has the shape Init gives it.
CallsTypeOK ==
    /\ pc        \in [Calls -> {"idle"} \cup Waiting \cup Done]
    /\ signal    \in [Calls -> {"live", "aborted", "timeout"}]
    /\ timer     \in [Calls -> BOOLEAN]
    /\ promise   \in [Calls -> {"none", "pending", "settled"}]
    /\ plaintext \in [Calls -> {"none", "live", "erased"}]
    /\ DOMAIN request = Calls /\ DOMAIN value = Calls /\ DOMAIN answer = Calls

(***************************************************************************)
(* The inductive invariant.  That an answered call is clean depends on     *)
(* where a plaintext key may live at all; that envelopes are readable      *)
(* depends on the checks that were made before the provider was called.    *)
(***************************************************************************)

\* A plaintext key lives only between its arrival in time and the finally
\* block, and a timer only while the call is under way.
Held(c) ==
    /\ plaintext[c] = "live" => pc[c] = "resolved"
    /\ timer[c] => pc[c] \in Waiting

\* The provider was called for data that passed the checks of process().
Checked(c) ==
    pc[c] \in Waiting /\ request[c].op = "process" =>
        request[c].size \in DataSizes /\ MayEncrypt(request[c].size)

\* Only what fails the checks of reverse() is answered as invalid.
Refused(c) ==
    /\ pc[c] \notin Done => answer[c] = "none"
    /\ request[c].op = "reverse" /\ answer[c] = "invalid" => ~MayDecrypt(request[c].envelope)

CallInv(c) == Held(c) /\ Checked(c) /\ Refused(c)

\* Whatever process() returned passes the checks of reverse().
Readable == \A e \in written : MayDecrypt(e)

IInv == CallsTypeOK /\ Readable /\ \A c \in Calls : CallInv(c)

(***************************************************************************)
(* Envelopes.                                                              *)
(***************************************************************************)

\* An envelope that process() may write passes the checks of reverse() under
\* the same limits: the minimum overhead and the key bound agree.
LEMMA WrittenIsReadable ==
    ASSUME NEW size \in DataSizes, NEW keySize, MayEncrypt(size), KeyFits(size, keySize)
    PROVE  MayDecrypt(Envelope(size, keySize))
  <1> DEFINE e == Envelope(size, keySize)
  <1>1. size \in Nat /\ keySize \in Nat /\ keySize >= 1
    BY KmsAssumption DEF KeyFits
  <1>2. /\ e.format = "framed" /\ e.known /\ e.keyLen = keySize /\ e.textLen = size
        /\ e.length = FIXED_HEADER_LENGTH + keySize + size + TAG_LENGTH
    BY DEF Envelope
  <1>3. Limits.maxOutputBytes <= PluginInputLimit /\ PluginInputLimit \in Nat
    BY KmsAssumption DEF PluginInputLimit
  <1>4. e.length <= Limits.maxOutputBytes /\ size <= Limits.maxOutputBytes
    BY <1>1, <1>2, KmsAssumption DEF KeyFits, FIXED_HEADER_LENGTH, TAG_LENGTH
  <1>5. e.length >= FIXED_HEADER_LENGTH + 1 + TAG_LENGTH /\ e.length \in Nat
    BY <1>1, <1>2 DEF FIXED_HEADER_LENGTH, TAG_LENGTH
  <1>6. e.length <= PluginInputLimit
    BY <1>3, <1>4, <1>5, KmsAssumption
  <1>7. keySize \in 1 .. Limits.maxKmsEncryptedKeyBytes /\ KeyIdBytes <= Limits.maxKmsKeyIdBytes
    BY DEF KeyFits, MayEncrypt
  <1> HIDE DEF e
  <1>8. MayDecrypt(e)
    BY <1>2, <1>4, <1>5, <1>6, <1>7 DEF MayDecrypt
  <1>9. QED
    BY <1>8 DEF e

(***************************************************************************)
(* The steps.                                                              *)
(***************************************************************************)

\* A step of one call: process() or reverse() starts, the provider answers,
\* the caller or the timer aborts, or the call continues.
StepOf(c) ==
    \/ \E n \in DataSizes : Process(c, n)
    \/ \E e \in Packets : Reverse(c, e)
    \/ \E v \in Values(request[c].op) : ProviderFulfils(c, v)
    \/ ProviderRejects(c)
    \/ Abort(c)
    \/ TimerFires(c)
    \/ Catch(c)
    \/ Encrypt(c)
    \/ Decrypt(c)

\* What a step leaves alone of a call that does not take it.
Same(q) ==
    /\ pc'[q] = pc[q] /\ request'[q] = request[q] /\ timer'[q] = timer[q]
    /\ plaintext'[q] = plaintext[q] /\ answer'[q] = answer[q]

\* Calls do not disturb each other.
LEMMA OthersSame ==
    ASSUME CallsTypeOK, NEW c \in Calls, NEW q \in Calls \ {c}, StepOf(c)
    PROVE  Same(q)
  <1> USE DEF CallsTypeOK, Same, Answer
  <1>1. ASSUME NEW n, Process(c, n) PROVE Same(q)
    BY <1>1 DEF Process, CallProvider
  <1>2. ASSUME NEW e, Reverse(c, e) PROVE Same(q)
    BY <1>2 DEF Reverse, CallProvider
  <1>3. ASSUME NEW v, ProviderFulfils(c, v) PROVE Same(q)
    BY <1>3 DEF ProviderFulfils
  <1>4. CASE ProviderRejects(c)
    BY <1>4 DEF ProviderRejects
  <1>5. CASE Abort(c)
    BY <1>5 DEF Abort, Aborted
  <1>6. CASE TimerFires(c)
    BY <1>6 DEF TimerFires, Aborted
  <1>7. CASE Catch(c)
    BY <1>7 DEF Catch
  <1>8. CASE Encrypt(c)
    BY <1>8 DEF Encrypt, Finally
  <1>9. CASE Decrypt(c)
    BY <1>9 DEF Decrypt, Finally
  <1>10. QED
    BY <1>1, <1>2, <1>3, <1>4, <1>5, <1>6, <1>7, <1>8, <1>9 DEF StepOf

\* The call of the provider starts from a call that holds nothing; it answers
\* for a reason of its own or waits.
LEMMA CallProviderStep ==
    ASSUME CallsTypeOK, NEW c \in Calls, NEW operation, CallProvider(c, operation),
           pc[c] = "idle", Held(c), Refused(c), UNCHANGED plaintext
    PROVE  /\ pc'     \in [Calls -> {"idle"} \cup Waiting \cup Done]
           /\ signal' \in [Calls -> {"live", "aborted", "timeout"}]
           /\ timer'  \in [Calls -> BOOLEAN]
           /\ promise' \in [Calls -> {"none", "pending", "settled"}]
           /\ DOMAIN answer' = Calls
           /\ Held(c)'
           /\ answer'[c] # "invalid"
           /\ pc'[c] \in {"calling"} \cup Done
           /\ pc'[c] = "calling" => answer'[c] = "none"
  <1> USE DEF CallsTypeOK, Held, Refused, Waiting, Done, Answer
  <1>1. CASE operation \notin Supported[c] /\ Answer(c, "unsupported") /\ UNCHANGED <<signal, timer, promise>>
    BY <1>1
  <1>2. CASE signal[c] # "live" /\ Answer(c, signal[c]) /\ UNCHANGED <<signal, timer, promise>>
    BY <1>2
  <1>3. CASE Answer(c, "provider") /\ UNCHANGED <<signal, timer, promise>>
    BY <1>3
  <1>4. CASE /\ promise' = [promise EXCEPT ![c] = "pending"]
             /\ pc' = [pc EXCEPT ![c] = "calling"]
             /\ timer' = [timer EXCEPT ![c] = c \in Timed]
             /\ UNCHANGED <<signal, answer>>
    <2>1. timer' \in [Calls -> BOOLEAN]
      <3>1. \A b \in BOOLEAN : [timer EXCEPT ![c] = b] \in [Calls -> BOOLEAN]
        OBVIOUS
      <3>2. (c \in Timed) \in BOOLEAN
        OBVIOUS
      <3>3. QED
        BY <1>4, <3>1, <3>2, Zenon
    <2>2. pc'[c] = "calling" /\ plaintext'[c] = plaintext[c] /\ answer'[c] = "none"
      BY <1>4
    <2>3. Held(c)'
      BY <2>2
    <2>4. /\ pc' \in [Calls -> {"idle"} \cup Waiting \cup Done]
          /\ promise' \in [Calls -> {"none", "pending", "settled"}]
      BY <1>4
    <2>5. QED
      BY <1>4, <2>1, <2>2, <2>3, <2>4
  <1>5. CASE /\ promise' = [promise EXCEPT ![c] = "pending"]
             /\ signal' = [signal EXCEPT ![c] = "aborted"]
             /\ Answer(c, "aborted")
             /\ UNCHANGED timer
    BY <1>5
  <1>6. QED
    BY <1>1, <1>2, <1>3, <1>4, <1>5 DEF CallProvider

\* Every step of a call preserves its own part of the invariant, the shape of
\* the state, and the readability of the envelopes.
LEMMA OwnStep ==
    ASSUME CallsTypeOK, Readable, NEW c \in Calls, CallInv(c), StepOf(c)
    PROVE  CallsTypeOK' /\ Readable' /\ CallInv(c)'
  <1> DEFINE Goal == CallsTypeOK' /\ Readable' /\ CallInv(c)'
  <1> USE DEF CallInv
  <1>0. ASSUME UNCHANGED written PROVE Readable'
    BY <1>0 DEF Readable, MayDecrypt, PluginInputLimit
  <1>1. ASSUME NEW n \in DataSizes, Process(c, n) PROVE Goal
    <2>1. /\ pc[c] = "idle" /\ request'[c] = [op |-> "process", size |-> n]
          /\ DOMAIN request' = Calls
          /\ UNCHANGED <<value, plaintext, written>>
      BY <1>1 DEF Process, CallsTypeOK
    <2>2. request'[c].op = "process" /\ request'[c].size = n
      BY <2>1
    <2>3. CASE MayEncrypt(n) /\ CallProvider(c, "generateDataKey")
      <3>1. Checked(c)'
        BY <2>2, <2>3 DEF Checked, MayEncrypt, PluginInputLimit
      <3>2. QED
        BY <1>0, <2>1, <2>2, <2>3, <3>1, CallProviderStep DEF CallsTypeOK, Refused, Done
    <2>4. CASE Answer(c, "limit") /\ UNCHANGED <<signal, timer, promise>>
      <3>1. CallsTypeOK' /\ Held(c)' /\ Checked(c)' /\ Refused(c)'
        BY <2>1, <2>2, <2>4 DEF Answer, CallsTypeOK, Held, Checked, Refused, Waiting, Done
      <3>2. QED
        BY <1>0, <2>1, <3>1
    <2>5. QED
      BY <1>1, <2>3, <2>4 DEF Process
  <1>2. ASSUME NEW e \in Packets, Reverse(c, e) PROVE Goal
    <2>1. /\ pc[c] = "idle" /\ request'[c] = [op |-> "reverse", envelope |-> e]
          /\ DOMAIN request' = Calls
          /\ UNCHANGED <<value, plaintext, written>>
      BY <1>2 DEF Reverse, CallsTypeOK
    <2>2. request'[c].op = "reverse" /\ request'[c].envelope = e
      BY <2>1
    <2>3. Checked(c)'
      BY <2>2 DEF Checked
    <2>4. CASE CallProvider(c, "decrypt")
      BY <1>0, <2>1, <2>3, <2>4, CallProviderStep DEF CallsTypeOK, Refused, Done
    <2>5. CASE ~MayDecrypt(e) /\ Answer(c, "invalid") /\ UNCHANGED <<signal, timer, promise>>
      <3>1. CallsTypeOK' /\ Held(c)'
        BY <2>1, <2>5 DEF Answer, CallsTypeOK, Held, Waiting, Done
      <3>2. Refused(c)'
        BY <2>2, <2>5 DEF Refused, Answer, CallsTypeOK, Done, MayDecrypt, PluginInputLimit
      <3>3. QED
        BY <1>0, <2>1, <2>3, <3>1, <3>2
    <2>6. QED
      BY <1>2, <2>4, <2>5 DEF Reverse
  <1>3. ASSUME NEW v, ProviderFulfils(c, v) PROVE Goal
    <2>1. CallsTypeOK' /\ Held(c)' /\ Checked(c)' /\ Refused(c)'
      BY <1>3 DEF ProviderFulfils, CallsTypeOK, Held, Checked, Refused, Waiting, Done,
                  MayEncrypt, MayDecrypt, PluginInputLimit
    <2>2. QED
      BY <1>0, <1>3, <2>1 DEF ProviderFulfils
  <1>4. CASE ProviderRejects(c)
    <2>1. CallsTypeOK' /\ Held(c)' /\ Checked(c)' /\ Refused(c)'
      BY <1>4 DEF ProviderRejects, CallsTypeOK, Held, Checked, Refused, Waiting, Done,
                  MayEncrypt, MayDecrypt, PluginInputLimit
    <2>2. QED
      BY <1>0, <1>4, <2>1 DEF ProviderRejects
  <1>5. ASSUME NEW reason \in {"aborted", "timeout"}, Aborted(c, reason),
               timer' \in [Calls -> BOOLEAN], timer'[c] => timer[c]
        PROVE  Goal
    <2>1. CallsTypeOK' /\ Held(c)' /\ Checked(c)' /\ Refused(c)'
      BY <1>5 DEF Aborted, CallsTypeOK, Held, Checked, Refused, Waiting, Done,
                  MayEncrypt, MayDecrypt, PluginInputLimit
    <2>2. QED
      BY <1>0, <1>5, <2>1 DEF Aborted
  <1>6. CASE Abort(c)
    BY <1>5, <1>6 DEF Abort, CallsTypeOK
  <1>7. CASE TimerFires(c)
    <2>1. timer' \in [Calls -> BOOLEAN] /\ ~timer'[c]
      BY <1>7 DEF TimerFires, CallsTypeOK
    <2>2. QED
      BY <1>5, <1>7, <2>1 DEF TimerFires
  <1>8. CASE Catch(c)
    <2>1. CallsTypeOK' /\ Held(c)' /\ Checked(c)' /\ Refused(c)'
      BY <1>8 DEF Catch, Answer, CallsTypeOK, Held, Checked, Refused, Waiting, Done
    <2>2. QED
      BY <1>0, <1>8, <2>1 DEF Catch
  <1>9. ASSUME NEW with, Finally(c, with), with = "invalid" => request[c].op # "reverse"
        PROVE  CallsTypeOK' /\ CallInv(c)'
    BY <1>9 DEF Finally, Answer, CallsTypeOK, Held, Checked, Refused, Waiting, Done
  <1>10. CASE Encrypt(c)
    <2> DEFINE good == value[c].key = "right" /\ KeyFits(request[c].size, value[c].size)
    <2>1. /\ pc[c] = "resolved" /\ request[c].op = "process"
          /\ Finally(c, IF good THEN "ok" ELSE "invalid")
          /\ written' = IF good THEN written \cup {Envelope(request[c].size, value[c].size)} ELSE written
      BY <1>10 DEF Encrypt
    <2>2. Readable'
      <3>1. good => MayDecrypt(Envelope(request[c].size, value[c].size))
        BY <2>1, WrittenIsReadable DEF Checked, Waiting
      <3>2. \A e \in written' : MayDecrypt(e)
        BY <2>1, <3>1 DEF Readable
      <3>3. QED
        BY <3>2 DEF Readable, MayDecrypt, PluginInputLimit
    <2>3. CallsTypeOK' /\ CallInv(c)'
      BY <1>9, <2>1
    <2>4. QED
      BY <2>2, <2>3
  <1>11. CASE Decrypt(c)
    <2>1. PICK with \in {"provider", "ok", "auth"} : Finally(c, with)
      BY <1>11 DEF Decrypt
    <2>2. CallsTypeOK' /\ CallInv(c)'
      BY <1>9, <2>1
    <2>3. QED
      BY <1>0, <1>11, <2>2 DEF Decrypt
  <1>12. QED
    BY <1>1, <1>2, <1>3, <1>4, <1>6, <1>7, <1>8, <1>10, <1>11 DEF StepOf

\* The inductive invariant holds in every reachable state.
THEOREM Invariance == Spec => []IInv
  <1>1. Init => IInv
    BY DEF Init, IInv, CallsTypeOK, Readable, CallInv, Held, Checked, Refused, Waiting, Done
  <1>2. IInv /\ [Next]_vars => IInv'
    <2> SUFFICES ASSUME IInv, [Next]_vars PROVE IInv'
      OBVIOUS
    <2>1. ASSUME NEW q \in Calls, Same(q) PROVE CallInv(q)'
      BY <2>1 DEF IInv, Same, CallInv, Held, Checked, Refused, MayEncrypt, MayDecrypt,
                  PluginInputLimit
    <2>2. CASE UNCHANGED vars
      <3>1. \A q \in Calls : Same(q)
        BY <2>2 DEF vars, Same
      <3>2. CallsTypeOK' /\ Readable'
        BY <2>2 DEF vars, IInv, CallsTypeOK, Readable, MayDecrypt, PluginInputLimit
      <3>3. QED
        BY <2>1, <3>1, <3>2 DEF IInv
    <2>3. ASSUME NEW c \in Calls, StepOf(c) PROVE IInv'
      <3>1. CallsTypeOK' /\ Readable' /\ CallInv(c)'
        BY <2>3, OwnStep DEF IInv
      <3>2. \A q \in Calls \ {c} : CallInv(q)'
        BY <2>1, <2>3, OthersSame DEF IInv
      <3>3. QED
        BY <3>1, <3>2 DEF IInv
    <2>4. QED
      BY <2>2, <2>3 DEF Next, StepOf
  <1>3. QED
    BY <1>1, <1>2, PTL DEF Spec

\* A call that was answered holds no plaintext key and no timer, however late
\* the provider answers (abortable, disposeLate, finally).
THEOREM AnsweredCallIsClean == Spec => []AnsweredIsClean
  <1>1. IInv => AnsweredIsClean
    BY DEF IInv, CallInv, Held, AnsweredIsClean, Waiting, Done
  <1>2. QED
    BY <1>1, Invariance, PTL

\* reverse() never refuses as invalid what process() wrote under the same
\* limits, whatever the limits are.
THEOREM EnvelopeIsReadable == Spec => []EnvelopeReadable
  <1>1. IInv => EnvelopeReadable
    BY DEF IInv, CallInv, Refused, Readable, EnvelopeReadable
  <1>2. QED
    BY <1>1, Invariance, PTL
=============================================================================

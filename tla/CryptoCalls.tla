------------------------------- MODULE CryptoCalls -------------------------------
(***************************************************************************)
(* The calls that use the crypto engines: IOSC_Encrypt, IOSC_Decrypt and   *)
(* IOSC_GenerateBlockMAC of kernel/source/crypto/iosc.c, synchronous and   *)
(* asynchronous, hashes that a program asks /dev/sha for by itself, and    *)
(* keys that are deleted and made anew meanwhile.  Both engine threads     *)
(* have the highest priority, so a program runs only while both wait.      *)
(***************************************************************************)
EXTENDS ShaEngine, AesEngine

CONSTANTS
  Handle,   \* the handles of keys
  Owner,    \* who owns each at first
  Uses,     \* what each thread asks for, in each of some sets of programs
  Inputs,   \* the lengths of data that programs pass
  Verified, \* the lengths of data that are verified
  Customs,  \* the lengths of custom data
  MaxCalls, \* bound: how often each thread calls
  Remade,   \* the handles whose keys are deleted and made anew
  MaxKeys   \* bound: how often

VARIABLES
  token,   \* who has the token of the IOSC calls, or NULL
  keyring, \* the owner and the secret of each handle; NULL when deleted
  uses,    \* the programs there are
  secrets, \* bound: the keys made anew so far
  wanted,  \* ghost: the output and the next vector that an AES request is for
  calls    \* bound: the calls so far

callVars == <<token, keyring, uses, secrets, wanted, calls>>
vars == <<requestVars, shaVars, aesVars, callVars>>

Secret(h) == IF keyring[h] = NULL THEN NULL ELSE keyring[h].secret

Process == {By(m) : m \in Message}
Command == {"init", "contribute", "finalize"}
Use == {"mac", "plain", "hash", "verify", "encrypt", "decrypt", "copy"}

ASSUME CallsAssumption ==
  /\ Owner \in [Handle -> Process]
  /\ Uses \subseteq [Message -> SUBSET Use]
  /\ Inputs \subseteq Nat /\ Customs \subseteq Nat
  /\ Verified \subseteq {n \in Nat : n \div Block <= MaxBlocks}
  /\ MaxCalls \in [Message -> Nat]

Init ==
  /\ RequestsInit /\ ShaInit /\ AesInit
  /\ token = NULL
  /\ keyring = [h \in Handle |-> [owner |-> Owner[h], secret |-> <<"key", h>>]]
  /\ uses \in Uses
  /\ secrets = 0
  /\ wanted = [m \in Message |-> NULL]
  /\ calls = [m \in Message |-> 0]

-----------------------------------------------------------------------------
ProgramsRun == ShaBlocked /\ AesBlocked
Free(m, use) ==
  request[m] = NoRequest /\ ProgramsRun /\ calls[m] < MaxCalls[m] /\ use \in uses[m]
Units(m, before, n) == [i \in 1 .. n |-> <<"unit", Len(told[m].data) + before + i>>]
(* A program goes on with a hash that it has begun.                        *)
Begun(m, command) == command = "init" \/ told[m].sound
Submits(m, r) ==
  /\ request' = [request EXCEPT ![m] = r]
  /\ result' = [result EXCEPT ![m] = "busy"]
  /\ calls' = [calls EXCEPT ![m] = @ + 1]

(* The token is taken, the key is the program's own, and there is room for *)
(* the vectors; without, nothing is left behind.  A synchronous call keeps *)
(* the token until it has its result.                                      *)
\* mutant: the token goes back before the result is there
HoldsNothing(m) == token' = token
HoldsToken(m) == token' = IF Synchronous(m) THEN m ELSE token
Allowed(m, h) ==
  /\ token = NULL
  /\ keyring[h] # NULL /\ keyring[h].owner = By(m)
  /\ heap # Place
AllocateOnHeap(m) ==
  LET place == CHOOSE p \in Place \ heap : \A q \in Place \ heap : p <= q
  IN heap' = heap \cup {place} /\ piece' = [piece EXCEPT ![m] = place]
UNCHANGEDByCall == UNCHANGED <<lost, errors, ctx, answer, sha, hash, shaCmd, shaEvent,
                               iv, aes, aesCmd, aesEvent, keyring, uses, secrets>>

(* IOSC_GenerateBlockMAC and its Async.  The vector of the key points to   *)
(* a parameter of the call: the engine thread must look before it returns. *)
(* A command may also be one of a plain hash.                              *)
GenerateBlockMAC(m, h, kind, command, custom, input) ==
  /\ Free(m, kind) /\ Allowed(m, h)
  /\ Begun(m, command)
  /\ AllocateOnHeap(m)
  /\ HoldsToken(m)
  /\ Submits(m, [NoRequest EXCEPT !.kind = kind, !.command = command, !.handle = h,
                                  !.custom = Units(m, 0, custom),
                                  !.input = Units(m, custom, input),
                                  !.secret = Secret(h),
                                  !.hurried = ~ Synchronous(m) /\ sha.at # "wait"])
  /\ shaQueue' = Append(shaQueue, m)
  /\ UNCHANGEDByCall /\ UNCHANGED <<told, line, aesQueue, wanted>>

(* IOSC_Encrypt, IOSC_Decrypt and their Async.  The key is copied now.     *)
Crypt(m, h, command, dst) ==
  LET r == [NoRequest EXCEPT !.kind = "aes", !.command = command, !.secret = Secret(h),
                             !.src = "a", !.dst = dst]
      input == Data(line[m]["a"])
      output == Cipher(command, Secret(h), iv[m], input)
  IN /\ Free(m, command) /\ Allowed(m, h)
     /\ AllocateOnHeap(m)
     /\ HoldsToken(m)
     /\ Submits(m, r)
     /\ aesQueue' = Append(aesQueue, m)
     /\ wanted' = [wanted EXCEPT ![m] = [data |-> output,
                                         next |-> NextVector(command, iv[m], input, output)]]
     /\ UNCHANGEDByCall /\ UNCHANGED <<told, line, shaQueue>>

(* The program's own ioctlv of /dev/sha, or of /dev/aes for a copy: its    *)
(* vectors are its own memory.                                             *)
Hash(m, command, input) ==
  /\ Free(m, "hash") /\ Begun(m, command)
  /\ piece' = [piece EXCEPT ![m] = NULL]
  /\ Submits(m, [NoRequest EXCEPT !.kind = "sha", !.command = command,
                                  !.input = Units(m, 0, input)])
  /\ shaQueue' = Append(shaQueue, m)
  /\ UNCHANGEDByCall /\ UNCHANGED <<heap, token, told, line, aesQueue, wanted>>
Verify(m, n, tampered) ==
  LET claim(data, real) == [data |-> data, hash |-> Digest(real)]
      first == Units(m, 0, n)
      second == Units(m, n, n)
  IN /\ Free(m, "verify")
     /\ piece' = [piece EXCEPT ![m] = NULL]
     /\ Submits(m, [NoRequest EXCEPT !.kind = "verify", !.claims =
                       <<claim(first, first), claim(IF tampered THEN first ELSE second, second)>>])
     /\ shaQueue' = Append(shaQueue, m)
     /\ UNCHANGEDByCall /\ UNCHANGED <<heap, token, told, line, aesQueue, wanted>>
Copy(m) ==
  /\ Free(m, "copy")
  /\ piece' = [piece EXCEPT ![m] = NULL]
  /\ Submits(m, [NoRequest EXCEPT !.kind = "aes", !.command = "copy", !.src = "a", !.dst = "b"])
  /\ aesQueue' = Append(aesQueue, m)
  /\ wanted' = [wanted EXCEPT ![m] = [data |-> Data(line[m]["a"]), next |-> iv[m]]]
  /\ UNCHANGEDByCall /\ UNCHANGED <<heap, token, told, line, shaQueue>>

(* The result is there.  A synchronous call frees the vectors if it is an  *)
(* error, and gives back the token.                                        *)
FreesPieces(m) ==
  heap' = IF Synchronous(m) /\ result[m] = "failed" THEN heap \ {piece[m]} ELSE heap
Returns(m) ==
  /\ ProgramsRun
  /\ request[m] # NoRequest /\ result[m] # "busy"
  /\ FreesPieces(m)
  /\ token' = IF token = m THEN NULL ELSE token
  /\ request' = [request EXCEPT ![m] = NoRequest]
  /\ result' = [result EXCEPT ![m] = "none"]
  /\ wanted' = [wanted EXCEPT ![m] = NULL]
  /\ piece' = [piece EXCEPT ![m] = NULL]
  /\ told' = IF request[m].command = "finalize" THEN [told EXCEPT ![m] = NothingTold] ELSE told
  /\ answer' = [answer EXCEPT ![m] = << >>]
  /\ UNCHANGED <<lost, errors, ctx, sha, hash, shaCmd, shaEvent, shaQueue, aesVars,
                 keyring, uses, secrets, calls>>

(* IOSC_DeleteObject, IOSC_CreateObject and setting the new key            *)
Delete(p, h) ==
  /\ ProgramsRun /\ token = NULL
  /\ keyring[h] # NULL /\ keyring[h].owner = p
  /\ secrets < MaxKeys
  /\ keyring' = [keyring EXCEPT ![h] = NULL]
  /\ UNCHANGED <<requestVars, shaVars, aesVars, token, uses, secrets, wanted, calls>>
Create(p, h) ==
  /\ ProgramsRun /\ token = NULL
  /\ keyring[h] = NULL
  /\ secrets' = secrets + 1
  /\ keyring' = [keyring EXCEPT ![h] = [owner |-> p, secret |-> <<"key", secrets + 1>>]]
  /\ UNCHANGED <<requestVars, shaVars, aesVars, token, uses, wanted, calls>>

(* The key that the SHA thread finds: any, when the parameter is gone.     *)
Signers(m) ==
  IF request[m].hurried THEN {Secret(h) : h \in Handle} \cup {NULL}
  ELSE IF request[m].handle = NULL THEN {NULL} ELSE {Secret(request[m].handle)}

ShaThread == \/ ShaEngineHandler /\ UNCHANGED <<aesVars, callVars>>
             \/ /\ shaQueue # << >>
                /\ \E s \in Signers(Head(shaQueue)) : ShaTakes(Head(shaQueue), s)
                /\ UNCHANGED <<aesVars, callVars>>
AesThread == AesEngineHandler /\ UNCHANGED <<shaVars, callVars>>
Engines == \/ ShaRuns /\ UNCHANGED <<aesVars, callVars>>
           \/ AesRuns /\ UNCHANGED <<shaVars, callVars>>

Calling ==
  \E m \in Message :
    \/ \E h \in Handle, custom \in Customs : GenerateBlockMAC(m, h, "mac", "init", custom, 0)
    \/ \E h \in Handle, command \in Command \ {"init"}, custom \in Customs, input \in Inputs :
         GenerateBlockMAC(m, h, "mac", command, custom, input)
    \/ \E h \in Handle : GenerateBlockMAC(m, h, "plain", "init", 0, 0)
    \/ \E h \in Handle, command \in {"encrypt", "decrypt"}, dst \in Buffer :
         Crypt(m, h, command, dst)
    \/ \E command \in Command, input \in Inputs : Hash(m, command, input)
    \/ \E n \in Verified, tampered \in BOOLEAN : Verify(m, n, tampered)
    \/ Copy(m)
    \/ Returns(m)
Keys == \E p \in Process, h \in Remade : Delete(p, h) \/ Create(p, h)
Cache == \E m \in Message, b \in Buffer :
           result[m] = "busy" /\ request[m].src # NULL /\ Evicts(m, b) /\ UNCHANGED <<shaVars, callVars>>

Next == Calling \/ Keys \/ ShaThread \/ AesThread \/ Engines \/ Cache

Spec == Init /\ [][Next]_vars

-----------------------------------------------------------------------------
(* The vectors are on the heap, each at a place of its own, until whoever  *)
(* must free them has: the engine when all went well or the number of      *)
(* vectors is wrong, a synchronous caller otherwise.  Nothing else stays   *)
(* on the heap, but for the vectors of asynchronous requests that failed.  *)
Owed == {m \in Message :
           /\ request[m] # NoRequest /\ piece[m] # NULL
           /\ \/ result[m] = "busy"
              \/ result[m] = "failed" /\ Synchronous(m) /\ ~ WrongCount(request[m])}
PiecesAccounted ==
  /\ \A m, n \in Owed : piece[m] = piece[n] => m = n
  /\ {piece[m] : m \in Owed} \cap lost = {}
  /\ heap = {piece[m] : m \in Owed} \cup lost

(* A hash or a MAC that is answered is the standard's for all the data     *)
(* since the Init, although the engine works for several threads in turn,  *)
(* and a MAC is made with the key that its caller owned when it called.    *)
(* What is verified has the hashes it claims, and only that or a failure   *)
(* of the engine makes a verification stop the system.                     *)
DigestIsStandard ==
  LET genuine(m) == \A i \in DOMAIN request[m].claims :
                      request[m].claims[i].hash = Digest(request[m].claims[i].data)
      owed(m) == /\ request[m].kind \in {"sha", "mac"} /\ request[m].command = "finalize"
                 /\ told[m].sound
  IN /\ \A m \in Message : result[m] = "ok" =>
          /\ genuine(m)
          /\ owed(m) => answer[m] = Expected(told[m], request[m])
     /\ sha.at = "panic" /\ errors = 0 => ~ genuine(sha.from)

(* An AES request that is answered left the data that its caller, who sees *)
(* them through the cache, asked for, and the vector to go on from.        *)
CipherIsRight ==
  \A m \in Message :
    result[m] = "ok" /\ wanted[m] # NULL =>
      /\ Data(line[m][request[m].dst]) = wanted[m].data
      /\ iv[m] = wanted[m].next

(* No request is forgotten: while one is not answered its engine thread    *)
(* can run, or waits for an engine that is at work and going to interrupt. *)
NothingStuck ==
  \A m \in Message : result[m] = "busy" =>
    IF request[m].src = NULL
    THEN ShaBlocked => shaCmd.execute /\ shaCmd.irq
    ELSE AesBlocked => aesCmd.execute /\ aesCmd.irq
=============================================================================

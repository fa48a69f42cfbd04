------------------------------ MODULE GameAuth ------------------------------
(***************************************************************************)
(* How the peer server decides which game a HelloServer belongs to         *)
(* (Server::getVerifiedGame) and how the client library signs the          *)
(* HelloServer it sends (sendHelloServer).                                 *)
(*                                                                         *)
(* HMAC is symbolic: the digest of a byte string under a secret is the     *)
(* pair of the two, so two digests are equal exactly when the secret and   *)
(* the whole input are.  HMACInput appends to the input, so the inputs are *)
(* sequences and what one side concatenates differently from the other is  *)
(* a different digest.                                                     *)
(***************************************************************************)
EXTENDS Sequences, Naturals

CONSTANTS
    GameDB,     \* token -> [game_id, secret, verify], for the tokens findByToken knows
    NoGame,     \* the NULL game
    NoSig       \* the gameSignature field of a HelloServer that carries none

Games == {GameDB[t].game_id : t \in DOMAIN GameDB}

ASSUME GameAuthAssumption == NoGame \notin Games

Hmac(secret, input) == <<secret, input>>

\* Mutant: the attributes are left out of the server's digest.
DigestWithoutAttributes(secret, hello) == Hmac(secret, hello.authToken \o hello.authToken)

\* What getVerifiedGame feeds to the HMAC: the authToken, the value it
\* reads into "reconnect", and the attributes.  The value read into
\* "reconnect" is hello->authToken().
ServerDigest(secret, hello) ==
    Hmac(secret, hello.authToken \o hello.authToken \o hello.attributes)

\* The HelloServer the client library builds from its own credentials.  The
\* attributes are never empty: sendHelloServer always adds a timestamp.
SignedHello(flags, token, secret, authToken, reconnectToken, attributes) ==
    [webRTC         |-> flags,
     gameToken      |-> token,
     authToken      |-> authToken,
     reconnectToken |-> reconnectToken,
     attributes     |-> attributes,
     gameSignature  |-> Hmac(secret, authToken \o reconnectToken \o attributes)]

\* Server::getVerifiedGame.  The Anonymous DB accepts every token and never
\* verifies; the flat file DB knows some tokens and may ask for a signature.
GetVerifiedGame(hello) ==
    LET record == GameDB[hello.gameToken]
        accepted ==
            /\ hello.gameSignature # NoSig
            /\ hello.gameToken \in DOMAIN GameDB
            /\ record.verify =>
                   hello.gameSignature = ServerDigest(record.secret, hello)
    IN  IF accepted THEN record.game_id ELSE NoGame

\* The signature of hello is the one the client library makes from the secret
\* of the game that hello names.
SignedWithGameSecret(hello) ==
    /\ hello.gameToken \in DOMAIN GameDB
    /\ hello = SignedHello(hello.webRTC, hello.gameToken, GameDB[hello.gameToken].secret,
                           hello.authToken, hello.reconnectToken, hello.attributes)
=============================================================================

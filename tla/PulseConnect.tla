---------------------------- MODULE PulseConnect ----------------------------
(***************************************************************************)
(* Connect and what the connection is used for: a program makes options,   *)
(* connects, perhaps again with the same options, subscribes with a filter *)
(* and sends updates.                                                      *)
(*                                                                         *)
(* The program goes on using the variables it handed over: a pin, a pool   *)
(* of root CAs and a list of accounts.  Where the client only points to    *)
(* one of them its value is Shared, read when it is used; all else is a    *)
(* copy.  TLS, the network and the peer are outside the repository:        *)
(* whoever answers at the address presents the certificate of its choice.  *)
(***************************************************************************)
EXTENDS Integers, Sequences, SequencesExt

CONSTANTS
  Shared,       \* stands for the program's variable
  None,         \* nil, or not given
  Failed,       \* an error in place of a result
  Makes,        \* the calls of With* a program makes: an option's kind and value
  Pins, Pools, Lists,  \* the values its variables take
  Digests,      \* the pins that are 32 bytes long
  Addrs, HostPorts,    \* the addresses dialled, and those that are host:port
  LoopbackIPs,  \* the hosts that parse to a loopback IP
  Peers,        \* the certificates, with their CA, name and key, and the ALPN
  SystemRoots,  \* the CAs of the system's trust store
  MaxOptions, MaxConnects, MaxMessages  \* bounds on what the program does

ASSUME ConnectBounds ==
  /\ MaxOptions \in Nat /\ MaxConnects \in Nat /\ MaxMessages \in Nat
  /\ HostPorts \subseteq Addrs /\ Digests \subseteq Pins

\* The values of the variables are not nil, and WithInsecureTLS takes none.
ASSUME ValuesAssumption ==
  /\ None # Shared
  /\ \A values \in {Pins, Pools, Lists} : None \notin values /\ Shared \notin values
  /\ \A m \in Makes : /\ DOMAIN m = {"kind", "value"}
                      /\ m.kind = "insecure" => m.value = TRUE
                      /\ m.kind = "rootCAs" => m.value \in {None, Shared}

VARIABLES
  pin, pool, list,  \* the program's variables
  options,   \* the options made, in order
  pinMade,   \* history: the pin when the last pin option was made
  pc,        \* "idle", "dial", "up", "open" (a control stream) or "failed"
  connects,  \* calls of Connect so far
  cfg,       \* the clientConfig of the last call
  tls,       \* its tls.Config
  asked,     \* history: that call's address, options and pool
  peer,      \* who answered it
  filter,    \* the Filter the program has built
  meant,     \* history: the accounts and the vote it was built from
  tier,      \* the program has subscribed to the full-tx tier
  msg,       \* the last message marshalled; written unless pc is "open"
  msgMeant,  \* history: the accounts, vote and fields it was to carry
  sent       \* control messages written

programVars == <<pin, pool, list, filter, meant>>
optionVars == <<options, pinMade>>
connVars == <<connects, cfg, tls, asked, peer>>
vars == <<programVars, optionVars, connVars, pc, tier, msg, msgMeant, sent>>

Deref(value, variable) == IF value = Shared THEN variable ELSE value

-----------------------------------------------------------------------------
Numbers == {"ackTimeout", "preambleTimeout", "sigQueueCapacity"}

\* The fields of clientConfig are named for the options that set them.
defaultClientConfig ==
  [token |-> "", rootCAs |-> None, serverName |-> "", pin |-> None,
   insecure |-> FALSE, ackTimeout |-> 10, preambleTimeout |-> 10, sigQueueCapacity |-> 4096]

withPinByReference(make) ==  \* mutant: keeps the caller's slice
  IF make.kind \in {"pin", "rootCAs"} /\ make.value # None
    THEN [make EXCEPT !.value = Shared] ELSE make

\* The With* functions: a pin is copied, a pool kept by reference.
with(make) ==
  CASE make.kind = "pin" -> [make EXCEPT !.value = pin]
    [] make.kind = "rootCAs" /\ make.value # None -> [make EXCEPT !.value = Shared]
    [] OTHER -> make

\* Each option's own check; the nil option fails without one.
Accepts(option) ==
  CASE option.kind = "rootCAs"    -> option.value # None
    [] option.kind = "serverName" -> option.value # ""
    [] option.kind = "pin"        -> Deref(option.value, pin) \in Digests
    [] option.kind \in Numbers    -> option.value > 0
    [] OTHER -> option.kind # "nil"

\* The pool is cloned here, the pin copied once more.
apply(config, option) ==
  [config EXCEPT ![option.kind] =
     CASE option.kind = "rootCAs" -> Deref(option.value, pool)
       [] option.kind = "pin"     -> Deref(option.value, pin)
       [] OTHER -> option.value]

applyOptionsInOrder(opts) ==  \* mutant: only an earlier option can conflict
  LET step(c, o) == IF c = Failed \/ ~Accepts(o) THEN Failed
                    ELSE IF o.kind \in {"pin", "rootCAs"} /\ c.insecure THEN Failed
                    ELSE apply(c, o)
  IN  FoldLeft(step, defaultClientConfig, opts)

\* The config after each option.
configs(opts) ==
  LET config[i \in 0 .. Len(opts)] ==
        IF i = 0 THEN defaultClientConfig ELSE apply(config[i - 1], opts[i])
  IN  config

applyOptions(opts) ==
  LET config == configs(opts)[Len(opts)]
  IN  IF \E i \in DOMAIN opts : ~Accepts(opts[i]) THEN Failed
      ELSE IF config.insecure /\ (config.rootCAs # None \/ config.pin # None) THEN Failed
      ELSE config

isLoopbackHost(host) == host = "localhost" \/ host \in LoopbackIPs

newTLSConfig(addr, config) ==
  IF addr \notin HostPorts \/ (config.insecure /\ ~isLoopbackHost(addr)) THEN Failed
  ELSE [serverName |-> IF config.serverName = "" THEN addr ELSE config.serverName,
        rootCAs |-> config.rootCAs, skipVerify |-> config.insecure, pin |-> config.pin]

\* The pin check of VerifyConnection: an addition to TLS's own verification.
VerifyConnection(p) == tls.pin # None => p.key = tls.pin

\* External: TLS agrees on the protocol and verifies chain and name.
TLSVerifies(p) ==
  /\ p.alpn = "pulse"
  /\ tls.skipVerify
     \/ /\ p.ca \in (IF tls.rootCAs = None THEN SystemRoots ELSE Deref(tls.rootCAs, pool))
        /\ p.name = tls.serverName

-----------------------------------------------------------------------------
NoFilter == [include |-> None, exclude |-> None, required |-> None, vote |-> None]

AccountsByReference(keys) ==  \* mutant: keeps the caller's slice
  [NoFilter EXCEPT !.include = Shared]

Accounts(keys) == [NoFilter EXCEPT !.include = keys]

WithVote(f, isVote) == [f EXCEPT !.vote = isVote]

nonNil(values) == IF values = None THEN {} ELSE values

\* json.Marshal of control: what the server finds in the message.
MarshalJSON(token, f, full, fields) ==
  [token |-> IF token = "" THEN None ELSE token,
   include |-> nonNil(Deref(f.include, list)),
   exclude |-> nonNil(Deref(f.exclude, list)),
   required |-> nonNil(Deref(f.required, list)),
   vote |-> f.vote, full |-> full, fields |-> nonNil(fields), v |-> 2]

Nothing == [accounts |-> {}, vote |-> None]

Init ==
  /\ pin \in Pins /\ pool \in Pools /\ list \in Lists
  /\ options = <<>> /\ pinMade = None
  /\ pc = "idle" /\ connects = 0
  /\ cfg = None /\ tls = None /\ asked = None /\ peer = None
  /\ filter = NoFilter /\ meant = Nothing
  /\ tier = FALSE /\ msg = None /\ msgMeant = None /\ sent = 0

-----------------------------------------------------------------------------
\* The program.
MakeOption(make) ==
  /\ pc = "idle" /\ connects = 0
  /\ Len(options) < MaxOptions
  /\ options' = Append(options, with(make))
  /\ pinMade' = IF make.kind = "pin" THEN pin ELSE pinMade
  /\ UNCHANGED <<programVars, connVars, pc, tier, msg, msgMeant, sent>>

\* Nothing reads pin and pool once the connection is up.
OverwritePinOrPool ==
  /\ pc \in {"idle", "dial"}
  /\ \/ pin' \in Pins \ {pin} /\ UNCHANGED pool
     \/ pool' \in Pools \ {pool} /\ UNCHANGED pin
  /\ UNCHANGED <<list, filter, meant, optionVars, connVars, pc, tier, msg, msgMeant, sent>>

OverwriteList ==
  /\ pc \in {"up", "open"}
  /\ list' \in Lists \ {list}
  /\ UNCHANGED <<pin, pool, filter, meant, optionVars, connVars, pc, tier, msg, msgMeant, sent>>

\* Accounts with a vote, or a Filter that holds the program's own slice.
BuildFilter ==
  /\ pc = "up"
  /\ \/ /\ filter' = WithVote(Accounts(list), TRUE)
        /\ meant' = [accounts |-> list, vote |-> TRUE]
     \/ /\ filter' = [NoFilter EXCEPT !.required = Shared]
        /\ meant' = [accounts |-> list, vote |-> None]
  /\ filter' # filter
  /\ UNCHANGED <<pin, pool, list, optionVars, connVars, pc, tier, msg, msgMeant, sent>>

\* Options are validated and the TLS configuration made before anything is dialled.
Connect(addr, opts) ==
  /\ pc \in {"idle", "failed", "up"}
  /\ connects < MaxConnects
  /\ connects' = connects + 1
  /\ cfg' = applyOptions(opts)
  /\ tls' = IF cfg' = Failed THEN Failed ELSE newTLSConfig(addr, cfg')
  /\ pc' = IF tls' = Failed THEN "failed" ELSE "dial"
  /\ asked' = [addr |-> addr, options |-> opts, pool |-> pool]
  /\ peer' = None /\ sent' = 0 /\ tier' = FALSE /\ msg' = None /\ msgMeant' = None
  /\ UNCHANGED <<programVars, optionVars>>

ConnectWithToken(addr, token) ==
  Connect(addr, <<with([kind |-> "token", value |-> token])>> \o options)

\* DialAddr; a lost packet or an expired ctx fails it as well.
Handshake(p) ==
  /\ pc = "dial"
  /\ \/ pc' = "up" /\ peer' = p /\ TLSVerifies(p) /\ VerifyConnection(p)
     \/ pc' = "failed" /\ UNCHANGED peer
  /\ UNCHANGED <<programVars, optionVars, connects, cfg, tls, asked, tier, msg, msgMeant, sent>>

\* sendControl of the subscription with the token, or controlRoundTrip of an
\* update without: the message is marshalled before the stream is opened.  Only
\* the full-tx tier's calls take fields.  The claim and the answers are in
\* PulseControl; here every message is accepted.
controlRoundTrip(full, fields) ==
  /\ pc = "up" /\ sent < MaxMessages
  /\ sent > 0 => full = tier
  /\ full \/ fields = None
  /\ tier' = full
  /\ IF sent = 0 THEN msg' = MarshalJSON(cfg.token, filter, full, fields)
                    ELSE msg' = MarshalJSON("", filter, FALSE, fields)
  /\ msgMeant' = [accounts |-> IF filter.required = Shared THEN list ELSE meant.accounts,
                  vote |-> meant.vote, fields |-> fields]
  /\ pc' = "open"
  /\ UNCHANGED <<programVars, optionVars, connVars, sent>>

WriteControl ==
  /\ pc = "open"
  /\ sent' = sent + 1
  /\ pc' = "up"
  /\ UNCHANGED <<programVars, optionVars, connVars, tier, msg, msgMeant>>

Next ==
  \/ \E make \in Makes : MakeOption(make)
  \/ OverwritePinOrPool \/ OverwriteList \/ BuildFilter
  \/ \E addr \in Addrs : Connect(addr, options) \/ ConnectWithToken(addr, "other token")
  \/ \E p \in Peers : Handshake(p)
  \/ \E full \in BOOLEAN, fields \in {None, {"alt"}} : controlRoundTrip(full, fields)
  \/ WriteControl

Spec == Init /\ [][Next]_vars

-----------------------------------------------------------------------------
\* The options of the last call of Connect that set kind, and the last one's value.
Given(kind) == {i \in DOMAIN asked.options : asked.options[i].kind = kind}
LastGiven(kind) == asked.options[Max(Given(kind))].value

\* WithToken: tokens "are sent only after TLS verification succeeds", that is to
\* a peer with a chain to the roots the program gave when it connected, for the
\* name it gave, and with the key it gave to WithSPKIPinSHA256, whatever it has
\* done with its buffers since; or, without verification, on a loopback address.
\* Only the first message has a token, the last the program gave.
TokenToVerifiedPeer ==
  msg # None /\ msg.token # None =>
    /\ sent = (IF pc = "open" THEN 0 ELSE 1)
    /\ msg.token = LastGiven("token")
    /\ IF Given("insecure") # {}
         THEN asked.addr \in {"localhost"} \cup LoopbackIPs
         ELSE /\ peer.ca \in (IF Given("rootCAs") = {} THEN SystemRoots ELSE asked.pool)
              /\ peer.name = (IF Given("serverName") = {} THEN asked.addr
                                                             ELSE LastGiven("serverName"))
              /\ Given("pin") # {} => peer.key = pinMade

\* What the With* functions say of their values.
Valid(option) ==
  /\ option.kind # "nil"
  /\ option.kind = "rootCAs" => option.value # None
  /\ option.kind = "serverName" => option.value # ""
  /\ option.kind = "pin" => option.value \in Digests
  /\ option.kind \in Numbers => option.value > 0

\* Option: "Options are validated before any network connection is attempted."
\* Only a host:port is dialled, and only with options that are each valid, those
\* that a later one overrides too.  Verification is off at a loopback address
\* only, and with neither roots nor a pin, in whatever order they are given; a
\* pin is as long as it was when its option was made; and the configuration has
\* positive timeouts and capacity.
DialledOnlyIfValid ==
  pc \notin {"idle", "failed"} =>
    /\ asked.addr \in HostPorts
    /\ \A i \in DOMAIN asked.options : Valid(asked.options[i])
    /\ Given("insecure") # {} =>
         /\ Given("rootCAs") = {} /\ Given("pin") = {}
         /\ asked.addr \in {"localhost"} \cup LoopbackIPs
    /\ Given("pin") # {} => pinMade \in Digests
    /\ \A n \in Numbers : cfg[n] > 0

\* MarshalJSON, Accounts: a message names the accounts its filter was built from,
\* or holds when the call is made, however long its stream takes to open, with
\* the filter's vote and the call's fields; arrays are sets, never null, and no
\* update changes the tier.
MessageAsBuilt ==
  msg # None =>
    /\ msg.include \cup msg.required = msgMeant.accounts
    /\ {msg.include, msg.exclude, msg.required} \subseteq Lists \cup {{}}
    /\ msg.vote = msgMeant.vote
    /\ msg.fields = IF msgMeant.fields = None THEN {} ELSE msgMeant.fields
    /\ sent > 1 => ~msg.full
=============================================================================

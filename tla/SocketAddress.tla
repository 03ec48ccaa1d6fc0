--------------------------- MODULE SocketAddress ---------------------------
(***************************************************************************)
(* unisock::socket_address: an address resolved by getaddrinfo(), with its *)
(* retries, given a port and printed, and named again by getnameinfo().    *)
(*                                                                         *)
(* `address` is the object, `call` the operation that runs on it.  Each    *)
(* answer of the resolver is one step; what the operation does with the    *)
(* last one belongs to that step.  server::listen, client::connect and     *)
(* udp::socket::bind resolve the address of their socket in the same way,  *)
(* and are one operation here, "inet".                                     *)
(***************************************************************************)
EXTENDS Integers

CONSTANTS MAX_HOST_RESOLVE_RETRIES, Ports

ASSUME RetriesAssumption == MAX_HOST_RESOLVE_RETRIES \in Nat \ {0}
ASSUME PortsAssumption == Ports \subseteq Nat

VARIABLES
    address,    \* family, length and port
    call,       \* the operation that runs, or ran last
    n_retries,  \* local of addrinfo() and nameinfo()
    outcome,    \* "running", or how the call ended
    asked,      \* history: how often the resolver was asked in this call
    answer,     \* history: what it answered last
    before      \* history: the address the call found

addressVars == <<address, call, n_retries, outcome, asked, answer, before>>

-----------------------------------------------------------------------------
(* Addresses.                                                              *)

ADDRESS_STORAGE_SIZE == 128

(* The structs of address_type_of, with their sizes; every other family is *)
(* a plain sockaddr, of which AF_UNIX is the one to_string() knows.        *)
AddressSize ==
    [AF_UNSPEC |-> 0, AF_INET |-> 16, AF_INET6 |-> 28, AF_UNIX |-> 106]

Families == {"AF_UNSPEC", "AF_INET", "AF_INET6", "AF_UNIX"}
InetFamilies == {"AF_INET", "AF_INET6"}

Address(family, sa_len, port) == [family |-> family, sa_len |-> sa_len, port |-> port]

(* The default constructor, all zero.                                      *)
NoAddress == Address("AF_UNSPEC", 0, 0)

(* What the kernel or the resolver writes in an address of a family; one   *)
(* that is larger than sockaddr_storage is not known to exist.             *)
Written(family) == Address(family, AddressSize[family], 0)

TooBig == Address("AF_UNIX", ADDRESS_STORAGE_SIZE + 1, 0)

(* address_family_of: the family a struct stands for.                      *)
AddressFamilyOf == [sockaddr_in |-> "AF_INET", sockaddr_in6 |-> "AF_INET6"]

(* to<type>() does not answer nullptr.                                     *)
To(type, addr) == AddressFamilyOf[type] = addr.family

-----------------------------------------------------------------------------
(* Operations.                                                             *)

AddrinfoResults == {"SUCCESS", "ERROR", "UNAVAILABLE", "ADDRESS_TOO_BIG"}

(* NAME_TOO_BIG is declared, but a name that is too big is an ERROR of     *)
(* getnameinfo().                                                          *)
NameinfoResults == {"SUCCESS", "ERROR", "UNAVAILABLE"}

Op(name, family, port) == [op |-> name, family |-> family, port |-> port]

NoCall == Op("none", "AF_UNSPEC", 0)

Resolving ==
    {Op(name, family, port) : name \in {"inet", "constructor"},
                              family \in InetFamilies, port \in Ports}
    \cup {Op("from_port", family, port) : family \in Families, port \in Ports}
    \cup {Op(name, family, 0) : name \in {"from", "addrinfo"}, family \in Families}

Naming == {Op(name, family, 0) : name \in {"nameinfo", "to_string"}, family \in Families}

(* Operations that build a new object, from an empty address, and throw    *)
(* when they cannot.                                                       *)
Constructs == call.op \in {"constructor", "from", "from_port"}

Answer(err, addr) == [err |-> err, addr |-> addr]

NoAnswer == Answer("unasked", NoAddress)

Running(ops) == outcome = "running" /\ call \in ops

(* The write through a null pointer ends the program.                      *)
Returned == outcome \notin {"running", "null"}

AddressInit ==
    /\ address = NoAddress /\ before = NoAddress
    /\ call = NoCall /\ n_retries = 0 /\ outcome = "SUCCESS"
    /\ asked = 0 /\ answer = NoAnswer

(* An address arrives from elsewhere: the constructors that copy one, and  *)
(* operator=.                                                              *)
Assign ==
    /\ Returned
    /\ \E family \in Families : address' = Written(family)
    /\ before' = address'
    /\ call' = NoCall /\ n_retries' = 0 /\ outcome' = "SUCCESS"
    /\ asked' = 0 /\ answer' = NoAnswer

(* An operation that asks the resolver is called.                          *)
Begin(op, addr) ==
    /\ Returned
    /\ call' = op /\ address' = addr /\ before' = addr
    /\ n_retries' = MAX_HOST_RESOLVE_RETRIES /\ outcome' = "running"
    /\ asked' = 0 /\ answer' = NoAnswer

Resolve ==
    \E op \in Resolving :
        Begin(op, IF op.op \in {"inet", "addrinfo"} THEN address ELSE NoAddress)

(* to_string() describes all but inet addresses without a name.            *)
Name ==
    \E op \in Naming :
        /\ op.family = address.family
        /\ op.op = "to_string" => op.family \in InetFamilies
        /\ Begin(op, address)

-----------------------------------------------------------------------------
(* The answers of the resolver.                                            *)

Ask(err, addr) ==
    /\ asked' = asked + 1 /\ answer' = Answer(err, addr)
    /\ UNCHANGED <<call, before>>

(* A mutation of PortType: use_IPv6 is not looked at.                      *)
PortTypeIn == "sockaddr_in"

(* Where the port goes: listen(), connect() and bind() choose the struct,  *)
(* the constructor and from() always take sockaddr_in.                     *)
PortType ==
    IF call.op = "inet" /\ call.family = "AF_INET6" THEN "sockaddr_in6"
    ELSE "sockaddr_in"

(* addrinfo() copied addr: the operation sets its port, when it has one.   *)
Deliver(addr) ==
    IF call.op \in {"from", "addrinfo"} THEN
        address' = addr /\ outcome' = "SUCCESS"
    ELSE IF call.op = "from_port" /\ addr.family \notin InetFamilies THEN
        address' = addr /\ outcome' = "throws"
    ELSE IF To(PortType, addr) THEN
        address' = [addr EXCEPT !.port = call.port] /\ outcome' = "SUCCESS"
    ELSE
        address' = addr /\ outcome' = "null"

(* nameinfo() returned: to_string() goes on with or without a name, and    *)
(* reads the port of an IPv6 address through to<sockaddr_in>().            *)
Named(result) ==
    IF call.op = "nameinfo" THEN result
    ELSE IF To("sockaddr_in", address) THEN "SUCCESS" ELSE "null"

(* addrinfo() or nameinfo() ends without having written the address: a     *)
(* constructor throws, the others report the result.                       *)
End(result) ==
    /\ outcome' = IF call \in Naming THEN Named(result)
                  ELSE IF Constructs THEN "throws" ELSE result
    /\ UNCHANGED address

(* What is found of a family: an address of it, or of either inet family   *)
(* when none was asked for.  Only getaddrinfo() of the BSDs knows AF_UNIX. *)
Found(family) ==
    {Written(f) : f \in IF family = "AF_UNSPEC" THEN InetFamilies ELSE {family}}

(* Mutations of AddrFound: the size is looked at after the copy, success   *)
(* at the last try is taken for exhaustion.                                *)
AddrFoundCopies ==
    /\ Running(Resolving)
    /\ \E addr \in Found(call.family) \cup {TooBig} :
          /\ Ask("none", addr)
          /\ IF addr.sa_len <= ADDRESS_STORAGE_SIZE THEN Deliver(addr)
             ELSE address' = addr /\ outcome' = "ADDRESS_TOO_BIG"
    /\ UNCHANGED n_retries

AddrFoundTooLate ==
    /\ Running(Resolving)
    /\ \E addr \in Found(call.family) \cup {TooBig} :
          /\ Ask("none", addr)
          /\ IF n_retries = 1 THEN End("UNAVAILABLE") ELSE Deliver(addr)
    /\ UNCHANGED n_retries

AddrFound ==
    /\ Running(Resolving)
    /\ \E addr \in Found(call.family) \cup {TooBig} :
          /\ Ask("none", addr)
          /\ IF addr.sa_len <= ADDRESS_STORAGE_SIZE THEN Deliver(addr)
             ELSE End("ADDRESS_TOO_BIG")
    /\ UNCHANGED n_retries

NameFound ==
    /\ Running(Naming)
    /\ Ask("none", NoAddress) /\ End("SUCCESS")
    /\ UNCHANGED n_retries

(* Success without a list of addresses, or with an empty name.             *)
Nothing ==
    /\ Running(Resolving \cup Naming)
    /\ Ask("nothing", NoAddress) /\ End("UNAVAILABLE")
    /\ UNCHANGED n_retries

(* Any other error, a name that is too big for the buffer included.        *)
Refused ==
    /\ Running(Resolving \cup Naming)
    /\ Ask("EAI_FAIL", NoAddress) /\ End("ERROR")
    /\ UNCHANGED n_retries

(* A mutation of Again: the counter is compared before it is decremented.  *)
AgainLate ==
    /\ Running(Resolving \cup Naming)
    /\ Ask("EAI_AGAIN", NoAddress)
    /\ n_retries' = n_retries - 1
    /\ IF n_retries > 0 THEN UNCHANGED <<address, outcome>> ELSE End("UNAVAILABLE")

(* EAI_AGAIN: while (--n_retries > 0).                                     *)
Again ==
    /\ Running(Resolving \cup Naming)
    /\ Ask("EAI_AGAIN", NoAddress)
    /\ n_retries' = n_retries - 1
    /\ IF n_retries' > 0 THEN UNCHANGED <<address, outcome>> ELSE End("UNAVAILABLE")

-----------------------------------------------------------------------------
Resolver == AddrFound \/ NameFound \/ Nothing \/ Refused \/ Again

AddressNext == Assign \/ Resolve \/ Name \/ Resolver

AddressSpec == AddressInit /\ [][AddressNext]_addressVars

-----------------------------------------------------------------------------
AddressTypeOK ==
    /\ address.family \in Families /\ address.sa_len \in Nat
    /\ address.port \in Ports \cup {0}
    /\ call \in Resolving \cup Naming \cup {NoCall}
    /\ n_retries \in 0 .. MAX_HOST_RESOLVE_RETRIES
    /\ asked \in 0 .. MAX_HOST_RESOLVE_RETRIES
    /\ outcome \in {"running", "null", "throws"}
            \cup (IF call \in Naming THEN NameinfoResults ELSE AddrinfoResults)

(* addrinfo() and nameinfo() give a resolver that answers EAI_AGAIN all    *)
(* the tries they promise and not one more, and an answer that comes with  *)
(* the last of them still counts: "could not be resolved within the number *)
(* of retries" is only said then, or when there was nothing in the answer. *)
AsksUntilAnswered ==
    /\ Returned /\ answer.err = "EAI_AGAIN" => asked = MAX_HOST_RESOLVE_RETRIES
    /\ outcome = "running" => asked < MAX_HOST_RESOLVE_RETRIES
    /\ outcome = "UNAVAILABLE" => answer.err \in {"EAI_AGAIN", "nothing"}
    /\ answer.err = "none" /\ answer.addr # TooBig => outcome \in {"SUCCESS", "throws", "null"}

(* A resolution that fails leaves the address of the socket as it was, at  *)
(* whatever try it failed: a bound socket keeps its address.               *)
FailureKeepsAddress ==
    outcome \in {"ERROR", "UNAVAILABLE", "ADDRESS_TOO_BIG"} => address = before

(* listen(), connect() and bind() end with an address of the family they   *)
(* were asked for and with their port in it, or with an error: none of     *)
(* their writes through to<>() goes nowhere.                               *)
InetGetsPort ==
    call.op = "inet" =>
        /\ outcome # "null"
        /\ outcome = "SUCCESS" => /\ address.family = call.family
                                  /\ address.port = call.port

(* The null pointers of to<sockaddr_in>() that are used are those of IPv6  *)
(* addresses, in the constructor, in from() with a port and in             *)
(* to_string(); no other use of an address ends the program.               *)
NullOnlyForIPv6 ==
    outcome = "null" =>
        /\ call.op \in {"constructor", "from_port", "to_string"}
        /\ address.family = "AF_INET6"

(* "@return an inet address created from the resolved hostname, port and   *)
(* family" (socket_address.hpp, from), for IPv4 and IPv6 alike.  Not so    *)
(* for IPv6, nor for AF_UNSPEC when the resolver finds an IPv6 address.    *)
FromGivesPort == call.op = "from_port" => outcome # "null"

=============================================================================

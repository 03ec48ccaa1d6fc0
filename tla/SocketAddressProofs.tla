------------------------- MODULE SocketAddressProofs -------------------------
(***************************************************************************)
(* What SocketAddress promises for every number of retries and every set   *)
(* of ports.  The invariants of the runs are not inductive: they speak of  *)
(* calls that have returned, and what makes them true is what holds while  *)
(* a call still runs (AskingInv).                                          *)
(***************************************************************************)
EXTENDS SocketAddress, TLAPS

Ops == Resolving \cup Naming

Addresses == [family : Families, sa_len : Nat, port : Ports \cup {0}]

(* While a call runs, the tries that are left and those that were made add *)
(* up, nothing was answered but EAI_AGAIN, and the address is untouched.   *)
AskingInv ==
    outcome = "running" =>
        /\ call \in Ops
        /\ n_retries > 0 /\ asked + n_retries = MAX_HOST_RESOLVE_RETRIES
        /\ answer.err \in {"unasked", "EAI_AGAIN"}
        /\ address = before
        /\ call \in Naming => call.family = address.family
        /\ call.op = "to_string" => call.family \in InetFamilies

Inv ==
    /\ AddressTypeOK /\ address \in Addresses /\ AskingInv
    /\ AsksUntilAnswered /\ FailureKeepsAddress
    /\ InetGetsPort /\ NullOnlyForIPv6

-----------------------------------------------------------------------------
(* The operations and the addresses, element by element.                   *)

(* What Resolving is made of: getaddrinfo() is asked for a family, and for *)
(* an inet one wherever a port must be set without looking.                *)
LEMMA ResolvingOps ==
    ASSUME NEW op \in Resolving
    PROVE  /\ op.op \in {"inet", "constructor", "from_port", "from", "addrinfo"}
           /\ op.family \in Families /\ op.port \in Ports \cup {0}
           /\ op.op \in {"inet", "constructor"} => op.family \in InetFamilies
  BY DEF Resolving, Op, Families, InetFamilies

(* What Naming is made of: getnameinfo() is asked by two operations only.  *)
LEMMA NamingOps ==
    ASSUME NEW op \in Naming
    PROVE  op.op \in {"nameinfo", "to_string"} /\ op.family \in Families
  BY DEF Naming, Op

(* An address the kernel or the resolver wrote is one of its family, has   *)
(* no port, and fits in sockaddr_storage.                                  *)
LEMMA WrittenAddresses ==
    ASSUME NEW family \in Families
    PROVE  LET addr == Written(family) IN
           /\ addr \in Addresses /\ addr.family = family
           /\ addr.port = 0 /\ addr.sa_len <= ADDRESS_STORAGE_SIZE
  BY PortsAssumption
     DEF Written, Address, Addresses, Families, AddressSize, ADDRESS_STORAGE_SIZE

(* What getaddrinfo() finds: an address of the family it was asked for.    *)
LEMMA FoundAddresses ==
    ASSUME NEW family \in Families, NEW addr \in Found(family)
    PROVE  /\ addr \in Addresses /\ addr.sa_len <= ADDRESS_STORAGE_SIZE
           /\ addr.family \in (IF family = "AF_UNSPEC" THEN InetFamilies ELSE {family})
<1>1. \E f \in Families :
          /\ addr = Written(f)
          /\ f \in (IF family = "AF_UNSPEC" THEN InetFamilies ELSE {family})
  BY DEF Found, Families, InetFamilies
<1>. QED BY <1>1, WrittenAddresses

-----------------------------------------------------------------------------
(* The steps.                                                              *)

(* The first state: no call, an empty address.                             *)
LEMMA InitInv == AddressInit => Inv
  BY RetriesAssumption
     DEF AddressInit, Inv, AddressTypeOK, Addresses, AskingInv, AsksUntilAnswered, FailureKeepsAddress,
         InetGetsPort, NullOnlyForIPv6, NoAddress, Address, NoCall, Op, NoAnswer,
         Answer, Families, Returned, Naming, AddrinfoResults, NameinfoResults

(* An operation starts with all its tries, on an address of its family     *)
(* where it is to be named.                                                *)
LEMMA BeginInv ==
    ASSUME NEW op \in Ops, NEW addr \in Addresses,
           op \in Naming => op.family = addr.family,
           op.op = "to_string" => op.family \in InetFamilies,
           Begin(op, addr)
    PROVE  Inv'
<1>1. AddressTypeOK' /\ (address \in Addresses)'
  BY RetriesAssumption DEF Begin, AddressTypeOK, Addresses, Ops
<1>2. AskingInv'
  BY RetriesAssumption DEF Begin, AskingInv, NoAnswer, Answer
<1>3. AsksUntilAnswered' /\ FailureKeepsAddress' /\ InetGetsPort' /\ NullOnlyForIPv6'
  BY RetriesAssumption
     DEF Begin, AsksUntilAnswered, FailureKeepsAddress, InetGetsPort, NullOnlyForIPv6,
         NoAnswer, Answer, Returned
<1>. QED BY <1>1, <1>2, <1>3 DEF Inv

(* An address that arrives from elsewhere.                                 *)
LEMMA AssignInv == ASSUME Assign PROVE Inv'
<1>1. PICK family \in Families : address' = Written(family)
  BY DEF Assign
<1>2. (address \in Addresses)'
  BY <1>1, WrittenAddresses
<1>3. AddressTypeOK'
  BY <1>2, RetriesAssumption
     DEF Assign, AddressTypeOK, Addresses, Naming, NoCall, Op, AddrinfoResults, NameinfoResults
<1>4. AskingInv' /\ AsksUntilAnswered' /\ FailureKeepsAddress' /\ InetGetsPort'
        /\ NullOnlyForIPv6'
  BY DEF Assign, AskingInv, AsksUntilAnswered, FailureKeepsAddress, InetGetsPort,
         NullOnlyForIPv6, NoAnswer, Answer, Returned, NoCall, Op
<1>. QED BY <1>2, <1>3, <1>4 DEF Inv

(* The resolver's answer ends a call that does not write the address.      *)
LEMMA EndInv ==
    ASSUME Inv, outcome = "running",
           NEW err, NEW addr, NEW result,
           result \in AddrinfoResults,
           result = "SUCCESS" => call \in Naming,
           call \in Naming => result \in NameinfoResults,
           err = "EAI_AGAIN" => asked + 1 = MAX_HOST_RESOLVE_RETRIES,
           result = "UNAVAILABLE" => err \in {"EAI_AGAIN", "nothing"},
           err = "none" /\ addr # TooBig => result = "SUCCESS",
           n_retries' \in 0 .. MAX_HOST_RESOLVE_RETRIES,
           Ask(err, addr), End(result)
    PROVE  Inv'
<1>1. asked' \in 0 .. MAX_HOST_RESOLVE_RETRIES
  BY RetriesAssumption DEF Inv, AddressTypeOK, AskingInv, Ask
<1>2. call \in Ops /\ address' = before' /\ call' = call /\ address' = address
  BY DEF Inv, AskingInv, Ask, End
<1>3. outcome' \in {"throws", "null", "SUCCESS", result}
        /\ (call \in Naming => outcome' \in {"null", "SUCCESS", result})
        /\ (outcome' = "SUCCESS" => result = "SUCCESS" \/ call \in Naming)
  BY <1>2 DEF End, Named
<1>4. outcome' = "null" =>
        call.op = "to_string" /\ address.family = "AF_INET6"
  <2>. SUFFICES ASSUME outcome' = "null" PROVE call.op = "to_string" /\ address.family = "AF_INET6"
    OBVIOUS
  <2>1. call \in Naming /\ call.op # "nameinfo" /\ ~To("sockaddr_in", address)
    BY DEF End, Named, AddrinfoResults
  <2>2. call.op = "to_string" /\ address.family \in InetFamilies
    BY <2>1, NamingOps DEF Inv, AskingInv
  <2>. QED BY <2>1, <2>2 DEF To, AddressFamilyOf, InetFamilies
<1>5. AddressTypeOK' /\ (address \in Addresses)'
  BY <1>1, <1>2, <1>3
     DEF Inv, AddressTypeOK, Ask, End, AddrinfoResults, NameinfoResults, Addresses
<1>6. AskingInv'
  BY <1>3 DEF AskingInv, AddrinfoResults
<1>7. AsksUntilAnswered'
  <2>1. answer'.err = err /\ answer'.addr = addr /\ asked' = asked + 1
    BY DEF Ask, Answer
  <2>2. outcome' # "running"
    BY <1>3 DEF AddrinfoResults
  <2>3. outcome' = "UNAVAILABLE" => err \in {"EAI_AGAIN", "nothing"}
    BY <1>3
  <2>4. err = "none" /\ addr # TooBig => outcome' \in {"SUCCESS", "throws", "null"}
    BY <1>3
  <2>. QED BY <2>1, <2>2, <2>3, <2>4 DEF AsksUntilAnswered
<1>8. FailureKeepsAddress'
  BY <1>2 DEF FailureKeepsAddress
<1>9. InetGetsPort'
  <2>1. call.op = "inet" => call \notin Naming
    BY NamingOps
  <2>. QED BY <1>2, <1>3, <1>4, <2>1 DEF InetGetsPort
<1>10. NullOnlyForIPv6'
  BY <1>2, <1>4 DEF NullOnlyForIPv6
<1>. QED BY <1>5, <1>6, <1>7, <1>8, <1>9, <1>10 DEF Inv

(* The resolver answers with an address: it is written, with its port, and *)
(* kept as it was when it does not fit.                                    *)
LEMMA AddrFoundInv == ASSUME Inv, AddrFound PROVE Inv'
<1>1. PICK addr \in Found(call.family) \cup {TooBig} :
          /\ Ask("none", addr)
          /\ IF addr.sa_len <= ADDRESS_STORAGE_SIZE THEN Deliver(addr)
             ELSE End("ADDRESS_TOO_BIG")
  BY DEF AddrFound
<1>2. /\ outcome = "running" /\ call \in Resolving /\ call' = call /\ before' = before
      /\ n_retries' = n_retries /\ n_retries \in 0 .. MAX_HOST_RESOLVE_RETRIES
      /\ answer'.err = "none" /\ answer'.addr = addr
      /\ asked' = asked + 1 /\ asked' \in 0 .. MAX_HOST_RESOLVE_RETRIES
      /\ call \notin Naming
  BY <1>1, RetriesAssumption, ResolvingOps, NamingOps
     DEF AddrFound, Running, Ask, Answer, Inv, AddressTypeOK, AskingInv
<1>3. CASE ~(addr.sa_len <= ADDRESS_STORAGE_SIZE)
  <2>1. addr = TooBig
    BY <1>1, <1>2, <1>3, ResolvingOps, FoundAddresses
  <2>. QED
    BY <1>1, <1>2, <1>3, <2>1, EndInv DEF AddrinfoResults
<1>4. CASE addr.sa_len <= ADDRESS_STORAGE_SIZE
  <2>1. addr \in Found(call.family) /\ Deliver(addr)
    BY <1>1, <1>4 DEF TooBig, Address, ADDRESS_STORAGE_SIZE
  <2>2. /\ addr \in Addresses
        /\ addr.family \in (IF call.family = "AF_UNSPEC" THEN InetFamilies ELSE {call.family})
    BY <1>2, <2>1, ResolvingOps, FoundAddresses
  <2>3. /\ call.op \in {"inet", "constructor", "from_port", "from", "addrinfo"}
        /\ call.family \in Families /\ call.port \in Ports \cup {0}
        /\ call.op \in {"inet", "constructor"} => call.family \in InetFamilies
    BY <1>2, ResolvingOps
  <2>4. /\ outcome' \in {"SUCCESS", "throws", "null"}
        /\ (address \in Addresses)'
        /\ address'.family = addr.family
    BY <2>1, <2>2, <2>3 DEF Deliver, Addresses
  <2>5. outcome' = "null" =>
          /\ call.op \in {"constructor", "from_port"} /\ address'.family = "AF_INET6"
    BY <2>1, <2>2, <2>3, <2>4
       DEF Deliver, To, PortType, AddressFamilyOf, InetFamilies
  <2>6. call.op = "inet" /\ outcome' = "SUCCESS" =>
          address'.family = call.family /\ address'.port = call.port
    BY <2>1, <2>2, <2>3, <2>4 DEF Deliver, Addresses, InetFamilies
  <2>7. AddressTypeOK'
    BY <1>2, <2>4 DEF AddressTypeOK, Addresses, AddrinfoResults
  <2>8. AskingInv' /\ AsksUntilAnswered' /\ FailureKeepsAddress'
    BY <1>2, <2>4 DEF AskingInv, AsksUntilAnswered, FailureKeepsAddress, Returned
  <2>9. InetGetsPort' /\ NullOnlyForIPv6'
    BY <1>2, <2>5, <2>6 DEF InetGetsPort, NullOnlyForIPv6
  <2>. QED BY <2>4, <2>7, <2>8, <2>9 DEF Inv
<1>. QED BY <1>3, <1>4

(* The resolver asks to be asked again.                                    *)
LEMMA AgainInv == ASSUME Inv, Again PROVE Inv'
<1>1. /\ outcome = "running" /\ call \in Ops /\ Ask("EAI_AGAIN", NoAddress)
      /\ n_retries \in 1 .. MAX_HOST_RESOLVE_RETRIES
      /\ n_retries' \in 0 .. MAX_HOST_RESOLVE_RETRIES /\ n_retries' = n_retries - 1
      /\ asked \in 0 .. MAX_HOST_RESOLVE_RETRIES
      /\ asked + n_retries = MAX_HOST_RESOLVE_RETRIES
  BY RetriesAssumption DEF Again, Running, Ops, Inv, AddressTypeOK, AskingInv
<1>2. CASE n_retries' > 0
  <2>1. /\ UNCHANGED <<address, outcome, call, before>> /\ asked' = asked + 1
        /\ answer'.err = "EAI_AGAIN"
    BY <1>1, <1>2 DEF Again, Ask, Answer
  <2>2. AddressTypeOK' /\ (address \in Addresses)'
    BY <1>1, <1>2, <2>1, RetriesAssumption DEF Inv, AddressTypeOK
  <2>3. AskingInv'
    BY <1>1, <1>2, <2>1, RetriesAssumption DEF Inv, AskingInv
  <2>4. AsksUntilAnswered' /\ FailureKeepsAddress' /\ InetGetsPort' /\ NullOnlyForIPv6'
    BY <1>1, <1>2, <2>1, RetriesAssumption
       DEF AsksUntilAnswered, FailureKeepsAddress, InetGetsPort, NullOnlyForIPv6, Returned
  <2>. QED BY <2>2, <2>3, <2>4 DEF Inv
<1>3. CASE ~(n_retries' > 0)
  <2>1. End("UNAVAILABLE") /\ asked + 1 = MAX_HOST_RESOLVE_RETRIES
    BY <1>1, <1>3, RetriesAssumption DEF Again
  <2>. QED BY <1>1, <2>1, EndInv DEF AddrinfoResults, NameinfoResults
<1>. QED BY <1>2, <1>3

(* Every step preserves the invariant.                                     *)
LEMMA NextInv == ASSUME Inv, [AddressNext]_addressVars PROVE Inv'
<1>1. CASE Assign
  BY <1>1, AssignInv
<1>2. CASE Resolve
  <2>1. PICK op \in Resolving :
            Begin(op, IF op.op \in {"inet", "addrinfo"} THEN address ELSE NoAddress)
    BY <1>2 DEF Resolve
  <2>2. NoAddress \in Addresses
    BY DEF NoAddress, Address, Addresses, Families
  <2>3. op \in Ops /\ op \notin Naming /\ op.op # "to_string"
    BY ResolvingOps, NamingOps DEF Ops
  <2>. QED BY <2>1, <2>2, <2>3, BeginInv DEF Inv
<1>3. CASE Name
  <2>1. PICK op \in Naming :
            /\ op.family = address.family
            /\ op.op = "to_string" => op.family \in InetFamilies
            /\ Begin(op, address)
    BY <1>3 DEF Name
  <2>. QED BY <2>1, BeginInv DEF Ops, Inv
<1>4. CASE AddrFound
  BY <1>4, AddrFoundInv
<1>5. CASE NameFound
  <2>1. /\ outcome = "running" /\ call \in Naming
        /\ Ask("none", NoAddress) /\ End("SUCCESS")
        /\ n_retries' \in 0 .. MAX_HOST_RESOLVE_RETRIES
    BY <1>5 DEF NameFound, Running, Inv, AddressTypeOK
  <2>. QED BY <2>1, EndInv DEF AddrinfoResults, NameinfoResults
<1>6. CASE Nothing
  <2>1. /\ outcome = "running"
        /\ Ask("nothing", NoAddress) /\ End("UNAVAILABLE")
        /\ n_retries' \in 0 .. MAX_HOST_RESOLVE_RETRIES
    BY <1>6 DEF Nothing, Running, Inv, AddressTypeOK
  <2>. QED BY <2>1, EndInv DEF AddrinfoResults, NameinfoResults
<1>7. CASE Refused
  <2>1. /\ outcome = "running"
        /\ Ask("EAI_FAIL", NoAddress) /\ End("ERROR")
        /\ n_retries' \in 0 .. MAX_HOST_RESOLVE_RETRIES
    BY <1>7 DEF Refused, Running, Inv, AddressTypeOK
  <2>. QED BY <2>1, EndInv DEF AddrinfoResults, NameinfoResults
<1>8. CASE Again
  BY <1>8, AgainInv
<1>9. CASE UNCHANGED addressVars
  BY <1>9
     DEF addressVars, Inv, AddressTypeOK, AskingInv, AsksUntilAnswered, FailureKeepsAddress,
         InetGetsPort, NullOnlyForIPv6, Returned
<1>. QED
  BY <1>1, <1>2, <1>3, <1>4, <1>5, <1>6, <1>7, <1>8, <1>9 DEF AddressNext, Resolver

(* The invariant holds in every reachable state.                           *)
THEOREM InvInvariant == AddressSpec => []Inv
<1>. QED BY InitInv, NextInv, PTL DEF AddressSpec

-----------------------------------------------------------------------------
(* The invariants, for every number of retries and every set of ports.     *)

(* The state of an operation on an address has its type.                   *)
THEOREM AddressTypeCorrect == AddressSpec => []AddressTypeOK
<1>1. Inv => AddressTypeOK
  BY DEF Inv
<1>. QED BY InvInvariant, <1>1, PTL

(* addrinfo() and nameinfo() ask as often as they promise and take the     *)
(* answer that comes with the last try.                                    *)
THEOREM ResolverIsAskedAgain == AddressSpec => []AsksUntilAnswered
<1>1. Inv => AsksUntilAnswered
  BY DEF Inv
<1>. QED BY InvInvariant, <1>1, PTL

(* A failed resolution does not touch the address it was made for.         *)
THEOREM FailureKeepsTheAddress == AddressSpec => []FailureKeepsAddress
<1>1. Inv => FailureKeepsAddress
  BY DEF Inv
<1>. QED BY InvInvariant, <1>1, PTL

(* listen(), connect() and bind() get the family and the port asked for.   *)
THEOREM PortIsSet == AddressSpec => []InetGetsPort
<1>1. Inv => InetGetsPort
  BY DEF Inv
<1>. QED BY InvInvariant, <1>1, PTL

(* Only an IPv6 address is written or read through to<sockaddr_in>(), and  *)
(* only by the constructor, by from() and by to_string().                  *)
THEOREM OtherPointersAreNotNull == AddressSpec => []NullOnlyForIPv6
<1>1. Inv => NullOnlyForIPv6
  BY DEF Inv
<1>. QED BY InvInvariant, <1>1, PTL

=============================================================================

-------------------------------- MODULE Socks5 -------------------------------
(***************************************************************************)
(* The SOCKS5 messages of the client's front end (internal/client/         *)
(* client.go) and of the server's upstream proxy (internal/server/         *)
(* server.go), as functions of the bytes written so far: "more" while a    *)
(* read waits for bytes that have not come, "bad" where the code gives up, *)
(* "ok" with what was read and the position after it.                      *)
(***************************************************************************)
EXTENDS Integers, Sequences, SequencesExt

More == [status |-> "more"]
Bad == [status |-> "bad"]
Ok(pos) == [status |-> "ok", pos |-> pos]

Has(bytes, pos, n) == pos + n - 1 <= Len(bytes)
Slice(bytes, pos, n) == SubSeq(bytes, pos, pos + n - 1)

(* socks5UserPassAuth from pos on.                                         *)
UserPassAuth(bytes, pos, user, pass) ==
  LET ulen == bytes[pos + 1]
      plen == bytes[pos + 2 + ulen]
  IN  IF ~Has(bytes, pos, 2) THEN More
      ELSE IF bytes[pos] # 1 THEN Bad
      ELSE IF ~Has(bytes, pos + 2, ulen + 1) THEN More
      ELSE IF ~Has(bytes, pos + 3 + ulen, plen) THEN More
      ELSE IF \/ Slice(bytes, pos + 2, ulen) # user
              \/ Slice(bytes, pos + 3 + ulen, plen) # pass THEN Bad
      ELSE Ok(pos + 3 + ulen + plen)

(* socks5Handshake: the methods the application offers are read, but the   *)
(* configuration decides; an empty user asks for no credentials.           *)
Handshake(bytes, user, pass) ==
  IF ~Has(bytes, 1, 2) THEN More
  ELSE IF bytes[1] # 5 THEN Bad
  ELSE IF ~Has(bytes, 3, bytes[2]) THEN More
  ELSE IF user # <<>> THEN UserPassAuth(bytes, 3 + bytes[2], user, pass)
  ELSE Ok(3 + bytes[2])

(* net.IP.String of four bytes, without leading zeros.                     *)
Decimal(n) ==
  LET digits == <<48 + n \div 100, 48 + ((n \div 10) % 10), 48 + (n % 10)>>
  IN  SubSeq(digits, IF n < 10 THEN 3 ELSE IF n < 100 THEN 2 ELSE 1, 3)
IPString(ip) == Tail(FlattenSeq([i \in 1 .. 4 |-> <<46>> \o Decimal(ip[i])]))

(* socks5Request and readSocks5Addr from pos on: an IPv4 address or a      *)
(* domain name. The version of the request is not looked at.               *)
Request(bytes, pos) ==
  LET addrType == bytes[pos + 3]
      first == IF addrType = 1 THEN pos + 4 ELSE pos + 5
      n == IF addrType = 1 THEN 4 ELSE bytes[pos + 4]
      addr == Slice(bytes, first, n)
  IN  IF ~Has(bytes, pos, 4) THEN More
      ELSE IF bytes[pos + 1] # 1 \/ addrType \notin {1, 3} THEN Bad
      ELSE IF ~Has(bytes, pos, first - pos) THEN More
      ELSE IF ~Has(bytes, first, n + 2) THEN More
      ELSE [status |-> "ok", pos |-> first + n + 2,
            addr |-> IF addrType = 1 THEN IPString(addr) ELSE addr,
            port |-> 256 * bytes[first + n] + bytes[first + n + 1]]

(* json.Marshal and json.Unmarshal of the address: a byte that is not UTF-8*)
(* becomes U+FFFD. (Only lone bytes from 128 on occur here.)               *)
ThroughJson(addr) ==
  FlattenSeq([i \in DOMAIN addr |-> IF addr[i] < 128 THEN <<addr[i]>> ELSE <<239, 191, 189>>])

(* socks5Connect: what the server asks the upstream proxy for. The address *)
(* is cut to 255 bytes.                                                    *)
ProxyRequest(addr, port) ==
  LET cut == IF Len(addr) > 255 THEN SubSeq(addr, 1, 255) ELSE addr
  IN  <<5, 1, 0, 3, Len(cut)>> \o cut \o <<port \div 256, port % 256>>
=============================================================================

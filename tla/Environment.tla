---------------------------- MODULE Environment ----------------------------
(***************************************************************************)
(* The configuration a process reads at its start and the violations it is *)
(* refused for, all of them at once.                                       *)
(*                                                                         *)
(* A value is abstracted to what the validation tells apart: it is absent, *)
(* or it has some of the defects "malformed" and "development".  Hosts are *)
(* numbers, since a loopback address has many spellings.                   *)
(***************************************************************************)
EXTENDS Integers, Sequences, FiniteSets

CONSTANTS
    Byte,          \* the values of an octet: 256
    LoopbackNet    \* the first octet of a loopback address: 127

ASSUME OctetAssumption ==
    /\ Byte \in Nat \ {0, 1, 2}
    /\ LoopbackNet \in 1..(Byte - 1)

Optional == {"PORT", "WORKER_METRICS_PORT", "MINIO_PUBLIC_ENDPOINT"}

Secrets == {"ACCESS_LINK_TOKEN_PEPPER", "INTERNAL_STORAGE_WEBHOOK_SECRET",
            "MINIO_ROOT_USER", "MINIO_ROOT_PASSWORD", "DEMO_LAWYER_PASSWORD",
            "BETTER_AUTH_SECRET"}

Required == Secrets \cup
    {"NODE_ENV", "DATABASE_URL", "MINIO_ENDPOINT", "CLAMAV_ENDPOINT",
     "DEMO_LAWYER_EMAIL", "DEMO_ACCESS_LINK_TOKEN", "DEMO_ACCESS_PIN",
     "TRUSTED_PROXY_HOP_COUNT", "PUBLIC_BASE_URL"}

\* No shape is asked of the credentials of the storage, nor of the addresses of
\* the storage and of the antivirus.
Shaped == (Required \cup Optional) \ {"MINIO_ENDPOINT", "CLAMAV_ENDPOINT",
                                      "MINIO_ROOT_USER", "MINIO_ROOT_PASSWORD"}

\* The values a production refuses: a placeholder in a secret or in the password
\* of the database, a loopback host, a public address without TLS, an address
\* nobody can write to.
Screened == Secrets \cup {"DATABASE_URL", "MINIO_ENDPOINT", "PUBLIC_BASE_URL",
                          "DEMO_LAWYER_EMAIL"}

-----------------------------------------------------------------------------
(***************************************************************************)
(* targets_loopback_host: a name, an IPv4 address in any of its spellings, *)
(* or an IPv6 address, compressed or not.                                  *)
(***************************************************************************)
NoNumber == -1

\* How many values the octets from the n-th to the last can take.
Span(n) ==
    CASE n = 1 -> Byte * Byte * Byte * Byte
      [] n = 2 -> Byte * Byte * Byte
      [] n = 3 -> Byte * Byte
      [] n = 4 -> Byte

\* parse_ipv4_host_as_integer: the last part stands for every octet that is not
\* written.
BugIpv4(parts) ==
    IF Len(parts) # 4 \/ \E i \in 1..4 : parts[i] >= Byte THEN NoNumber
    ELSE parts[1] * Span(2) + parts[2] * Span(3) + parts[3] * Span(4) + parts[4]

Ipv4(parts) ==
    LET n == Len(parts)
        leading(i) == IF i < n THEN parts[i] ELSE 0
    IN IF \/ n \notin 1..4
          \/ \E i \in 1..(n - 1) : parts[i] >= Byte
          \/ parts[n] >= Span(n)
       THEN NoNumber
       ELSE leading(1) * Span(2) + leading(2) * Span(3) + leading(3) * Span(4) + parts[n]

IsLoopbackNumber(address) ==
    address # NoNumber /\ (address \div Span(2) = LoopbackNet \/ address = 0)

\* expand_ipv6_groups: the groups before and after "::", if there is one.
Ipv6(head, tail, compressed) ==
    LET missing == IF compressed THEN 8 - Len(head) - Len(tail) ELSE 0
        written == head \o [i \in 1..missing |-> 0] \o tail
    IN IF missing < 0 \/ Len(written) # 8 THEN <<>> ELSE written

IsLoopbackGroups(groups) ==
    /\ groups # <<>>
    /\ \A i \in 1..5 : groups[i] = 0
    /\ \/ groups[6] = 0 /\ groups[7] = 0 /\ groups[8] \in {0, 1}
       \/ /\ groups[6] = Byte * Byte - 1
          /\ IsLoopbackNumber(groups[7] * Span(3) + groups[8])

TargetsLoopback(host) ==
    \/ host.kind = "localhost"
    \/ host.kind = "v4" /\ IsLoopbackNumber(Ipv4(host.parts))
    \/ host.kind = "v6" /\ IsLoopbackGroups(Ipv6(host.head, host.tail, host.compressed))

-----------------------------------------------------------------------------
(***************************************************************************)
(* parse_application_environment.  A configuration is a record: defects of *)
(* each variable, mode, ports as written and host of the database.         *)
(***************************************************************************)
Present(config, v) == "absent" \notin config.defects[v]

\* The value is taken as it is written.
Sound(config, v) == config.defects[v] \cap {"absent", "malformed"} = {}

\* read_optional_port
DefaultPort(v) == IF v = "PORT" THEN 3000 ELSE 9101
Port(config, v) ==
    IF Sound(config, v) THEN config.ports[v] ELSE DefaultPort(v)

PortsClash(config) == Port(config, "PORT") = Port(config, "WORKER_METRICS_PORT")

Production(config) == Sound(config, "NODE_ENV") /\ config.mode = "production"

Unfit(config, v) ==
    \/ "development" \in config.defects[v]
    \/ v = "DATABASE_URL" /\ TargetsLoopback(config.host)

Violations(config) ==
    {<<v, "missing">> : v \in {r \in Required : ~ Present(config, r)}}
    \cup {<<v, "malformed">> :
            v \in {s \in Shaped : Present(config, s) /\ "malformed" \in config.defects[s]}
                  \cup IF PortsClash(config) THEN {"WORKER_METRICS_PORT"} ELSE {}}
    \cup {<<v, "development_value_in_production">> :
            v \in {s \in Screened : /\ Production(config)
                                    /\ Present(config, s)
                                    /\ Unfit(config, s)}}

-----------------------------------------------------------------------------
(***************************************************************************)
(* The reference the screening is checked against: the four octets or the  *)
(* eight groups a resolver makes of the same spelling, if it makes any.    *)
(***************************************************************************)
LoopbackOctets(a, b, c, d) == a = LoopbackNet \/ (a = 0 /\ b = 0 /\ c = 0 /\ d = 0)

\* inet_aton: the last part is the number the remaining octets make.
Spells(parts, a, b, c, d) ==
    CASE parts = <<a, b, c, d>>                                             -> TRUE
      [] Len(parts) = 3 -> parts = <<a, b, c * Byte + d>>
      [] Len(parts) = 2 -> parts = <<a, b * Span(3) + c * Byte + d>>
      [] Len(parts) = 1 -> parts = <<a * Span(2) + b * Span(3) + c * Byte + d>>
      [] OTHER -> FALSE

\* The i-th of eight groups: "::" stands for as many zeros as are missing.
Group(host, i) ==
    IF i <= Len(host.head) THEN host.head[i]
    ELSE IF i > 8 - Len(host.tail) THEN host.tail[i - (8 - Len(host.tail))]
    ELSE 0

HasGroups(host) ==
    LET written == Len(host.head) + Len(host.tail)
    IN IF host.compressed THEN written <= 8 ELSE written = 8

Octet == 0..(Byte - 1)

\* A host that is written "localhost" or as an address: the others are the empty
\* host, which the driver takes for the machine itself, and the names, which say
\* nothing of the address the resolver gives them.
WrittenAsAddress(host) == host.kind \in {"localhost", "v4", "v6"}

ReachesLoopback(host) ==
    CASE host.kind \in {"localhost", "empty"} -> TRUE
      [] host.kind = "name" -> host.resolvesHere
      [] host.kind = "v4" ->
            \E a, b, c, d \in Octet :
                Spells(host.parts, a, b, c, d) /\ LoopbackOctets(a, b, c, d)
      [] host.kind = "v6" ->
            /\ HasGroups(host)
            /\ \A i \in 1..5 : Group(host, i) = 0
            /\ \/ /\ Group(host, 6) = 0 /\ Group(host, 7) = 0 /\ Group(host, 8) \in {0, 1}
               \/ /\ Group(host, 6) = Byte * Byte - 1
                  /\ \E a, b, c, d \in Octet :
                       /\ Group(host, 7) = a * Byte + b /\ Group(host, 8) = c * Byte + d
                       /\ LoopbackOctets(a, b, c, d)
=============================================================================

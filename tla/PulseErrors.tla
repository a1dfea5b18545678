---------------------------- MODULE PulseErrors -----------------------------
(***************************************************************************)
(* The error values of the client and how errors.go classifies them.       *)
(*                                                                         *)
(* A Go error is modelled by the set of errors that errors.Is and          *)
(* errors.As find in its chain: nil is {}, errors.Join is union, wrapping  *)
(* with %w changes nothing.  Messages and reasons are left out.            *)
(***************************************************************************)
EXTENDS Naturals

nil == {}

Plain(kind) == [kind |-> kind, code |-> 0, retry |-> "unknown"]

EOF         == Plain("io.EOF")
ErrBadFrame == Plain("ErrBadFrame")
Transport   == Plain("transport")  \* idle timeout, stateless reset, stream reset

\* *quic.ApplicationError, as quic-go returns it.
AppKind == "quic.ApplicationError"
AppError(code) == [kind |-> AppKind, code |-> code, retry |-> "unknown"]

\* Mutant: quota exhaustion is treated like a missing credential.
ClassifyCloseCodeMergesQuota(code) ==
  CASE code = 0 -> "normal"
    [] code \in {1, 4, 5} -> "never"
    [] code \in {2, 3} -> "after-credential-change"
    [] OTHER -> "unknown"

ClassifyCloseCode(code) ==
  CASE code = 0 -> "normal"                  \* CloseNormal
    [] code \in {1, 4, 5} -> "never"         \* control, version, entitlement
    [] code = 2 -> "after-credential-change" \* CloseUnauthenticated
    [] code = 3 -> "transient"               \* CloseQuotaExceeded
    [] OTHER -> "unknown"

TerminalError(code) == [kind |-> "TerminalError", code |-> code,
                        retry |-> ClassifyCloseCode(code)]

IsTerminal(err) == \E e \in err : e.kind = "TerminalError"

\* An application close anywhere in the chain becomes a *TerminalError that
\* keeps it as its cause; a chain that already has one is left alone.
mapTerminalError(err) ==
  LET app == {e \in err : e.kind = AppKind}
  IN  IF IsTerminal(err) \/ app = {} THEN err
      ELSE LET appErr == CHOOSE e \in app : TRUE
           IN  {TerminalError(appErr.code), appErr}

\* The caller's reconnect decision: CloseInfoFromError, then Retryable.
CloseInfoFromError(err) == {e \in err : e.kind = "TerminalError"}
Retryable(err) == \E e \in CloseInfoFromError(err) : e.retry = "transient"
NeedsCredentialChange(err) ==
  \E e \in CloseInfoFromError(err) : e.retry = "after-credential-change"
=============================================================================

\* A clear and a TLS request, each begun again up to twice.
SPECIFICATION Spec
CONSTANTS
    Request = {clear, tls}
    Secure = {tls}
    MaxTry = 2
    MaxWrite = 2
INVARIANTS AnsweredOnce FreedAnswered NotStuck
PROPERTIES NoResend
CHECK_DEADLOCK FALSE

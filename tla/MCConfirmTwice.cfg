SPECIFICATION Spec
CONSTANTS
    event = event
    forget = forget
    slack = slack
    text = text
    voice = voice
    Ask = {event, forget, slack}
    Loop = {event}
    Job = {slack}
    Nested = {}
    Turn = {text}
    Chat = {text}
    TTL = 2
CHECK_DEADLOCK FALSE
INVARIANT RunsOnce

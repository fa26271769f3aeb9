SPECIFICATION Spec
CONSTANTS
    q1 = q1
    q2 = q2
    q3 = q3
    x = x
    y = y
    None = None
    Queries = {q1, q2, q3}
    Ids = {i1}
    Questions = {x, y}
    QuestionOf <- MCQuestionOf
INVARIANT
    SenderKeptWhileWaiting

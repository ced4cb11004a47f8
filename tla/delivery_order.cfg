CONSTANT MaxFrame = 3
SPECIFICATION Spec

PROPERTY NeverDecodesOlder
CHECK_DEADLOCK FALSE
